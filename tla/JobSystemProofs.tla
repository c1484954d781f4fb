---------------------------- MODULE JobSystemProofs ----------------------------
(***************************************************************************)
(* Proofs about JobSystem, for every number of jobs, workers and requests  *)
(* and every bound on failures and calls.                                  *)
(***************************************************************************)
EXTENDS JobSystem, TLAPS

(***************************************************************************)
(* Rows.  Every write of the program makes a row out of rows.              *)
(***************************************************************************)

(* The percentages the program writes by itself.                           *)
LEMMA Percentages == 0 \in Percentage /\ 100 \in Percentage
BY DEF Percentage

(* The SET clause of the claim keeps a row a row.                          *)
LEMMA ClaimRow ==
  ASSUME NEW row \in Row, NEW w \in Workers
  PROVE  ClaimSet(row, w) \in Row
<1> DEFINE n == row.attempt_count + 1
<1>1. n \in Nat
  BY DEF Row
<1> HIDE DEF n
<1>2. [row EXCEPT !.status = "processing", !.worker_id = w,
                  !.leased_until = "future", !.attempt_count = n] \in Row
  BY <1>1 DEF Row, Stamp, JobStatus
<1> QED BY <1>2 DEF ClaimSet, n

(* So do those of the other guarded statements.                            *)
LEMMA StatementRows ==
  ASSUME NEW row \in Row
  PROVE  RenewSet(row) \in Row /\ ReapSet(row) \in Row /\ PromoteSet(row) \in Row
BY DEF Row, RenewSet, ReapSet, PromoteSet, Stamp, JobStatus

(* So does the passing of time.                                            *)
LEMMA StampRows ==
  ASSUME NEW row \in Row
  PROVE  /\ [row EXCEPT !.next_run_at = "past"] \in Row
         /\ [row EXCEPT !.leased_until = "past"] \in Row
         /\ [row EXCEPT !.scheduled_at = "past",
                        !.next_run_at = IF @ = "future" THEN "past" ELSE @] \in Row
<1>1. CASE row.next_run_at = "future"
  BY <1>1 DEF Row, Stamp
<1>2. CASE row.next_run_at # "future"
  BY <1>2 DEF Row, Stamp
<1> QED BY <1>1, <1>2

(* What submit_job inserts is a row.                                       *)
LEMMA NewRows ==
  /\ NoRow \in Row
  /\ NewRow("null") \in Row
  /\ NewRow("future") \in Row
BY MaxAttemptsAssumption, Percentages DEF Row, NoRow, NewRow, Stamp, JobStatus

(* The commit of a loaded object makes a row of three rows.                *)
LEMMA FlushRow ==
  ASSUME NEW row \in Row, NEW loaded \in Row, NEW new \in Row
  PROVE  Flush(row, loaded, new) \in Row
BY DEF Row, Flush, Written

(* The writes of executor and API through a loaded object.                 *)
LEMMA ObjectRows ==
  ASSUME NEW row \in Row, NEW mem \in Row
  PROVE  /\ Complete(row, mem) \in Row
         /\ RetryLater(row, mem) \in Row
         /\ FailPermanently(row, mem) \in Row
         /\ Cancel(row, mem) \in Row
         /\ \A at \in AppNow : ManualRetry(row, mem, at) \in Row
<1>1. Complete(row, mem) \in Row
  <2>1. [mem EXCEPT !.status = "completed", !.progress_pct = 100,
                    !.next_run_at = "null", !.leased_until = "null"] \in Row
    BY Percentages DEF Row, Stamp, JobStatus
  <2> QED BY <2>1, FlushRow DEF Complete
<1>2. [mem EXCEPT !.status = "pending", !.leased_until = "null",
                  !.worker_id = NoWorker] \in Row
  BY DEF Row, Stamp, JobStatus
<1>3. RetryLater(row, mem) \in Row
  <2>1. Flush(row, mem, [mem EXCEPT !.status = "pending", !.leased_until = "null",
                                    !.worker_id = NoWorker]) \in Row
    BY <1>2, FlushRow
  <2> QED BY <2>1 DEF RetryLater, Row, Stamp
<1>4. FailPermanently(row, mem) \in Row
  <2>1. [mem EXCEPT !.status = "failed", !.next_run_at = "null",
                    !.leased_until = "null", !.worker_id = NoWorker] \in Row
    BY DEF Row, Stamp, JobStatus
  <2> QED BY <2>1, FlushRow DEF FailPermanently
<1>5. Cancel(row, mem) \in Row
  <2>1. [mem EXCEPT !.status = "cancelled", !.next_run_at = "null",
                    !.leased_until = "null", !.worker_id = NoWorker] \in Row
    BY DEF Row, Stamp, JobStatus
  <2> QED BY <2>1, FlushRow DEF Cancel
<1>6. ASSUME NEW at \in AppNow
      PROVE  ManualRetry(row, mem, at) \in Row
  <2> DEFINE new == [mem EXCEPT !.status = "pending", !.max_attempts = @ + 1,
                                !.leased_until = "null", !.worker_id = NoWorker]
  <2>1. new \in Row
    <3> DEFINE n == mem.max_attempts + 1
    <3>1. n \in Nat
      BY DEF Row
    <3> HIDE DEF n
    <3>2. [mem EXCEPT !.status = "pending", !.max_attempts = n,
                      !.leased_until = "null", !.worker_id = NoWorker] \in Row
      BY <3>1 DEF Row, Stamp, JobStatus
    <3> QED BY <3>2 DEF n
  <2>2. Flush(row, mem, new) \in Row
    BY <2>1, FlushRow
  <2>3. at \in Stamp
    BY DEF AppNow, Stamp
  <2> QED BY <2>2, <2>3 DEF ManualRetry, Row
<1> QED BY <1>1, <1>3, <1>4, <1>5, <1>6

(* A progress report keeps a row a row, whatever percentage is reported.   *)
LEMMA ProgressRows ==
  ASSUME NEW row \in Row, NEW mem \in Row, NEW pct \in Int
  PROVE  /\ [mem EXCEPT !.progress_pct = Clamp(pct)] \in Row
         /\ ReportProgress(row, mem, pct) \in Row
<1>1. Clamp(pct) \in Percentage
  BY DEF Clamp, Percentage
<1>2. [mem EXCEPT !.progress_pct = Clamp(pct)] \in Row
  BY <1>1 DEF Row
<1> QED BY <1>2, FlushRow DEF ReportProgress

(* The Job a worker has in memory is a row, and differs from the row the   *)
(* claim returned in nothing but the progress.                             *)
LEMMA MemoryRow ==
  ASSUME TypeOK, NEW w \in Workers
  PROVE  /\ Memory(w) \in Row
         /\ Memory(w).status = task[w].row.status
         /\ Memory(w).attempt_count = task[w].row.attempt_count
         /\ Memory(w).leased_until = task[w].row.leased_until
         /\ Memory(w).worker_id = task[w].row.worker_id
         /\ Percent(reports[w] + 1) \in Int
<1>1. \A n \in Nat : Percent(n) \in Int
  <2> SUFFICES ASSUME NEW n \in Nat, BatchItems # 0
               PROVE  (n * 100) \div BatchItems \in Int
    BY DEF Percent
  <2>1. BatchItems \in Nat \ {0}
    BY BatchItemsAssumption
  <2> QED BY <2>1
<1>2. reports[w] \in Nat /\ task[w].row \in Row
  BY DEF TypeOK, Task
<1>3. Percent(reports[w]) \in Int /\ Percent(reports[w] + 1) \in Int
  BY <1>1, <1>2
<1>4. [task[w].row EXCEPT !.progress_pct = Clamp(Percent(reports[w]))] \in Row
  BY <1>2, <1>3, ProgressRows
<1> HIDE DEF Clamp, Percent
<1> QED BY <1>2, <1>3, <1>4 DEF Memory, Row

(***************************************************************************)
(* Type correctness.                                                       *)
(***************************************************************************)

(* Initially every variable has its type.                                  *)
LEMMA InitType == Init => TypeOK
BY NewRows, MaxCallsAssumption, FaultsAssumption
   DEF Init, TypeOK, QueuesEmpty, WorkerInit, MaintenanceInit, ApiInit,
       IdleTask, IdleBeat, IdleSched, IdleReq, Task, Beat, Sched, Req

(* A step of an API request keeps the types.                               *)
LEMMA RequestType ==
  ASSUME TypeOK, NEW r \in Requests, Request(r)
  PROVE  TypeOK'
<1> USE DEF TypeOK, workerVars, maintenanceVars
<1>0. PICK j \in Jobs :
        \/ Submit(r, j) \/ SubmitScheduled(r, j) \/ SubmitEnqueue(r, j)
        \/ SubmitSchedule(r, j) \/ CancelRead(r, j) \/ CancelCommit(r, j)
        \/ CancelZremPending(r, j) \/ CancelZremScheduled(r, j)
        \/ RetryRead(r, j) \/ RetryCommit(r, j) \/ RetryLrem(r, j)
  BY DEF Request, ApiStep
<1>a. UNCHANGED <<workerVars, maintenanceVars, faults>>
  BY DEF Request
<1>1. CASE Submit(r, j)
  BY <1>a, <1>1, NewRows DEF Submit, queueVars, Req
<1>2. CASE SubmitScheduled(r, j)
  BY <1>a, <1>2, NewRows DEF SubmitScheduled, queueVars, Req
<1>3. CASE SubmitEnqueue(r, j)
  BY <1>a, <1>3, NewRows DEF SubmitEnqueue, enqueue, Answer, IdleReq, Req
<1>4. CASE SubmitSchedule(r, j)
  BY <1>a, <1>4, NewRows DEF SubmitSchedule, schedule, Answer, IdleReq, Req
<1>5. CASE CancelRead(r, j)
  BY <1>a, <1>5, MaxCallsAssumption DEF CancelRead, Begin, queueVars, Req
<1>6. CASE CancelCommit(r, j)
  <2>1. Cancel(db[j], req[r].row) \in Row
    BY ObjectRows DEF Req
  <2> QED BY <1>a, <1>6, <2>1, NewRows DEF CancelCommit, Goto, queueVars, Req
<1>7. CASE CancelZremPending(r, j)
  BY <1>a, <1>7, NewRows DEF CancelZremPending, remove_pending, Goto, Req
<1>8. CASE CancelZremScheduled(r, j)
  BY <1>a, <1>8, NewRows DEF CancelZremScheduled, remove_scheduled, Answer, IdleReq, Req
<1>9. CASE RetryRead(r, j)
  BY <1>a, <1>9, MaxCallsAssumption DEF RetryRead, Begin, queueVars, Req
<1>10. CASE RetryCommit(r, j)
  <2>1. PICK at \in AppNow : db' = [db EXCEPT ![j] = ManualRetry(@, req[r].row, at)]
    BY <1>10 DEF RetryCommit
  <2>2. ManualRetry(db[j], req[r].row, at) \in Row
    BY ObjectRows DEF Req
  <2>3. db' \in [Jobs -> Row]
    BY <2>1, <2>2
  <2>4. req' \in [Requests -> Req]
    <3>1. Goto(r, "lrem")
      BY <1>10 DEF RetryCommit
    <3> QED BY <3>1, NewRows DEF Goto, Req
  <2> QED BY <1>a, <1>10, <2>3, <2>4 DEF RetryCommit, queueVars
<1>11. CASE RetryLrem(r, j)
  BY <1>a, <1>11, NewRows DEF RetryLrem, remove_dead_letter, Answer, IdleReq, Req
<1> QED
  BY <1>0, <1>1, <1>2, <1>3, <1>4, <1>5, <1>6, <1>7, <1>8, <1>9, <1>10, <1>11

(* A step of a worker's executor loop keeps the types.                     *)
LEMMA WorkerType ==
  ASSUME TypeOK, NEW w \in Workers, Worker(w)
  PROVE  TypeOK'
<1> USE DEF TypeOK, maintenanceVars, apiVars
<1>a. UNCHANGED <<maintenanceVars, apiVars, faults>>
  BY DEF Worker, Others
<1>1. ASSUME NEW j \in Jobs, Dequeue(w, j) PROVE TypeOK'
  BY <1>a, <1>1, NewRows DEF Dequeue, dequeue, Task
<1>2. CASE Claim(w)
  <2>1. task[w].job \in Jobs
    BY <1>2 DEF Claim
  <2>2. ClaimSet(db[task[w].job], w) \in Row
    BY <2>1, ClaimRow
  <2> QED BY <1>a, <1>2, <2>1, <2>2 DEF Claim, queueVars, Task
<1>3. CASE ClaimSkipped(w)
  BY <1>a, <1>3, NewRows DEF ClaimSkipped, IdleTask, queueVars, Task
<1>b. ASSUME NEW row \in Row, NEW pc \in {"release", "dead_letter"},
             task[w].pc = "running", Finalize(w, row, pc)
      PROVE  TypeOK'
  <2>1. task[w].job \in Jobs
    BY <1>b
  <2> QED BY <1>a, <1>b, <2>1, NewRows DEF Finalize, queueVars, Task
<1>4. CASE FinishCompleted(w)
  <2>1. Complete(db[task[w].job], Memory(w)) \in Row
    BY <1>4, ObjectRows, MemoryRow DEF FinishCompleted
  <2> QED BY <1>4, <1>b, <2>1 DEF FinishCompleted
<1>5. CASE FinishRetry(w)
  <2>1. RetryLater(db[task[w].job], Memory(w)) \in Row
    BY <1>5, ObjectRows, MemoryRow DEF FinishRetry
  <2> QED BY <1>5, <1>b, <2>1 DEF FinishRetry
<1>6. CASE FinishFailed(w)
  <2>1. FailPermanently(db[task[w].job], Memory(w)) \in Row
    BY <1>6, ObjectRows, MemoryRow DEF FinishFailed
  <2> QED BY <1>6, <1>b, <2>1 DEF FinishFailed
<1>7. CASE DeadLetter(w)
  BY <1>a, <1>7 DEF DeadLetter, dead_letter, Task
<1>8. CASE Release(w)
  BY <1>a, <1>8, NewRows DEF Release, IdleTask, queueVars, Task
<1>9. CASE Exit(w)
  BY <1>a, <1>9 DEF Exit, queueVars
<1>10. CASE Report(w)
  <2>1. task[w].job \in Jobs /\ reports[w] + 1 \in Nat
    BY <1>10 DEF Report
  <2>2. ReportProgress(db[task[w].job], Memory(w), Percent(reports[w] + 1)) \in Row
    BY <2>1, MemoryRow, ProgressRows
  <2> QED BY <1>a, <1>10, <2>1, <2>2 DEF Report, queueVars
<1> QED
  BY <1>1, <1>2, <1>3, <1>4, <1>5, <1>6, <1>7, <1>8, <1>9, <1>10 DEF Worker, ExecutorStep

(* A step of a worker's heartbeat loop keeps the types.                    *)
LEMMA HeartbeatType ==
  ASSUME TypeOK, NEW w \in Workers, Heartbeat(w)
  PROVE  TypeOK'
<1> USE DEF TypeOK, maintenanceVars, apiVars
<1>a. UNCHANGED <<maintenanceVars, apiVars, faults>>
  BY DEF Heartbeat, Others
<1>1. CASE HeartbeatRead(w)
  BY <1>a, <1>1 DEF HeartbeatRead, queueVars, Beat
<1>2. CASE RenewLease(w)
  <2>1. beat[w].job \in Jobs /\ RenewSet(db[beat[w].job]) \in Row
    BY <1>2, StatementRows DEF RenewLease
  <2>2. db' \in [Jobs -> Row]
    BY <1>2, <2>1 DEF RenewLease
  <2>3. CASE beat' = [beat EXCEPT ![w] = IdleBeat]
    BY <1>a, <1>2, <2>2, <2>3 DEF RenewLease, IdleBeat, queueVars, Beat
  <2>4. CASE beat' = [beat EXCEPT ![w].pc = "missed"]
    BY <1>a, <1>2, <2>1, <2>2, <2>4 DEF RenewLease, queueVars, Beat
  <2> QED BY <1>2, <2>3, <2>4 DEF RenewLease
<1>3. CASE ClearHolder(w)
  BY <1>a, <1>3 DEF ClearHolder, IdleBeat, queueVars, Beat
<1> QED BY <1>1, <1>2, <1>3 DEF Heartbeat, HeartbeatStep

(* A step of a maintenance loop keeps the types.                           *)
LEMMA MaintenanceType ==
  ASSUME TypeOK, Feeder \/ Reaper \/ Scheduler
  PROVE  TypeOK'
<1> USE DEF TypeOK, workerVars, apiVars
<1>a. UNCHANGED <<workerVars, apiVars, faults>>
  BY DEF Feeder, Reaper, Scheduler
<1>1. CASE FeederSelect
  BY <1>a, <1>1 DEF FeederSelect, FirstBatch, queueVars
<1>2. ASSUME NEW j \in Jobs, FeederEnqueue(j) PROVE TypeOK'
  BY <1>a, <1>2 DEF FeederEnqueue, enqueue
<1>3. CASE ReaperSelect
  <2>1. reaper' \subseteq Jobs
    BY <1>3 DEF ReaperSelect, Batches
  <2> QED BY <1>a, <1>3, <2>1 DEF ReaperSelect, queueVars
<1>4. ASSUME NEW j \in Jobs, Reap(j) PROVE TypeOK'
  <2>1. ReapSet(db[j]) \in Row
    BY StatementRows
  <2> QED BY <1>a, <1>4, <2>1 DEF Reap, queueVars
<1>5. CASE SchedulerReadRedis
  <2>1. PICK due \in SUBSET Jobs, ids \in SUBSET Jobs :
          sched' = [pc |-> "scan", due |-> due, todo |-> ids, job |-> NoJob]
    BY <1>5 DEF SchedulerReadRedis, Batches, AheadOfTime
  <2> QED BY <1>a, <1>5, <2>1 DEF SchedulerReadRedis, queueVars, Sched
<1>6. CASE SchedulerReadDb
  <2>1. PICK ids \in SUBSET Jobs :
          sched' = [sched EXCEPT !.pc = "next", !.due = {}, !.todo = @ \cup ids]
    BY <1>6 DEF SchedulerReadDb, Batches, Sched
  <2> QED BY <1>a, <1>6, <2>1 DEF SchedulerReadDb, queueVars, Sched
<1>7. ASSUME NEW j \in Jobs, Promote(j) PROVE TypeOK'
  <2>1. PromoteSet(db[j]) \in Row
    BY StatementRows
  <2>2. db' \in [Jobs -> Row]
    BY <1>7, <2>1 DEF Promote
  <2>3. sched' \in Sched
    <3>1. PICK pc \in {"promoted", "drop"} :
            sched' = [sched EXCEPT !.pc = pc, !.todo = @ \ {j}, !.job = j]
      BY <1>7 DEF Promote
    <3> QED BY <3>1 DEF Sched
  <2> QED BY <1>a, <1>7, <2>2, <2>3 DEF Promote, queueVars
<1>8. ASSUME NEW j \in Jobs, SchedulerDrop(j) PROVE TypeOK'
  BY <1>a, <1>8 DEF SchedulerDrop, remove_scheduled, Sched
<1>9. ASSUME NEW j \in Jobs, SchedulerMove(j) PROVE TypeOK'
  BY <1>a, <1>9 DEF SchedulerMove, remove_scheduled, Sched
<1>10. ASSUME NEW j \in Jobs, SchedulerEnqueue(j) PROVE TypeOK'
  BY <1>a, <1>10 DEF SchedulerEnqueue, enqueue, Sched
<1> QED
  BY <1>1, <1>2, <1>3, <1>4, <1>5, <1>6, <1>7, <1>8, <1>9, <1>10
     DEF Feeder, Reaper, Scheduler, FeederStep, ReaperStep, SchedulerStep

(* The passing of time keeps the types.                                    *)
LEMMA TickType ==
  ASSUME TypeOK, NEW j \in Jobs, Tick(j) \/ WorkerStall(j)
  PROVE  TypeOK'
<1> USE DEF TypeOK
<1>a. faults' \in 0..MaxFaults
  BY FaultsAssumption DEF Tick, WorkerStall, Fault
<1>b. ASSUME NEW row \in Row, Elapse(j, row)
      PROVE  TypeOK'
  BY <1>a, <1>b DEF Elapse, queueVars, workerVars, maintenanceVars, apiVars
<1>c. db[j] \in Row
  OBVIOUS
<1> HIDE DEF TypeOK
<1>1. CASE ScheduleDue(j)
  <2> DEFINE row == [db[j] EXCEPT !.scheduled_at = "past",
                                  !.next_run_at = IF @ = "future" THEN "past" ELSE @]
  <2>1. row \in Row
    BY <1>c, StampRows
  <2>2. Elapse(j, row)
    BY <1>1 DEF ScheduleDue
  <2> HIDE DEF row
  <2> QED BY <1>b, <2>1, <2>2
<1>2. CASE BackoffOver(j)
  BY <1>2, <1>b, <1>c, StampRows DEF BackoffOver
<1>3. CASE LeaseOver(j)
  BY <1>3, <1>b, <1>c, StampRows DEF LeaseOver
<1> QED BY <1>1, <1>2, <1>3 DEF Tick, WorkerStall, LeaseExpires, Stall

(* The other failures keep the types.                                      *)
LEMMA FailureType ==
  ASSUME TypeOK, Failures
  PROVE  TypeOK'
<1> USE DEF TypeOK
<1>a. faults' \in 0..MaxFaults
  BY FaultsAssumption
     DEF Failures, WorkerCrash, WorkerStop, WorkerStall, RequestFails, RedisRestart,
         MaintenanceFails, Fault
<1>1. ASSUME NEW w \in Workers, WorkerCrash(w) PROVE TypeOK'
  BY <1>a, <1>1, NewRows
     DEF WorkerCrash, Crash, IdleTask, IdleBeat, Task, Beat, queueVars, maintenanceVars, apiVars
<1>2. ASSUME NEW w \in Workers, WorkerStop(w) PROVE TypeOK'
  BY <1>a, <1>2 DEF WorkerStop, Stop, queueVars, maintenanceVars, apiVars
<1>3. ASSUME NEW j \in Jobs, WorkerStall(j) PROVE TypeOK'
  BY <1>3, TickType
<1>4. ASSUME NEW r \in Requests, RequestFails(r) PROVE TypeOK'
  BY <1>a, <1>4, NewRows
     DEF RequestFails, Drop, Answer, IdleReq, Req, queueVars, workerVars, maintenanceVars
<1>5. CASE RedisRestart
  BY <1>a, <1>5 DEF RedisRestart, RedisRestarted, workerVars, maintenanceVars, apiVars
<1>6. CASE MaintenanceFails
  BY <1>a, <1>6
     DEF MaintenanceFails, MaintenanceRestart, IdleSched, Sched, queueVars, workerVars, apiVars
<1> QED BY <1>1, <1>2, <1>3, <1>4, <1>5, <1>6 DEF Failures

(* Every step keeps the types.                                             *)
LEMMA NextType ==
  ASSUME TypeOK, [Next]_vars
  PROVE  TypeOK'
<1>1. CASE UNCHANGED vars
  BY <1>1 DEF vars, TypeOK, queueVars, workerVars, maintenanceVars, apiVars
<1>2. CASE Next
  BY <1>2, RequestType, WorkerType, HeartbeatType, MaintenanceType, TickType, FailureType
     DEF Next
<1> QED BY <1>1, <1>2

(* In every reachable state every variable has its type, for any number of *)
(* jobs, workers and requests and whatever fails.                          *)
THEOREM TypeCorrect == Spec => []TypeOK
<1>1. Init => TypeOK
  BY InitType
<1>2. TypeOK /\ [Next]_vars => TypeOK'
  BY NextType
<1> QED BY <1>1, <1>2, PTL DEF Spec

(***************************************************************************)
(* Ownership.  ProcessingOwned and AttemptUnique are made inductive by     *)
(* what the objects in memory say: a running worker's Job is processing    *)
(* and of no later attempt than the table, and a request about to commit   *)
(* has loaded a status it is going to change.  That is why its commit      *)
(* always writes the status column, whatever the row has become meanwhile. *)
(* And a job that does not exist has no attempts.                          *)
(***************************************************************************)

RunningLoaded ==
  \A w \in Workers : task[w].pc = "running" =>
    /\ task[w].row.status = "processing"
    /\ task[w].row.attempt_count <= db[task[w].job].attempt_count
    /\ Exists(task[w].job)

AbsentBlank == \A j \in Jobs : Exists(j) \/ db[j] = NoRow

RequestLoaded ==
  \A r \in Requests :
    /\ req[r].pc = "cancel" => Cancellable(req[r].row)
    /\ req[r].pc = "retry" => Retryable(req[r].row)

Ownership == ProcessingOwned /\ AttemptUnique /\ RunningLoaded /\ AbsentBlank

OwnershipInv == TypeOK /\ Ownership /\ RequestLoaded

(* A step that starts nothing: no attempt is counted, no job becomes       *)
(* processing or changes hands, no worker begins to run, and a worker      *)
(* stops running only by moving its job out of processing or by dying.     *)
StartsNothing ==
  /\ \A j \in Jobs :
       /\ db'[j].attempt_count = db[j].attempt_count
       /\ db'[j].status = "processing" =>
            /\ db[j].status = "processing"
            /\ db'[j].worker_id = db[j].worker_id
            /\ db'[j].leased_until # "null"
       /\ db'[j].status = "absent" => db'[j] = db[j]
  /\ \A w \in Workers :
       /\ task'[w].pc = "running" => task'[w] = task[w]
       /\ task[w].pc = "running" => \/ task'[w] = task[w]
                                    \/ db'[task[w].job].status # "processing"
                                    \/ proc'[w] = "dead"
       /\ proc[w] = "dead" => proc'[w] = "dead"

(* Such a step keeps Ownership.                                            *)
LEMMA StartsNothingKeeps ==
  ASSUME TypeOK, Ownership, StartsNothing
  PROVE  Ownership'
<1> USE DEF Ownership
<1>1. ProcessingOwned'
  <2> SUFFICES ASSUME NEW j \in Jobs, db'[j].status = "processing"
               PROVE  /\ db'[j].leased_until # "null"
                      /\ \E w \in Workers :
                           /\ db'[j].worker_id = w
                           /\ \/ /\ task'[w].pc = "running" /\ task'[w].job = j
                                 /\ task'[w].row.attempt_count = db'[j].attempt_count
                              \/ proc'[w] = "dead"
    BY DEF ProcessingOwned, Runs
  <2>1. /\ db[j].status = "processing"
        /\ db'[j].worker_id = db[j].worker_id
        /\ db'[j].leased_until # "null"
        /\ db'[j].attempt_count = db[j].attempt_count
    BY DEF StartsNothing
  <2>2. PICK w \in Workers :
          /\ db[j].worker_id = w
          /\ \/ /\ task[w].pc = "running" /\ task[w].job = j
                /\ task[w].row.attempt_count = db[j].attempt_count
             \/ proc[w] = "dead"
    BY <2>1 DEF ProcessingOwned, Runs
  <2>3. \/ /\ task'[w].pc = "running" /\ task'[w].job = j
           /\ task'[w].row.attempt_count = db'[j].attempt_count
        \/ proc'[w] = "dead"
    BY <2>1, <2>2 DEF StartsNothing
  <2> QED BY <2>1, <2>2, <2>3
<1>2. AttemptUnique'
  BY DEF AttemptUnique, Runs, StartsNothing
<1>3. RunningLoaded'
  BY DEF RunningLoaded, Exists, StartsNothing, TypeOK
<1>4. AbsentBlank'
  BY DEF AbsentBlank, Exists, StartsNothing
<1> QED BY <1>1, <1>2, <1>3, <1>4

(* Initially no job is processing and nobody runs or has loaded anything.  *)
LEMMA InitOwnership == Init => Ownership /\ RequestLoaded
BY DEF Init, WorkerInit, ApiInit, IdleTask, IdleReq, NoRow, Ownership, ProcessingOwned,
       AttemptUnique, RunningLoaded, AbsentBlank, RequestLoaded, Runs

(* The claim starts the attempt after the one the table had counted.       *)
LEMMA ClaimOwnership ==
  ASSUME OwnershipInv, NEW w \in Workers, Claim(w)
  PROVE  Ownership'
<1> DEFINE j == task[w].job
           n == db[j].attempt_count + 1
<1>1. /\ j \in Jobs
      /\ db[j] \in Row
      /\ task[w].pc = "popped"
      /\ db' = [db EXCEPT ![j] = ClaimSet(db[j], w)]
      /\ task' = [task EXCEPT ![w].pc = "running", ![w].row = ClaimSet(db[j], w)]
      /\ UNCHANGED proc
  BY DEF Claim, OwnershipInv, TypeOK
<1>2. /\ db'[j].status = "processing" /\ db'[j].worker_id = w
      /\ db'[j].leased_until = "future" /\ db'[j].attempt_count = n
      /\ \A i \in Jobs : i # j => db'[i] = db[i]
  BY <1>1 DEF OwnershipInv, TypeOK, ClaimSet, Row
<1>3. /\ task'[w].pc = "running" /\ task'[w].job = j
      /\ task'[w].row.status = "processing" /\ task'[w].row.attempt_count = n
      /\ \A v \in Workers : v # w => task'[v] = task[v]
  BY <1>1 DEF OwnershipInv, TypeOK, ClaimSet, Row, Task
<1>4. \A v \in Workers : task[v].pc = "running" =>
        /\ task[v].row.status = "processing"
        /\ task[v].job \in Jobs
        /\ task[v].row.attempt_count \in Nat
        /\ task[v].row.attempt_count <= db[task[v].job].attempt_count
        /\ db[task[v].job].status # "absent"
  BY DEF OwnershipInv, Ownership, RunningLoaded, Exists, TypeOK, Task, Row
<1>5. n \in Nat /\ db[j].attempt_count \in Nat /\ n = db[j].attempt_count + 1
  BY <1>1 DEF Row
<1> HIDE DEF j, n
<1>6. ProcessingOwned'
  <2> SUFFICES ASSUME NEW i \in Jobs, db'[i].status = "processing"
               PROVE  /\ db'[i].leased_until # "null"
                      /\ \E v \in Workers :
                           /\ db'[i].worker_id = v
                           /\ \/ /\ task'[v].pc = "running" /\ task'[v].job = i
                                 /\ task'[v].row.attempt_count = db'[i].attempt_count
                              \/ proc'[v] = "dead"
    BY DEF ProcessingOwned, Runs
  <2>1. CASE i = j
    BY <1>2, <1>3, <2>1
  <2>2. CASE i # j
    <3>1. db'[i] = db[i]
      BY <1>2, <2>2
    <3>2. PICK v \in Workers :
            /\ db[i].worker_id = v
            /\ \/ /\ task[v].pc = "running" /\ task[v].job = i
                  /\ task[v].row.attempt_count = db[i].attempt_count
               \/ proc[v] = "dead"
      BY <3>1 DEF ProcessingOwned, Runs, OwnershipInv, Ownership
    <3>3. db[i].leased_until # "null"
      BY <3>1 DEF ProcessingOwned, OwnershipInv, Ownership
    <3>4. task[v].pc = "running" => task'[v] = task[v]
      BY <1>1, <1>3
    <3>5. proc'[v] = proc[v]
      BY <1>1
    <3> QED BY <3>1, <3>2, <3>3, <3>4, <3>5
  <2> QED BY <2>1, <2>2
<1>7. AttemptUnique'
  <2> SUFFICES ASSUME NEW i \in Jobs, NEW u \in Workers, NEW v \in Workers,
                      task'[u].pc = "running", task'[u].job = i,
                      task'[v].pc = "running", task'[v].job = i,
                      task'[u].row.attempt_count = task'[v].row.attempt_count
               PROVE  u = v
    BY DEF AttemptUnique, Runs
  <2>1. ASSUME NEW x \in Workers, x # w, task'[x].pc = "running", task'[x].job = j
        PROVE  task'[x].row.attempt_count # n
    <3>1. task'[x] = task[x]
      BY <1>3, <2>1
    <3>2. task[x].row.attempt_count \in Nat /\ task[x].row.attempt_count <= db[j].attempt_count
      BY <1>4, <2>1, <3>1
    <3> QED BY <1>5, <3>1, <3>2
  <2>2. CASE u # w /\ v # w
    BY <1>3, <2>2 DEF AttemptUnique, Runs, OwnershipInv, Ownership
  <2>3. CASE u = w \/ v = w
    BY <1>3, <2>1, <2>3
  <2> QED BY <2>2, <2>3
<1>8. RunningLoaded'
  <2> SUFFICES ASSUME NEW v \in Workers, task'[v].pc = "running"
               PROVE  /\ task'[v].row.status = "processing"
                      /\ task'[v].row.attempt_count <= db'[task'[v].job].attempt_count
                      /\ db'[task'[v].job].status # "absent"
    BY DEF RunningLoaded, Exists
  <2>1. CASE v = w
    BY <1>2, <1>3, <1>5, <2>1
  <2>2. CASE v # w
    <3>1. task'[v] = task[v]
      BY <1>3, <2>2
    <3>2. /\ task[v].job \in Jobs
          /\ task[v].row.status = "processing"
          /\ task[v].row.attempt_count \in Nat
          /\ task[v].row.attempt_count <= db[task[v].job].attempt_count
          /\ db[task[v].job].status # "absent"
      BY <1>4, <3>1
    <3>3. CASE task[v].job = j
      BY <1>2, <1>5, <3>1, <3>2, <3>3
    <3>4. CASE task[v].job # j
      BY <1>2, <3>1, <3>2, <3>4
    <3> QED BY <3>3, <3>4
  <2> QED BY <2>1, <2>2
<1>9. AbsentBlank'
  BY <1>1, <1>2 DEF AbsentBlank, Exists, OwnershipInv, Ownership
<1> QED BY <1>6, <1>7, <1>8, <1>9 DEF Ownership

(* A write to one row that neither counts an attempt nor makes the job     *)
(* processing nor takes its lease away starts nothing.                     *)
LEMMA RowWrite ==
  ASSUME TypeOK, UNCHANGED <<task, proc>>, NEW j \in Jobs, NEW row,
         db' = [db EXCEPT ![j] = row],
         row.attempt_count = db[j].attempt_count,
         row.status = "processing" => /\ db[j].status = "processing"
                                      /\ row.worker_id = db[j].worker_id
                                      /\ row.leased_until # "null",
         row.status # "absent"
  PROVE  Ownership => StartsNothing
<1> SUFFICES ASSUME Ownership PROVE StartsNothing
  OBVIOUS
<1>1. \A i \in Jobs : db[i].status = "processing" => db[i].leased_until # "null"
  BY DEF Ownership, ProcessingOwned
<1>2. db'[j] = row /\ \A i \in Jobs : i # j => db'[i] = db[i]
  BY DEF TypeOK
<1>3. \A i \in Jobs :
        /\ db'[i].attempt_count = db[i].attempt_count
        /\ db'[i].status = "processing" => /\ db[i].status = "processing"
                                           /\ db'[i].worker_id = db[i].worker_id
                                           /\ db'[i].leased_until # "null"
        /\ db'[i].status = "absent" => db'[i] = db[i]
  BY <1>1, <1>2
<1> QED BY <1>3 DEF StartsNothing

(* A step that leaves the table alone, starts no run and ends none but by  *)
(* death starts nothing.                                                   *)
LEMMA TableUntouched ==
  ASSUME TypeOK, Ownership, UNCHANGED db,
         \A w \in Workers :
           /\ task'[w].pc = "running" => task'[w] = task[w]
           /\ task[w].pc = "running" => task'[w] = task[w] \/ proc'[w] = "dead"
           /\ proc[w] = "dead" => proc'[w] = "dead"
  PROVE  StartsNothing
BY DEF StartsNothing, Ownership, ProcessingOwned

(* What the commit of a loaded object leaves of a row: the attempt count   *)
(* is never written, the status always is.                                 *)
LEMMA ObjectWrites ==
  ASSUME NEW row \in Row, NEW mem \in Row
  PROVE  /\ Complete(row, mem).attempt_count = row.attempt_count
         /\ RetryLater(row, mem).attempt_count = row.attempt_count
         /\ FailPermanently(row, mem).attempt_count = row.attempt_count
         /\ Cancel(row, mem).attempt_count = row.attempt_count
         /\ \A at : ManualRetry(row, mem, at).attempt_count = row.attempt_count
         /\ mem.status # "completed" => Complete(row, mem).status = "completed"
         /\ mem.status # "pending" => RetryLater(row, mem).status = "pending"
         /\ mem.status # "failed" => FailPermanently(row, mem).status = "failed"
         /\ mem.status # "cancelled" => Cancel(row, mem).status = "cancelled"
         /\ mem.status # "pending" => \A at : ManualRetry(row, mem, at).status = "pending"
<1>1. /\ Complete(row, mem).attempt_count = row.attempt_count
      /\ mem.status # "completed" => Complete(row, mem).status = "completed"
  BY DEF Complete, Flush, Written, Row
<1>2. /\ RetryLater(row, mem).attempt_count = row.attempt_count
      /\ mem.status # "pending" => RetryLater(row, mem).status = "pending"
  BY DEF RetryLater, Flush, Written, Row
<1>3. /\ FailPermanently(row, mem).attempt_count = row.attempt_count
      /\ mem.status # "failed" => FailPermanently(row, mem).status = "failed"
  BY DEF FailPermanently, Flush, Written, Row
<1>4. /\ Cancel(row, mem).attempt_count = row.attempt_count
      /\ mem.status # "cancelled" => Cancel(row, mem).status = "cancelled"
  BY DEF Cancel, Flush, Written, Row
<1>5. ASSUME NEW at
      PROVE  /\ ManualRetry(row, mem, at).attempt_count = row.attempt_count
             /\ mem.status # "pending" => ManualRetry(row, mem, at).status = "pending"
  BY DEF ManualRetry, Flush, Written, Row
<1> QED BY <1>1, <1>2, <1>3, <1>4, <1>5

(* A progress report changes no other column.                              *)
LEMMA ProgressWrites ==
  ASSUME NEW row \in Row, NEW mem \in Row, NEW pct
  PROVE  /\ ReportProgress(row, mem, pct).attempt_count = row.attempt_count
         /\ ReportProgress(row, mem, pct).max_attempts = row.max_attempts
         /\ ReportProgress(row, mem, pct).status = row.status
         /\ ReportProgress(row, mem, pct).scheduled_at = row.scheduled_at
         /\ ReportProgress(row, mem, pct).next_run_at = row.next_run_at
         /\ ReportProgress(row, mem, pct).worker_id = row.worker_id
         /\ ReportProgress(row, mem, pct).leased_until = row.leased_until
BY DEF ReportProgress, Flush, Written, Row

(* A step of an API request keeps Ownership and what requests have loaded. *)
LEMMA RequestOwnership ==
  ASSUME OwnershipInv, NEW r \in Requests, Request(r)
  PROVE  Ownership' /\ RequestLoaded'
<1> USE DEF OwnershipInv
<1>0. PICK j \in Jobs :
        \/ Submit(r, j) \/ SubmitScheduled(r, j) \/ SubmitEnqueue(r, j)
        \/ SubmitSchedule(r, j) \/ CancelRead(r, j) \/ CancelCommit(r, j)
        \/ CancelZremPending(r, j) \/ CancelZremScheduled(r, j)
        \/ RetryRead(r, j) \/ RetryCommit(r, j) \/ RetryLrem(r, j)
  BY DEF Request, ApiStep
<1>a. UNCHANGED <<task, proc>>
  BY DEF Request, workerVars
<1>b. db[j] \in Row /\ req[r].row \in Row
  BY DEF TypeOK, Req
<1>c. ASSUME UNCHANGED db PROVE Ownership'
  BY <1>a, <1>c, TableUntouched, StartsNothingKeeps
<1>d. ASSUME NEW row, db' = [db EXCEPT ![j] = row],
             row.attempt_count = db[j].attempt_count,
             row.status # "processing", row.status # "absent"
      PROVE  Ownership'
  BY <1>a, <1>d, RowWrite, StartsNothingKeeps
<1>e. ASSUME NEW q, req' = [req EXCEPT ![r] = q],
             q.pc = "cancel" => Cancellable(q.row), q.pc = "retry" => Retryable(q.row)
      PROVE  RequestLoaded'
  BY <1>e DEF RequestLoaded, TypeOK
<1>f. ASSUME NEW pc, Goto(r, pc), pc \notin {"cancel", "retry"}
      PROVE  RequestLoaded'
  <2>1. req' = [req EXCEPT ![r] = [req[r] EXCEPT !.pc = pc, !.row = NoRow]]
    BY <1>f DEF Goto
  <2>2. [req[r] EXCEPT !.pc = pc, !.row = NoRow].pc = pc
    BY DEF TypeOK, Req
  <2> QED BY <1>e, <1>f, <2>1, <2>2
<1>g. ASSUME Answer(r) PROVE RequestLoaded'
  BY <1>e, <1>g DEF Answer, IdleReq
<1>h. ASSUME NEW at, ~ Exists(j)
      PROVE  /\ NewRow(at).attempt_count = db[j].attempt_count
             /\ NewRow(at).status \in {"pending", "scheduled"}
  <2>1. db[j] = NoRow
    BY <1>h DEF Ownership, AbsentBlank
  <2> QED BY <2>1 DEF NewRow, NoRow
<1>1. CASE Submit(r, j)
  BY <1>1, <1>d, <1>e, <1>h DEF Submit
<1>2. CASE SubmitScheduled(r, j)
  BY <1>2, <1>d, <1>e, <1>h DEF SubmitScheduled
<1>3. CASE SubmitEnqueue(r, j) \/ SubmitSchedule(r, j) \/ CancelZremScheduled(r, j) \/ RetryLrem(r, j)
  BY <1>3, <1>c, <1>g DEF SubmitEnqueue, SubmitSchedule, CancelZremScheduled, RetryLrem
<1>4. CASE CancelRead(r, j)
  BY <1>4, <1>c, <1>e DEF CancelRead, Begin
<1>5. CASE CancelCommit(r, j)
  <2>1. Cancellable(req[r].row)
    BY <1>5 DEF CancelCommit, At, RequestLoaded
  <2>2. /\ Cancel(db[j], req[r].row).attempt_count = db[j].attempt_count
        /\ Cancel(db[j], req[r].row).status = "cancelled"
    BY <1>b, <2>1, ObjectWrites DEF Cancellable
  <2> QED BY <1>5, <1>d, <1>f, <2>2 DEF CancelCommit
<1>6. CASE CancelZremPending(r, j)
  BY <1>6, <1>c, <1>f DEF CancelZremPending
<1>7. CASE RetryRead(r, j)
  BY <1>7, <1>c, <1>e DEF RetryRead, Begin
<1>8. CASE RetryCommit(r, j)
  <2>1. Retryable(req[r].row)
    BY <1>8 DEF RetryCommit, At, RequestLoaded
  <2>2. PICK at \in AppNow : db' = [db EXCEPT ![j] = ManualRetry(@, req[r].row, at)]
    BY <1>8 DEF RetryCommit
  <2>3. /\ ManualRetry(db[j], req[r].row, at).attempt_count = db[j].attempt_count
        /\ ManualRetry(db[j], req[r].row, at).status = "pending"
    BY <1>b, <2>1, ObjectWrites DEF Retryable
  <2> QED BY <1>8, <1>d, <1>f, <2>2, <2>3 DEF RetryCommit
<1> QED BY <1>0, <1>1, <1>2, <1>3, <1>4, <1>5, <1>6, <1>7, <1>8

(* A step of a worker's executor loop keeps Ownership.                     *)
LEMMA WorkerOwnership ==
  ASSUME OwnershipInv, NEW w \in Workers, Worker(w)
  PROVE  Ownership'
<1> USE DEF OwnershipInv
<1>a. ASSUME UNCHANGED <<db, proc>>, NEW t, task' = [task EXCEPT ![w] = t],
             task[w].pc # "running", t.pc # "running"
      PROVE  Ownership'
  <2>1. \A v \in Workers : /\ task'[v].pc = "running" => task'[v] = task[v]
                           /\ task[v].pc = "running" => task'[v] = task[v]
    BY <1>a DEF TypeOK
  <2> QED BY <1>a, <2>1, TableUntouched, StartsNothingKeeps
<1>b. ASSUME NEW row, NEW pc, Finalize(w, row, pc), task[w].pc = "running",
             pc # "running",
             row.attempt_count = db[task[w].job].attempt_count,
             row.status \notin {"processing", "absent"}
      PROVE  Ownership'
  <2> DEFINE j == task[w].job
  <2>1. j \in Jobs
    BY <1>b DEF TypeOK
  <2>2. db'[j] = row /\ \A i \in Jobs : i # j => db'[i] = db[i]
    BY <1>b, <2>1 DEF Finalize, TypeOK
  <2>3. /\ task'[w].pc = pc
        /\ \A v \in Workers : v # w => task'[v] = task[v]
        /\ UNCHANGED proc
    BY <1>b DEF Finalize, TypeOK, Task
  <2>4. \A i \in Jobs : db[i].status = "processing" => db[i].leased_until # "null"
    BY DEF Ownership, ProcessingOwned
  <2>5. \A i \in Jobs :
          /\ db'[i].attempt_count = db[i].attempt_count
          /\ db'[i].status = "processing" => /\ db[i].status = "processing"
                                             /\ db'[i].worker_id = db[i].worker_id
                                             /\ db'[i].leased_until # "null"
          /\ db'[i].status = "absent" => db'[i] = db[i]
    BY <1>b, <2>2, <2>4
  <2>6. \A v \in Workers :
          /\ task'[v].pc = "running" => task'[v] = task[v]
          /\ task[v].pc = "running" => task'[v] = task[v] \/ db'[task[v].job].status # "processing"
          /\ proc[v] = "dead" => proc'[v] = "dead"
    BY <1>b, <2>2, <2>3
  <2>7. StartsNothing
    BY <2>5, <2>6 DEF StartsNothing
  <2> QED BY <2>7, StartsNothingKeeps
<1>c. task[w].pc = "running" =>
        /\ task[w].job \in Jobs
        /\ db[task[w].job] \in Row
        /\ Memory(w) \in Row
        /\ Memory(w).status = "processing"
  BY MemoryRow DEF TypeOK, Ownership, RunningLoaded
<1>d. IdleTask.pc # "running"
  BY DEF IdleTask
<1>1. ASSUME NEW j \in Jobs, Dequeue(w, j) PROVE Ownership'
  <2> DEFINE t == [pc |-> "popped", job |-> j, row |-> NoRow]
  <2>1. t.pc # "running"
    OBVIOUS
  <2>2. UNCHANGED <<db, proc>> /\ task' = [task EXCEPT ![w] = t] /\ task[w].pc # "running"
    BY <1>1 DEF Dequeue
  <2> HIDE DEF t
  <2> QED BY <1>a, <2>1, <2>2
<1>2. CASE Claim(w)
  BY <1>2, ClaimOwnership
<1>3. CASE ClaimSkipped(w)
  <2>1. /\ UNCHANGED <<db, proc>>
        /\ task' = [task EXCEPT ![w] = IdleTask]
        /\ task[w].pc = "popped"
    BY <1>3 DEF ClaimSkipped
  <2> QED BY <1>a, <1>d, <2>1
<1>4. CASE FinishCompleted(w)
  <2>1. /\ Complete(db[task[w].job], Memory(w)).attempt_count = db[task[w].job].attempt_count
        /\ Complete(db[task[w].job], Memory(w)).status = "completed"
    BY <1>4, <1>c, ObjectWrites DEF FinishCompleted
  <2> QED BY <1>4, <1>b, <2>1 DEF FinishCompleted
<1>5. CASE FinishRetry(w)
  <2>1. /\ RetryLater(db[task[w].job], Memory(w)).attempt_count = db[task[w].job].attempt_count
        /\ RetryLater(db[task[w].job], Memory(w)).status = "pending"
    BY <1>5, <1>c, ObjectWrites DEF FinishRetry
  <2> QED BY <1>5, <1>b, <2>1 DEF FinishRetry
<1>6. CASE FinishFailed(w)
  <2>1. /\ FailPermanently(db[task[w].job], Memory(w)).attempt_count = db[task[w].job].attempt_count
        /\ FailPermanently(db[task[w].job], Memory(w)).status = "failed"
    BY <1>6, <1>c, ObjectWrites DEF FinishFailed
  <2> QED BY <1>6, <1>b, <2>1 DEF FinishFailed
<1>7. CASE DeadLetter(w)
  <2>1. task' = [task EXCEPT ![w] = [task[w] EXCEPT !.pc = "release"]]
    BY <1>7 DEF DeadLetter
  <2>2. [task[w] EXCEPT !.pc = "release"].pc = "release"
    BY DEF TypeOK, Task
  <2> QED BY <1>7, <1>a, <2>1, <2>2 DEF DeadLetter
<1>8. CASE Release(w)
  <2>1. /\ UNCHANGED <<db, proc>>
        /\ task' = [task EXCEPT ![w] = IdleTask]
        /\ task[w].pc = "release"
    BY <1>8 DEF Release
  <2> QED BY <1>a, <1>d, <2>1
<1>9. CASE Exit(w)
  <2>1. /\ UNCHANGED <<db, task>>
        /\ \A v \in Workers : proc[v] = "dead" => proc'[v] = "dead"
    BY <1>9 DEF Exit, TypeOK
  <2> QED BY <2>1, TableUntouched, StartsNothingKeeps
<1>10. CASE Report(w)
  <2> DEFINE j == task[w].job
             row == ReportProgress(db[j], Memory(w), Percent(reports[w] + 1))
  <2>1. j \in Jobs /\ db' = [db EXCEPT ![j] = row] /\ UNCHANGED <<task, proc>>
    BY <1>10, <1>c DEF Report
  <2>2. /\ row.attempt_count = db[j].attempt_count
        /\ row.status = db[j].status
        /\ row.worker_id = db[j].worker_id
        /\ row.leased_until = db[j].leased_until
    BY <1>10, <1>c, ProgressWrites, MemoryRow DEF Report
  <2>3. db[j].status = "processing" => row.leased_until # "null"
    BY <2>1, <2>2 DEF Ownership, ProcessingOwned
  <2>4. db[j].status # "absent"
    BY <1>10, <2>1 DEF Report, Ownership, RunningLoaded, Exists
  <2> HIDE DEF row, j
  <2> QED BY <2>1, <2>2, <2>3, <2>4, RowWrite, StartsNothingKeeps
<1> QED
  BY <1>1, <1>2, <1>3, <1>4, <1>5, <1>6, <1>7, <1>8, <1>9, <1>10 DEF Worker, ExecutorStep

(* A step of a heartbeat loop keeps Ownership.                             *)
LEMMA HeartbeatOwnership ==
  ASSUME OwnershipInv, NEW w \in Workers, Heartbeat(w)
  PROVE  Ownership'
<1> USE DEF OwnershipInv
<1>a. UNCHANGED <<task, proc>>
  BY DEF Heartbeat, HeartbeatStep, HeartbeatRead, RenewLease, ClearHolder
<1>1. CASE UNCHANGED db
  BY <1>a, <1>1, TableUntouched, StartsNothingKeeps
<1>2. CASE RenewLease(w) /\ RenewWhere(db[beat[w].job], w)
  <2> DEFINE j == beat[w].job
             row == RenewSet(db[j])
  <2>1. j \in Jobs /\ db' = [db EXCEPT ![j] = row] /\ db[j] \in Row
    BY <1>2 DEF RenewLease, TypeOK
  <2>2. /\ row.attempt_count = db[j].attempt_count
        /\ row.status = "processing" /\ db[j].status = "processing"
        /\ row.worker_id = db[j].worker_id
        /\ row.leased_until = "future"
    BY <1>2, <2>1 DEF RenewSet, RenewWhere, Row
  <2> HIDE DEF row, j
  <2> QED BY <1>a, <2>1, <2>2, RowWrite, StartsNothingKeeps
<1> QED BY <1>1, <1>2 DEF Heartbeat, HeartbeatStep, HeartbeatRead, RenewLease, ClearHolder

(* A step of a maintenance loop keeps Ownership.                           *)
LEMMA MaintenanceOwnership ==
  ASSUME OwnershipInv, Feeder \/ Reaper \/ Scheduler
  PROVE  Ownership'
<1> USE DEF OwnershipInv
<1>a. UNCHANGED <<task, proc>>
  BY DEF Feeder, Reaper, Scheduler, workerVars
<1>1. CASE UNCHANGED db
  BY <1>a, <1>1, TableUntouched, StartsNothingKeeps
<1>2. ASSUME NEW j \in Jobs, NEW row \in {ReapSet(db[j]), PromoteSet(db[j])},
             db' = [db EXCEPT ![j] = row]
      PROVE  Ownership'
  <2>1. row.attempt_count = db[j].attempt_count /\ row.status = "pending"
    BY <1>2 DEF ReapSet, PromoteSet, TypeOK, Row
  <2> QED BY <1>a, <1>2, <2>1, RowWrite, StartsNothingKeeps
<1>3. \/ UNCHANGED db
      \/ \E j \in Jobs : \/ db' = [db EXCEPT ![j] = ReapSet(@)]
                         \/ db' = [db EXCEPT ![j] = PromoteSet(@)]
  BY DEF Feeder, Reaper, Scheduler, FeederStep, ReaperStep, SchedulerStep, FeederSelect,
         FeederEnqueue, ReaperSelect, Reap, SchedulerReadRedis, SchedulerReadDb, Promote,
         SchedulerDrop, SchedulerMove, SchedulerEnqueue
<1> QED BY <1>1, <1>2, <1>3

(* The passing of time, stalls included, keeps Ownership.                  *)
LEMMA TickOwnership ==
  ASSUME OwnershipInv, NEW j \in Jobs, Tick(j) \/ WorkerStall(j)
  PROVE  Ownership'
<1> USE DEF OwnershipInv
<1>a. ASSUME NEW row, Elapse(j, row), row.status # "absent",
             row.attempt_count = db[j].attempt_count, row.status = db[j].status,
             row.worker_id = db[j].worker_id,
             row.leased_until = db[j].leased_until \/ row.leased_until = "past"
      PROVE  Ownership'
  <2>1. db[j].status = "processing" => row.leased_until # "null"
    BY <1>a DEF Ownership, ProcessingOwned
  <2> QED BY <1>a, <2>1, RowWrite, StartsNothingKeeps DEF Elapse, workerVars
<1>b. db[j] \in Row
  BY DEF TypeOK
<1>1. CASE ScheduleDue(j)
  <2>1. db[j].status # "absent"
    BY <1>1 DEF ScheduleDue, Ownership, AbsentBlank, Exists, NoRow
  <2> QED BY <1>1, <1>a, <1>b, <2>1 DEF ScheduleDue, Row
<1>2. CASE BackoffOver(j)
  BY <1>2, <1>a, <1>b DEF BackoffOver, Row
<1>3. CASE LeaseOver(j)
  BY <1>3, <1>a, <1>b DEF LeaseOver, Row
<1> QED BY <1>1, <1>2, <1>3 DEF Tick, WorkerStall, LeaseExpires, Stall

(* The other failures keep it too, and what requests have loaded.          *)
LEMMA FailureOwnership ==
  ASSUME OwnershipInv, Failures
  PROVE  Ownership' /\ RequestLoaded'
<1> USE DEF OwnershipInv
<1>a. ASSUME UNCHANGED <<db, task, proc>> PROVE Ownership'
  BY <1>a, TableUntouched, StartsNothingKeeps
<1>b. ASSUME UNCHANGED req PROVE RequestLoaded'
  BY <1>b DEF RequestLoaded
<1>1. ASSUME NEW w \in Workers, WorkerCrash(w) PROVE Ownership' /\ RequestLoaded'
  <2>1. \A v \in Workers :
          /\ task'[v].pc = "running" => task'[v] = task[v]
          /\ task[v].pc = "running" => task'[v] = task[v] \/ proc'[v] = "dead"
          /\ proc[v] = "dead" => proc'[v] = "dead"
    BY <1>1 DEF WorkerCrash, Crash, IdleTask, TypeOK
  <2>2. UNCHANGED <<db, req>>
    BY <1>1 DEF WorkerCrash, Crash, apiVars
  <2> QED BY <1>b, <2>1, <2>2, TableUntouched, StartsNothingKeeps
<1>2. ASSUME NEW w \in Workers, WorkerStop(w) PROVE Ownership' /\ RequestLoaded'
  <2>1. /\ UNCHANGED <<db, task, req>>
        /\ \A v \in Workers : proc[v] = "dead" => proc'[v] = "dead"
    BY <1>2 DEF WorkerStop, Stop, apiVars, TypeOK
  <2> QED BY <1>b, <2>1, TableUntouched, StartsNothingKeeps
<1>3. ASSUME NEW j \in Jobs, WorkerStall(j) PROVE Ownership' /\ RequestLoaded'
  BY <1>3, <1>b, TickOwnership DEF WorkerStall, Stall, LeaseOver, Elapse, apiVars
<1>4. ASSUME NEW r \in Requests, RequestFails(r) PROVE Ownership' /\ RequestLoaded'
  <2>1. UNCHANGED <<db, task, proc>>
    BY <1>4 DEF RequestFails, Drop, workerVars
  <2>2. RequestLoaded'
    BY <1>4 DEF RequestFails, Drop, Answer, IdleReq, RequestLoaded, TypeOK
  <2> QED BY <1>a, <2>1, <2>2
<1>5. CASE RedisRestart
  BY <1>5, <1>a, <1>b DEF RedisRestart, workerVars, apiVars
<1>6. CASE MaintenanceFails
  BY <1>6, <1>a, <1>b DEF MaintenanceFails, MaintenanceRestart, workerVars, apiVars
<1> QED BY <1>1, <1>2, <1>3, <1>4, <1>5, <1>6 DEF Failures

(* OwnershipInv is inductive.                                              *)
LEMMA OwnershipInductive ==
  ASSUME OwnershipInv, [Next]_vars
  PROVE  OwnershipInv'
<1>0. TypeOK'
  BY NextType DEF OwnershipInv
<1>a. ASSUME UNCHANGED req PROVE RequestLoaded'
  BY <1>a DEF RequestLoaded, OwnershipInv
<1>1. CASE UNCHANGED vars
  <2>1. UNCHANGED <<db, task, proc, req>>
    BY <1>1 DEF vars, workerVars, apiVars
  <2> QED BY <1>0, <1>a, <2>1, TableUntouched, StartsNothingKeeps DEF OwnershipInv
<1>2. ASSUME NEW r \in Requests, Request(r) PROVE OwnershipInv'
  BY <1>0, <1>2, RequestOwnership DEF OwnershipInv
<1>3. ASSUME NEW w \in Workers, Worker(w) PROVE OwnershipInv'
  BY <1>0, <1>a, <1>3, WorkerOwnership DEF OwnershipInv, Worker, Others, apiVars
<1>4. ASSUME NEW w \in Workers, Heartbeat(w) PROVE OwnershipInv'
  BY <1>0, <1>a, <1>4, HeartbeatOwnership DEF OwnershipInv, Heartbeat, Others, apiVars
<1>5. CASE Feeder \/ Reaper \/ Scheduler
  BY <1>0, <1>a, <1>5, MaintenanceOwnership DEF OwnershipInv, Feeder, Reaper, Scheduler, apiVars
<1>6. ASSUME NEW j \in Jobs, Tick(j) PROVE OwnershipInv'
  BY <1>0, <1>a, <1>6, TickOwnership
     DEF OwnershipInv, Tick, ScheduleDue, BackoffOver, LeaseExpires, LeaseOver, Elapse, apiVars
<1>7. CASE Failures
  BY <1>0, <1>7, FailureOwnership DEF OwnershipInv
<1> QED BY <1>1, <1>2, <1>3, <1>4, <1>5, <1>6, <1>7 DEF Next

(* OwnershipInv holds of every reachable state.                            *)
LEMMA OwnershipHolds == Spec => []OwnershipInv
<1>1. Init => OwnershipInv
  BY InitType, InitOwnership DEF OwnershipInv
<1>2. OwnershipInv /\ [Next]_vars => OwnershipInv'
  BY OwnershipInductive
<1> QED BY <1>1, <1>2, PTL DEF Spec

(* Under every interleaving of requests, workers and maintenance loops and *)
(* any number of failures, a processing job has a lease and an owner that  *)
(* executes its current attempt or is dead: the reaper can always get a    *)
(* job back that nobody works on.                                          *)
THEOREM ProcessingIsOwned == Spec => []ProcessingOwned
<1>1. OwnershipInv => ProcessingOwned
  BY DEF OwnershipInv, Ownership
<1> QED BY <1>1, OwnershipHolds, PTL

(* No two workers ever execute the same attempt of a job, not even when a  *)
(* stall or overlapping retries make them execute the same job at once.    *)
THEOREM AttemptsAreUnique == Spec => []AttemptUnique
<1>1. OwnershipInv => AttemptUnique
  BY DEF OwnershipInv, Ownership
<1> QED BY <1>1, OwnershipHolds, PTL
===============================================================================
