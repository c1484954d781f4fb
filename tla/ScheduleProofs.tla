---------------------------- MODULE ScheduleProofs ----------------------------
(***************************************************************************)
(* Two more invariants of JobSystem that hold under every race and every   *)
(* failure: what the lease holder names, and when a scheduled job may run. *)
(***************************************************************************)
EXTENDS JobSystemProofs

-------------------------------------------------------------------------------
(* The lease holder.                                                       *)

Held(w) ==
  holder[w] # NoJob =>
    holder[w] = task[w].job /\ task[w].pc \in {"running", "dead_letter", "release"}

(* HolderNamesTask is inductive given the types: an executor that takes up *)
(* a job has put its last one out of the holder.                           *)
LEMMA HolderInductive ==
  ASSUME TypeOK, HolderNamesTask, [Next]_vars
  PROVE  HolderNamesTask'
<1> SUFFICES ASSUME NEW u \in Workers PROVE Held(u)'
  BY DEF HolderNamesTask, Held
<1>0. Held(u) /\ task[u] \in Task /\ holder[u] \in Jobs \cup {NoJob}
  BY DEF HolderNamesTask, Held, TypeOK
<1>a. CASE UNCHANGED <<task, holder>>
  BY <1>0, <1>a DEF Held
<1>b. ASSUME NEW w \in Workers, w # u, \A v \in Workers : v # w => task'[v] = task[v],
             \A v \in Workers : v # w => holder'[v] = holder[v]
      PROVE  Held(u)'
  BY <1>0, <1>b DEF Held
<1>1. ASSUME NEW w \in Workers, ExecutorStep(w) PROVE Held(u)'
  <2>1. CASE w # u
    <3>1. /\ \A v \in Workers : v # w => task'[v] = task[v]
          /\ \A v \in Workers : v # w => holder'[v] = holder[v]
      BY <1>1 DEF TypeOK, ExecutorStep, Dequeue, Claim, ClaimSkipped, Report, Finalize,
         FinishCompleted, FinishRetry, FinishFailed, DeadLetter, Release, Exit
    <3> QED BY <1>b, <2>1, <3>1
  <2>2. CASE w = u
    <3>1. ASSUME NEW j \in Jobs, Dequeue(u, j) PROVE Held(u)'
      BY <1>0, <3>1 DEF Dequeue, Held
    <3>2. CASE Claim(u)
      <4>1. /\ holder'[u] = task[u].job
            /\ task'[u] = [task[u] EXCEPT !.pc = "running", !.row = ClaimSet(db[task[u].job], u)]
        BY <3>2 DEF Claim, TypeOK
      <4>2. task'[u].pc = "running" /\ task'[u].job = task[u].job
        BY <1>0, <4>1 DEF Task
      <4> QED BY <4>1, <4>2 DEF Held
    <3>3. CASE ClaimSkipped(u)
      BY <1>0, <3>3 DEF ClaimSkipped, Held
    <3>4. ASSUME NEW row, NEW pc \in {"release", "dead_letter"}, Finalize(u, row, pc),
                 task[u].pc = "running"
          PROVE  Held(u)'
      <4>1. holder' = holder /\ task'[u] = [task[u] EXCEPT !.pc = pc, !.row = NoRow]
        BY <3>4 DEF Finalize, TypeOK
      <4>2. task'[u].pc = pc /\ task'[u].job = task[u].job
        BY <1>0, <4>1 DEF Task
      <4> QED BY <1>0, <4>1, <4>2 DEF Held
    <3>5. CASE FinishCompleted(u) \/ FinishRetry(u) \/ FinishFailed(u)
      BY <3>4, <3>5 DEF FinishCompleted, FinishRetry, FinishFailed
    <3>6. CASE DeadLetter(u)
      <4>1. holder' = holder /\ task'[u] = [task[u] EXCEPT !.pc = "release"]
        BY <3>6 DEF DeadLetter, TypeOK
      <4>2. task'[u].pc = "release" /\ task'[u].job = task[u].job
        BY <1>0, <4>1 DEF Task
      <4> QED BY <1>0, <4>1, <4>2 DEF Held
    <3>7. CASE Release(u)
      <4>1. holder'[u] = IF holder[u] = task[u].job THEN NoJob ELSE holder[u]
        BY <3>7 DEF Release, TypeOK
      <4> QED BY <1>0, <4>1 DEF Held
    <3>8. CASE Exit(u) \/ Report(u)
      BY <1>a, <3>8 DEF Exit, Report
    <3> QED BY <1>1, <2>2, <3>1, <3>2, <3>3, <3>5, <3>6, <3>7, <3>8 DEF ExecutorStep
  <2> QED BY <2>1, <2>2
<1>2. ASSUME NEW w \in Workers, HeartbeatStep(w) PROVE Held(u)'
  <2>1. CASE HeartbeatRead(w) \/ RenewLease(w)
    BY <1>a, <2>1 DEF HeartbeatRead, RenewLease
  <2>2. CASE ClearHolder(w)
    <3>1. task' = task /\ (holder'[u] = holder[u] \/ holder'[u] = NoJob)
      BY <2>2 DEF ClearHolder, TypeOK
    <3> QED BY <1>0, <3>1 DEF Held
  <2> QED BY <1>2, <2>1, <2>2 DEF HeartbeatStep
<1>3. ASSUME NEW w \in Workers, WorkerCrash(w) PROVE Held(u)'
  <2>1. /\ \A v \in Workers : v # w => task'[v] = task[v]
        /\ \A v \in Workers : v # w => holder'[v] = holder[v]
        /\ holder'[w] = NoJob
    BY <1>3 DEF WorkerCrash, Crash, TypeOK
  <2> QED BY <1>b, <2>1 DEF Held
<1>4. CASE UNCHANGED vars
  BY <1>4, <1>a DEF vars, workerVars
<1>5. ASSUME NEW j \in Jobs, Tick(j) \/ WorkerStall(j) PROVE Held(u)'
  BY <1>a, <1>5 DEF Tick, WorkerStall, ScheduleDue, BackoffOver, LeaseExpires, Stall, LeaseOver,
                    Elapse, workerVars
<1>6. CASE Failures
  BY <1>a, <1>3, <1>5, <1>6 DEF Failures, WorkerStop, Stop, RequestFails, RedisRestart,
                                MaintenanceFails, workerVars
<1> QED
  BY <1>a, <1>1, <1>2, <1>4, <1>5, <1>6
     DEF Next, Request, Worker, Heartbeat, Feeder, Reaper, Scheduler, workerVars

(* Whatever executor and heartbeat interleave, the holder names the job in *)
(* hand or nothing.                                                        *)
THEOREM HolderIsCurrent == Spec => []HolderNamesTask
<1>1. Init => HolderNamesTask
  BY DEF Init, WorkerInit, HolderNamesTask
<1>2. TypeOK /\ HolderNamesTask /\ [Next]_vars => HolderNamesTask'
  BY HolderInductive
<1> QED BY <1>1, <1>2, TypeCorrect, PTL DEF Spec

-------------------------------------------------------------------------------
(***************************************************************************)
(* Scheduled jobs.  NotBeforeSchedule needs that a manual retry about to   *)
(* commit is for a job whose time has come: it has failed, so it has run.  *)
(***************************************************************************)

RetryDue ==
  \A r \in Requests : \A j \in Jobs :
    At(r, "retry", j) => Exists(j) /\ db[j].scheduled_at # "future"

ScheduleInv == OwnershipInv /\ NotBeforeSchedule /\ RetryDue

(* No commit of a loaded object writes scheduled_at.                       *)
LEMMA ScheduleUnwritten ==
  ASSUME NEW row \in Row, NEW mem \in Row
  PROVE  /\ Complete(row, mem).scheduled_at = row.scheduled_at
         /\ RetryLater(row, mem).scheduled_at = row.scheduled_at
         /\ FailPermanently(row, mem).scheduled_at = row.scheduled_at
         /\ Cancel(row, mem).scheduled_at = row.scheduled_at
         /\ \A at : ManualRetry(row, mem, at).scheduled_at = row.scheduled_at
<1>1. ASSUME NEW at PROVE ManualRetry(row, mem, at).scheduled_at = row.scheduled_at
  BY DEF ManualRetry, Flush
<1> QED BY <1>1 DEF Complete, RetryLater, FailPermanently, Cancel, Flush

(* What a step may do to the row of a job that is held back after it.      *)
HeldBack(j) ==
  db'[j].scheduled_at = "future" =>
    \/ ~ Exists(j) /\ db'[j].status = "scheduled"
    \/ db[j].scheduled_at = "future" /\ db'[j].status \in {db[j].status, "cancelled"}

(* A step that keeps jobs in the table, holds back only new jobs and those *)
(* that were, and starts attempts and retries only of jobs that are due.   *)
LEMMA HeldBackKeeps ==
  ASSUME ScheduleInv,
         \A j \in Jobs : HeldBack(j) /\ (Exists(j) => Exists(j)'),
         \A w \in Workers : \A j \in Jobs :
           Runs(w, j)' => Runs(w, j) \/ (Exists(j) /\ db[j].scheduled_at # "future"),
         \A r \in Requests : \A j \in Jobs :
           At(r, "retry", j)' => At(r, "retry", j) \/ (Exists(j) /\ db[j].scheduled_at # "future")
  PROVE  NotBeforeSchedule' /\ RetryDue'
<1>1. \A w \in Workers : \A j \in Jobs : Runs(w, j) => Exists(j)
  BY DEF ScheduleInv, OwnershipInv, Ownership, RunningLoaded, Runs
<1>2. NotBeforeSchedule'
  <2> SUFFICES ASSUME NEW j \in Jobs, db'[j].scheduled_at = "future"
               PROVE  /\ db'[j].status \in {"scheduled", "cancelled"}
                      /\ \A w \in Workers : ~ Runs(w, j)'
    BY DEF NotBeforeSchedule
  <2>1. CASE ~ Exists(j) /\ db'[j].status = "scheduled"
    BY <1>1, <2>1
  <2>2. CASE db[j].scheduled_at = "future" /\ db'[j].status \in {db[j].status, "cancelled"}
    BY <2>2 DEF ScheduleInv, NotBeforeSchedule
  <2> QED BY <2>1, <2>2 DEF HeldBack
<1>3. RetryDue'
  <2> SUFFICES ASSUME NEW r \in Requests, NEW j \in Jobs, At(r, "retry", j)'
               PROVE  Exists(j)' /\ db'[j].scheduled_at # "future"
    BY DEF RetryDue
  <2>1. Exists(j) /\ db[j].scheduled_at # "future"
    BY DEF ScheduleInv, RetryDue
  <2> QED BY <2>1 DEF HeldBack
<1> QED BY <1>2, <1>3

(* A write to one row by a step that starts nothing.                       *)
LEMMA HeldBackRow ==
  ASSUME ScheduleInv, NEW j \in Jobs, NEW row, db' = [db EXCEPT ![j] = row],
         row.status # "absent",
         row.scheduled_at = "future" =>
           \/ ~ Exists(j) /\ row.status = "scheduled"
           \/ db[j].scheduled_at = "future" /\ row.status \in {db[j].status, "cancelled"}
  PROVE  \A i \in Jobs : HeldBack(i) /\ (Exists(i) => Exists(i)')
<1>1. db'[j] = row /\ \A i \in Jobs : i # j => db'[i] = db[i]
  BY DEF ScheduleInv, OwnershipInv, TypeOK
<1> QED BY <1>1 DEF HeldBack, Exists

(* A step of an API request.                                               *)
LEMMA RequestSchedule ==
  ASSUME ScheduleInv, NEW r \in Requests, Request(r)
  PROVE  NotBeforeSchedule' /\ RetryDue'
<1> USE DEF ScheduleInv
<1>t. TypeOK /\ Ownership /\ RequestLoaded
  BY DEF OwnershipInv
<1>0. PICK j \in Jobs :
        \/ Submit(r, j) \/ SubmitScheduled(r, j) \/ SubmitEnqueue(r, j)
        \/ SubmitSchedule(r, j) \/ CancelRead(r, j) \/ CancelCommit(r, j)
        \/ CancelZremPending(r, j) \/ CancelZremScheduled(r, j)
        \/ RetryRead(r, j) \/ RetryCommit(r, j) \/ RetryLrem(r, j)
  BY DEF Request, ApiStep
<1>a. \A w \in Workers : \A i \in Jobs : Runs(w, i)' => Runs(w, i)
  BY DEF Request, workerVars, Runs
<1>b. db[j] \in Row /\ req[r].row \in Row
  BY <1>t DEF TypeOK, Req
<1>c. UNCHANGED db => \A i \in Jobs : HeldBack(i) /\ (Exists(i) => Exists(i)')
  BY DEF HeldBack, Exists
<1>d. ASSUME NEW q, req' = [req EXCEPT ![r] = q], q.pc # "retry"
      PROVE  \A s \in Requests : \A i \in Jobs : At(s, "retry", i)' => At(s, "retry", i)
  BY <1>d, <1>t DEF At, TypeOK
<1>e. ASSUME NEW pc, Goto(r, pc), pc # "retry"
      PROVE  \A s \in Requests : \A i \in Jobs : At(s, "retry", i)' => At(s, "retry", i)
  <2>1. req' = [req EXCEPT ![r] = [req[r] EXCEPT !.pc = pc, !.row = NoRow]]
    BY <1>e DEF Goto
  <2>2. [req[r] EXCEPT !.pc = pc, !.row = NoRow].pc = pc
    BY <1>t DEF TypeOK, Req
  <2> QED BY <1>d, <1>e, <2>1, <2>2
<1>f. ASSUME Answer(r)
      PROVE  \A s \in Requests : \A i \in Jobs : At(s, "retry", i)' => At(s, "retry", i)
  <2>1. IdleReq.pc # "retry"
    BY DEF IdleReq
  <2> QED BY <1>d, <1>f, <2>1 DEF Answer
<1>1. CASE Submit(r, j) \/ SubmitScheduled(r, j)
  <2>1. PICK at \in {"null", "future"} : ~ Exists(j) /\ db' = [db EXCEPT ![j] = NewRow(at)]
    BY <1>1 DEF Submit, SubmitScheduled
  <2>2. /\ NewRow(at).status = (IF at = "null" THEN "pending" ELSE "scheduled")
        /\ NewRow(at).scheduled_at = at
    BY DEF NewRow, NoRow
  <2>3. \A i \in Jobs : HeldBack(i) /\ (Exists(i) => Exists(i)')
    BY <2>1, <2>2, HeldBackRow
  <2>4. \A s \in Requests : \A i \in Jobs : At(s, "retry", i)' => At(s, "retry", i)
    BY <1>1, <1>d DEF Submit, SubmitScheduled
  <2> QED BY <1>a, <2>3, <2>4, HeldBackKeeps
<1>2. CASE SubmitEnqueue(r, j) \/ SubmitSchedule(r, j) \/ CancelZremScheduled(r, j) \/ RetryLrem(r, j)
  BY <1>2, <1>a, <1>c, <1>f, HeldBackKeeps
     DEF SubmitEnqueue, SubmitSchedule, CancelZremScheduled, RetryLrem
<1>3. CASE CancelRead(r, j)
  <2>1. \A s \in Requests : \A i \in Jobs : At(s, "retry", i)' => At(s, "retry", i)
    <3> DEFINE q == [pc |-> "cancel", job |-> j, row |-> db[j]]
    <3>1. req' = [req EXCEPT ![r] = q] /\ q.pc # "retry"
      BY <1>3 DEF CancelRead, Begin
    <3> HIDE DEF q
    <3> QED BY <1>d, <3>1
  <2> QED BY <1>3, <1>a, <1>c, <2>1, HeldBackKeeps DEF CancelRead
<1>4. CASE CancelCommit(r, j)
  <2>1. Cancellable(req[r].row)
    BY <1>4, <1>t DEF CancelCommit, At, RequestLoaded
  <2>2. /\ Cancel(db[j], req[r].row).status = "cancelled"
        /\ Cancel(db[j], req[r].row).scheduled_at = db[j].scheduled_at
    BY <1>b, <2>1, ObjectWrites, ScheduleUnwritten DEF Cancellable
  <2>3. \A i \in Jobs : HeldBack(i) /\ (Exists(i) => Exists(i)')
    BY <1>4, <2>2, HeldBackRow DEF CancelCommit
  <2> QED BY <1>4, <1>a, <1>e, <2>3, HeldBackKeeps DEF CancelCommit
<1>5. CASE CancelZremPending(r, j)
  BY <1>5, <1>a, <1>c, <1>e, HeldBackKeeps DEF CancelZremPending
<1>6. CASE RetryRead(r, j)
  <2>1. UNCHANGED db /\ db[j].status = "failed" /\ Exists(j) /\ db[j].scheduled_at # "future"
    BY <1>6 DEF RetryRead, Retryable, NotBeforeSchedule, Exists
  <2>2. req'[r].job = j /\ \A s \in Requests : s # r => req'[s] = req[s]
    BY <1>6, <1>t DEF RetryRead, Begin, TypeOK
  <2>3. \A s \in Requests : \A i \in Jobs :
          At(s, "retry", i)' => At(s, "retry", i) \/ (Exists(i) /\ db[i].scheduled_at # "future")
    BY <2>1, <2>2 DEF At
  <2> QED BY <1>a, <1>c, <2>1, <2>3, HeldBackKeeps
<1>7. CASE RetryCommit(r, j)
  <2>1. Retryable(req[r].row)
    BY <1>7, <1>t DEF RetryCommit, At, RequestLoaded
  <2>2. PICK at \in AppNow : db' = [db EXCEPT ![j] = ManualRetry(@, req[r].row, at)]
    BY <1>7 DEF RetryCommit
  <2>3. /\ ManualRetry(db[j], req[r].row, at).status = "pending"
        /\ ManualRetry(db[j], req[r].row, at).scheduled_at = db[j].scheduled_at
    BY <1>b, <2>1, ObjectWrites, ScheduleUnwritten DEF Retryable
  <2>4. db[j].scheduled_at # "future"
    BY <1>7 DEF RetryCommit, RetryDue
  <2>5. \A i \in Jobs : HeldBack(i) /\ (Exists(i) => Exists(i)')
    BY <2>2, <2>3, <2>4, HeldBackRow
  <2> QED BY <1>7, <1>a, <1>e, <2>5, HeldBackKeeps DEF RetryCommit
<1> QED BY <1>0, <1>1, <1>2, <1>3, <1>4, <1>5, <1>6, <1>7

(* A step of a worker's executor loop: the claim takes only pending jobs,  *)
(* and the outcomes are of jobs that run.                                  *)
LEMMA WorkerSchedule ==
  ASSUME ScheduleInv, NEW w \in Workers, Worker(w)
  PROVE  NotBeforeSchedule' /\ RetryDue'
<1> USE DEF ScheduleInv
<1>t. TypeOK /\ Ownership
  BY DEF OwnershipInv
<1>a. \A r \in Requests : \A i \in Jobs : At(r, "retry", i)' => At(r, "retry", i)
  BY DEF Worker, Others, apiVars, At
<1>b. UNCHANGED db => \A i \in Jobs : HeldBack(i) /\ (Exists(i) => Exists(i)')
  BY DEF HeldBack, Exists
<1>c. task[w].pc = "running" =>
        /\ task[w].job \in Jobs
        /\ db[task[w].job] \in Row
        /\ Memory(w) \in Row
        /\ Memory(w).status = "processing"
        /\ Exists(task[w].job)
        /\ db[task[w].job].scheduled_at # "future"
  BY <1>t, MemoryRow DEF TypeOK, Ownership, RunningLoaded, NotBeforeSchedule, Runs
<1>d. ASSUME UNCHANGED db, \A v \in Workers : task'[v] = task[v] \/ task'[v].pc # "running"
      PROVE  NotBeforeSchedule' /\ RetryDue'
  <2>1. \A v \in Workers : \A i \in Jobs : Runs(v, i)' => Runs(v, i)
    BY <1>d DEF Runs
  <2> QED BY <1>a, <1>b, <1>d, <2>1, HeldBackKeeps
<1>e. ASSUME NEW row, NEW pc, Finalize(w, row, pc), task[w].pc = "running", pc # "running",
             row.status # "absent", row.scheduled_at = db[task[w].job].scheduled_at
      PROVE  NotBeforeSchedule' /\ RetryDue'
  <2>1. \A v \in Workers : task'[v] = task[v] \/ task'[v].pc # "running"
    BY <1>e, <1>t DEF Finalize, TypeOK, Task
  <2>2. \A v \in Workers : \A i \in Jobs : Runs(v, i)' => Runs(v, i)
    BY <2>1 DEF Runs
  <2>3. \A i \in Jobs : HeldBack(i) /\ (Exists(i) => Exists(i)')
    BY <1>c, <1>e, HeldBackRow DEF Finalize
  <2> QED BY <1>a, <2>2, <2>3, HeldBackKeeps
<1>1. CASE (\E j \in Jobs : Dequeue(w, j)) \/ ClaimSkipped(w) \/ DeadLetter(w) \/ Release(w) \/ Exit(w)
  <2>1. UNCHANGED db
    BY <1>1 DEF Dequeue, ClaimSkipped, DeadLetter, Release, Exit
  <2>2. \A v \in Workers : task'[v] = task[v] \/ task'[v].pc # "running"
    BY <1>1, <1>t DEF Dequeue, ClaimSkipped, DeadLetter, Release, Exit, IdleTask, TypeOK, Task
  <2> QED BY <1>d, <2>1, <2>2
<1>2. CASE Claim(w)
  <2> DEFINE j == task[w].job
             row == ClaimSet(db[j], w)
  <2>1. /\ j \in Jobs /\ db[j] \in Row /\ db[j].status = "pending"
        /\ db' = [db EXCEPT ![j] = row]
        /\ task' = [task EXCEPT ![w].pc = "running", ![w].row = row]
    BY <1>2, <1>t DEF Claim, ClaimWhere, Ready, TypeOK
  <2>2. db[j].scheduled_at # "future" /\ Exists(j)
    BY <2>1 DEF NotBeforeSchedule, Exists
  <2>3. row.status = "processing" /\ row.scheduled_at = db[j].scheduled_at
    BY <2>1 DEF ClaimSet, Row
  <2>4. task'[w].job = j /\ \A v \in Workers : v # w => task'[v] = task[v]
    BY <1>t, <2>1 DEF TypeOK, Task
  <2> HIDE DEF j, row
  <2>5. \A v \in Workers : \A i \in Jobs :
          Runs(v, i)' => Runs(v, i) \/ (Exists(i) /\ db[i].scheduled_at # "future")
    BY <2>2, <2>4 DEF Runs
  <2>6. \A i \in Jobs : HeldBack(i) /\ (Exists(i) => Exists(i)')
    BY <2>1, <2>2, <2>3, HeldBackRow
  <2> QED BY <1>a, <2>5, <2>6, HeldBackKeeps
<1>3. CASE FinishCompleted(w)
  <2>1. /\ Complete(db[task[w].job], Memory(w)).status = "completed"
        /\ Complete(db[task[w].job], Memory(w)).scheduled_at = db[task[w].job].scheduled_at
    BY <1>3, <1>c, ObjectWrites, ScheduleUnwritten DEF FinishCompleted
  <2> QED BY <1>3, <1>e, <2>1 DEF FinishCompleted
<1>4. CASE FinishRetry(w)
  <2>1. /\ RetryLater(db[task[w].job], Memory(w)).status = "pending"
        /\ RetryLater(db[task[w].job], Memory(w)).scheduled_at = db[task[w].job].scheduled_at
    BY <1>4, <1>c, ObjectWrites, ScheduleUnwritten DEF FinishRetry
  <2> QED BY <1>4, <1>e, <2>1 DEF FinishRetry
<1>5. CASE FinishFailed(w)
  <2>1. /\ FailPermanently(db[task[w].job], Memory(w)).status = "failed"
        /\ FailPermanently(db[task[w].job], Memory(w)).scheduled_at = db[task[w].job].scheduled_at
    BY <1>5, <1>c, ObjectWrites, ScheduleUnwritten DEF FinishFailed
  <2> QED BY <1>5, <1>e, <2>1 DEF FinishFailed
<1>6. CASE Report(w)
  <2> DEFINE j == task[w].job
             row == ReportProgress(db[j], Memory(w), Percent(reports[w] + 1))
  <2>1. /\ j \in Jobs /\ db[j] \in Row /\ db' = [db EXCEPT ![j] = row] /\ UNCHANGED task
        /\ Exists(j) /\ db[j].scheduled_at # "future" /\ Memory(w) \in Row
    BY <1>6, <1>c DEF Report
  <2>2. row.status = db[j].status /\ row.scheduled_at = db[j].scheduled_at
    BY <2>1, ProgressWrites
  <2> HIDE DEF j, row
  <2>3. \A i \in Jobs : HeldBack(i) /\ (Exists(i) => Exists(i)')
    BY <2>1, <2>2, HeldBackRow DEF Exists
  <2>4. \A v \in Workers : \A i \in Jobs : Runs(v, i)' => Runs(v, i)
    BY <2>1 DEF Runs
  <2> QED BY <1>a, <2>3, <2>4, HeldBackKeeps
<1> QED BY <1>1, <1>2, <1>3, <1>4, <1>5, <1>6 DEF Worker, ExecutorStep

(* The other steps: what runs and what requests have loaded stays, or is   *)
(* lost.                                                                   *)
LEMMA OtherSchedule ==
  ASSUME ScheduleInv,
         \/ \E w \in Workers : Heartbeat(w)
         \/ Feeder \/ Reaper \/ Scheduler
         \/ \E j \in Jobs : Tick(j)
         \/ Failures
         \/ UNCHANGED vars
  PROVE  NotBeforeSchedule' /\ RetryDue'
<1> USE DEF ScheduleInv
<1>t. TypeOK /\ Ownership
  BY DEF OwnershipInv
<1>a. \A r \in Requests : \A j \in Jobs : At(r, "retry", j)' => At(r, "retry", j)
  <2>1. UNCHANGED req \/ \E r \in Requests : Answer(r)
    BY DEF Heartbeat, Others, Feeder, Reaper, Scheduler, Tick, ScheduleDue, BackoffOver,
           LeaseExpires, LeaseOver, Elapse, Failures, WorkerCrash, WorkerStop, WorkerStall, Stall,
           RequestFails, Drop, RedisRestart, MaintenanceFails, vars, apiVars
  <2>2. ASSUME NEW r \in Requests, Answer(r)
        PROVE  \A s \in Requests : req'[s] = req[s] \/ req'[s].pc = "idle"
    BY <1>t, <2>2 DEF Answer, IdleReq, TypeOK
  <2> QED BY <2>1, <2>2 DEF At
<1>b. \A w \in Workers : \A j \in Jobs : Runs(w, j)' => Runs(w, j)
  <2>1. UNCHANGED task \/ \E w \in Workers : task' = [task EXCEPT ![w] = IdleTask]
    BY DEF Heartbeat, HeartbeatStep, HeartbeatRead, RenewLease, ClearHolder,
           Feeder, Reaper, Scheduler, Tick, ScheduleDue, BackoffOver,
           LeaseExpires, LeaseOver, Elapse, Failures, WorkerCrash, Crash, WorkerStop, Stop,
           WorkerStall, Stall, RequestFails, RedisRestart, MaintenanceFails, vars, workerVars
  <2>2. ASSUME NEW w \in Workers, task' = [task EXCEPT ![w] = IdleTask]
        PROVE  \A v \in Workers : task'[v] = task[v] \/ task'[v].pc = "idle"
    BY <1>t, <2>2 DEF IdleTask, TypeOK
  <2> QED BY <2>1, <2>2 DEF Runs
<1>c. SUFFICES \A j \in Jobs : HeldBack(j) /\ (Exists(j) => Exists(j)')
  BY <1>a, <1>b, HeldBackKeeps
<1>d. CASE UNCHANGED db
  BY <1>d DEF HeldBack, Exists
<1>e. \A j \in Jobs : db[j] \in Row
  BY <1>t DEF TypeOK
<1>1. ASSUME NEW w \in Workers, Heartbeat(w)
      PROVE  \A j \in Jobs : HeldBack(j) /\ (Exists(j) => Exists(j)')
  <2>1. CASE RenewLease(w) /\ RenewWhere(db[beat[w].job], w)
    <3> DEFINE j == beat[w].job
               row == RenewSet(db[j])
    <3>1. j \in Jobs /\ db' = [db EXCEPT ![j] = row] /\ db[j].status = "processing"
      BY <1>t, <2>1 DEF RenewLease, RenewWhere, TypeOK
    <3>2. row.status = db[j].status /\ row.scheduled_at = db[j].scheduled_at
      BY <1>e, <3>1 DEF RenewSet, Row
    <3> HIDE DEF j, row
    <3> QED BY <3>1, <3>2, HeldBackRow
  <2> QED BY <1>1, <1>d, <2>1 DEF Heartbeat, HeartbeatStep, HeartbeatRead, RenewLease, ClearHolder
<1>2. CASE Feeder \/ Reaper \/ Scheduler
  <2>1. ASSUME NEW j \in Jobs, ReapWhere(db[j]), db' = [db EXCEPT ![j] = ReapSet(@)]
        PROVE  \A i \in Jobs : HeldBack(i) /\ (Exists(i) => Exists(i)')
    <3>1. db[j].scheduled_at # "future"
      BY <2>1 DEF ReapWhere, NotBeforeSchedule
    <3>2. ReapSet(db[j]).status = "pending" /\ ReapSet(db[j]).scheduled_at = db[j].scheduled_at
      BY <1>e DEF ReapSet, Row
    <3> QED BY <2>1, <3>1, <3>2, HeldBackRow
  <2>2. ASSUME NEW j \in Jobs, PromoteWhere(db[j]), db' = [db EXCEPT ![j] = PromoteSet(@)]
        PROVE  \A i \in Jobs : HeldBack(i) /\ (Exists(i) => Exists(i)')
    <3>1. db[j].scheduled_at # "future"
      BY <2>2 DEF PromoteWhere
    <3>2. PromoteSet(db[j]).status = "pending" /\ PromoteSet(db[j]).scheduled_at = db[j].scheduled_at
      BY <1>e DEF PromoteSet, Row
    <3> QED BY <2>2, <3>1, <3>2, HeldBackRow
  <2>3. \/ UNCHANGED db
        \/ \E j \in Jobs : \/ ReapWhere(db[j]) /\ db' = [db EXCEPT ![j] = ReapSet(@)]
                           \/ PromoteWhere(db[j]) /\ db' = [db EXCEPT ![j] = PromoteSet(@)]
    BY <1>2 DEF Feeder, Reaper, Scheduler, FeederStep, ReaperStep, SchedulerStep, FeederSelect,
         FeederEnqueue, ReaperSelect, Reap, SchedulerReadRedis, SchedulerReadDb, Promote,
         SchedulerDrop, SchedulerMove, SchedulerEnqueue
  <2> QED BY <1>d, <2>1, <2>2, <2>3
<1>3. ASSUME NEW j \in Jobs, Tick(j) \/ WorkerStall(j)
      PROVE  \A i \in Jobs : HeldBack(i) /\ (Exists(i) => Exists(i)')
  <2>1. CASE ScheduleDue(j)
    <3> DEFINE row == [db[j] EXCEPT !.scheduled_at = "past",
                                    !.next_run_at = IF @ = "future" THEN "past" ELSE @]
    <3>1. db' = [db EXCEPT ![j] = row] /\ db[j].scheduled_at = "future"
      BY <2>1 DEF ScheduleDue, Elapse
    <3>2. row.status = db[j].status /\ row.scheduled_at = "past"
      BY <1>e DEF Row
    <3>3. db[j].status # "absent"
      BY <3>1 DEF NotBeforeSchedule
    <3> HIDE DEF row
    <3> QED BY <3>1, <3>2, <3>3, HeldBackRow
  <2>2. CASE BackoffOver(j)
    <3> DEFINE row == [db[j] EXCEPT !.next_run_at = "past"]
    <3>1. db' = [db EXCEPT ![j] = row] /\ db[j].status = "pending"
      BY <2>2 DEF BackoffOver, Elapse
    <3>2. row.status = db[j].status /\ row.scheduled_at = db[j].scheduled_at
      BY <1>e DEF Row
    <3> HIDE DEF row
    <3> QED BY <3>1, <3>2, HeldBackRow
  <2>3. CASE LeaseOver(j)
    <3> DEFINE row == [db[j] EXCEPT !.leased_until = "past"]
    <3>1. db' = [db EXCEPT ![j] = row] /\ db[j].status = "processing"
      BY <2>3 DEF LeaseOver, Elapse
    <3>2. row.status = db[j].status /\ row.scheduled_at = db[j].scheduled_at
      BY <1>e DEF Row
    <3> HIDE DEF row
    <3> QED BY <3>1, <3>2, HeldBackRow
  <2> QED BY <1>3, <2>1, <2>2, <2>3 DEF Tick, WorkerStall, LeaseExpires, Stall
<1>4. CASE Failures
  BY <1>3, <1>4, <1>d DEF Failures, WorkerCrash, Crash, WorkerStop, Stop, RequestFails, Drop,
                          RedisRestart, MaintenanceFails, MaintenanceRestart
<1>5. CASE UNCHANGED vars
  BY <1>5, <1>d DEF vars
<1> QED BY <1>1, <1>2, <1>3, <1>4, <1>5

(***************************************************************************)
(* Under every interleaving and any number of failures, with clocks of the *)
(* application hosts that run ahead, no worker runs a job before its       *)
(* scheduled_at.                                                           *)
(***************************************************************************)
THEOREM NeverBeforeSchedule == Spec => []NotBeforeSchedule
<1>1. Init => NotBeforeSchedule /\ RetryDue
  BY DEF Init, WorkerInit, ApiInit, IdleTask, IdleReq, NoRow, NotBeforeSchedule, RetryDue, Runs, At
<1>2. OwnershipInv /\ NotBeforeSchedule /\ RetryDue /\ [Next]_vars => NotBeforeSchedule' /\ RetryDue'
  <2> SUFFICES ASSUME ScheduleInv, [Next]_vars PROVE NotBeforeSchedule' /\ RetryDue'
    BY DEF ScheduleInv
  <2> QED BY RequestSchedule, WorkerSchedule, OtherSchedule DEF Next
<1> QED BY <1>1, <1>2, OwnershipHolds, PTL DEF Spec
===============================================================================
