---------------------------- MODULE ExclusiveProofs ----------------------------
(***************************************************************************)
(* Mutual exclusion of workers on a job.  It does not hold in general: a   *)
(* stalled worker or two overlapping manual retries break it (see README). *)
(* It is proved for any number of jobs and workers, with crashes, graceful *)
(* stops, Redis and maintenance restarts and lost requests, on the two     *)
(* conditions the code relies on without enforcing them: a lease outlives  *)
(* the handler it covers, and no two cancels or manual retries of one job  *)
(* are between their read and their commit at the same time.               *)
(***************************************************************************)
EXTENDS JobSystemProofs

NoStall == "stall" \notin FaultKinds

(* The request has loaded job j and decided, and has not committed.        *)
Deciding(r, j) == At(r, "cancel", j) \/ At(r, "retry", j)

NoOverlap ==
  \A r, s \in Requests : \A j \in Jobs : Deciding(r, j) /\ Deciding(s, j) => r = s

(* A worker that runs a job is alive, its attempt is the current one, and  *)
(* the row is its own under a lease that lasts, unless a cancel that had   *)
(* loaded the row before the claim has overwritten its status.             *)
RunnersCurrent ==
  \A w \in Workers : \A j \in Jobs : Runs(w, j) =>
    /\ Alive(w)
    /\ task[w].row.attempt_count = db[j].attempt_count
    /\ \/ db[j].status = "cancelled"
       \/ db[j].status = "processing" /\ db[j].worker_id = w /\ db[j].leased_until = "future"

(* While a manual retry is between its read and its commit, the job stays  *)
(* failed.                                                                 *)
RetrySeesFailed ==
  \A r \in Requests : \A j \in Jobs : At(r, "retry", j) => db[j].status = "failed"

ExclusiveInv == OwnershipInv /\ RunnersCurrent /\ RetrySeesFailed

(* The invariant gives mutual exclusion: two workers that ran one job      *)
(* would both run its current attempt.                                     *)
LEMMA InvExcludes == ExclusiveInv => ExclusiveExecution
BY DEF ExclusiveInv, OwnershipInv, Ownership, AttemptUnique, RunnersCurrent, ExclusiveExecution

(* Initially nobody runs and no request is under way.                      *)
LEMMA InitExclusive == Init => RunnersCurrent /\ RetrySeesFailed
BY DEF Init, WorkerInit, ApiInit, IdleTask, IdleReq, RunnersCurrent, RetrySeesFailed, Runs, At

-------------------------------------------------------------------------------
(* What a step may do to a job somebody goes on running: cancel it or      *)
(* renew its lease.                                                        *)
Gentle(j) ==
  /\ db'[j].attempt_count = db[j].attempt_count
  /\ \/ db'[j].status = "cancelled"
     \/ /\ db'[j].status = db[j].status
        /\ db'[j].worker_id = db[j].worker_id
        /\ db'[j].leased_until \in {db[j].leased_until, "future"}

(* A step that starts no run, kills no runner and is gentle to every job   *)
(* still run afterwards keeps RunnersCurrent.                              *)
LEMMA GentleKeeps ==
  ASSUME RunnersCurrent,
         \A w \in Workers : task'[w].pc = "running" =>
           task'[w] = task[w] /\ (Alive(w) => Alive(w)'),
         \A j \in Jobs : Gentle(j) \/ \A w \in Workers : ~ Runs(w, j)'
  PROVE  RunnersCurrent'
<1> SUFFICES ASSUME NEW w \in Workers, NEW j \in Jobs, Runs(w, j)'
             PROVE  /\ Alive(w)'
                    /\ task'[w].row.attempt_count = db'[j].attempt_count
                    /\ \/ db'[j].status = "cancelled"
                       \/ /\ db'[j].status = "processing" /\ db'[j].worker_id = w
                          /\ db'[j].leased_until = "future"
  BY DEF RunnersCurrent
<1>1. task'[w] = task[w] /\ (Alive(w) => Alive(w)')
  BY DEF Runs
<1>2. Runs(w, j)
  BY <1>1 DEF Runs
<1>3. Gentle(j)
  OBVIOUS
<1> QED BY <1>1, <1>2, <1>3 DEF RunnersCurrent, Gentle

-------------------------------------------------------------------------------
(* A worker runs one job at a time and nobody else runs it.                *)
LEMMA RunnerAlone ==
  ASSUME ExclusiveInv, NEW w \in Workers, NEW v \in Workers, NEW j \in Jobs,
         Runs(w, j), Runs(v, j)
  PROVE  v = w
BY InvExcludes DEF ExclusiveExecution

(* A job that is neither processing nor cancelled is run by nobody.        *)
LEMMA NotRun ==
  ASSUME RunnersCurrent, NEW j \in Jobs, db[j].status \notin {"processing", "cancelled"}
  PROVE  \A w \in Workers : ~ Runs(w, j)
BY DEF RunnersCurrent

(* A step of a request keeps the invariant.                                *)
LEMMA RequestExclusive ==
  ASSUME ExclusiveInv, NoOverlap, NEW r \in Requests, Request(r)
  PROVE  RunnersCurrent' /\ RetrySeesFailed'
<1> USE DEF ExclusiveInv
<1>t. TypeOK /\ Ownership /\ RequestLoaded
  BY DEF OwnershipInv
<1>0. PICK j \in Jobs :
        \/ Submit(r, j) \/ SubmitScheduled(r, j) \/ SubmitEnqueue(r, j)
        \/ SubmitSchedule(r, j) \/ CancelRead(r, j) \/ CancelCommit(r, j)
        \/ CancelZremPending(r, j) \/ CancelZremScheduled(r, j)
        \/ RetryRead(r, j) \/ RetryCommit(r, j) \/ RetryLrem(r, j)
  BY DEF Request, ApiStep
<1>a. UNCHANGED <<task, proc>>
  BY DEF Request, workerVars
<1>b. db[j] \in Row /\ req[r].row \in Row
  BY <1>t DEF TypeOK, Req
<1>c. ASSUME UNCHANGED db PROVE RunnersCurrent'
  BY <1>a, <1>c, GentleKeeps DEF Gentle, Alive
<1>d. ASSUME NEW row, db' = [db EXCEPT ![j] = row],
             \/ \A w \in Workers : ~ Runs(w, j)
             \/ row.attempt_count = db[j].attempt_count /\ row.status = "cancelled"
      PROVE  RunnersCurrent'
  <2>1. db'[j] = row /\ \A i \in Jobs : i # j => db'[i] = db[i]
    BY <1>d, <1>t DEF TypeOK
  <2>2. \A i \in Jobs : Gentle(i) \/ \A w \in Workers : ~ Runs(w, i)'
    BY <1>a, <1>d, <2>1 DEF Gentle, Runs
  <2> QED BY <1>a, <2>2, GentleKeeps DEF Alive
<1>e. ASSUME NEW q, req' = [req EXCEPT ![r] = q]
      PROVE  req'[r] = q /\ \A s \in Requests : s # r => req'[s] = req[s]
  BY <1>e, <1>t DEF TypeOK
<1>f. ASSUME NEW pc, Goto(r, pc)
      PROVE  req'[r].pc = pc /\ \A s \in Requests : s # r => req'[s] = req[s]
  BY <1>f, <1>t DEF Goto, TypeOK, Req
<1>g. ASSUME Answer(r)
      PROVE  req'[r].pc = "idle" /\ \A s \in Requests : s # r => req'[s] = req[s]
  BY <1>g, <1>t DEF Answer, IdleReq, TypeOK
<1>h. ASSUME req'[r].pc # "retry", \A s \in Requests : s # r => req'[s] = req[s],
             \/ UNCHANGED db
             \/ \E row : /\ db' = [db EXCEPT ![j] = row]
                         /\ \A s \in Requests : s # r => ~ At(s, "retry", j)
      PROVE  RetrySeesFailed'
  <2> SUFFICES ASSUME NEW s \in Requests, NEW i \in Jobs, At(s, "retry", i)'
               PROVE  db'[i].status = "failed"
    BY DEF RetrySeesFailed
  <2>1. s # r /\ At(s, "retry", i)
    BY <1>h DEF At
  <2>2. db[i].status = "failed"
    BY <2>1 DEF RetrySeesFailed
  <2> QED BY <1>h, <1>t, <2>1, <2>2 DEF TypeOK
<1>i. Deciding(r, j) => \A s \in Requests : s # r => ~ At(s, "retry", j)
  BY DEF NoOverlap, Deciding
<1>j. ~ Exists(j) => \A s \in Requests : s # r => ~ At(s, "retry", j)
  BY DEF RetrySeesFailed, Exists
<1>1. CASE Submit(r, j)
  <2>1. \A w \in Workers : ~ Runs(w, j)
    BY <1>1, NotRun DEF Submit, Exists
  <2>2. req'[r].pc = "enqueue" /\ \A s \in Requests : s # r => req'[s] = req[s]
    BY <1>1, <1>e DEF Submit
  <2> QED BY <1>1, <1>d, <1>h, <1>j, <2>1, <2>2 DEF Submit
<1>2. CASE SubmitScheduled(r, j)
  <2>1. \A w \in Workers : ~ Runs(w, j)
    BY <1>2, NotRun DEF SubmitScheduled, Exists
  <2>2. req'[r].pc = "schedule" /\ \A s \in Requests : s # r => req'[s] = req[s]
    BY <1>2, <1>e DEF SubmitScheduled
  <2> QED BY <1>2, <1>d, <1>h, <1>j, <2>1, <2>2 DEF SubmitScheduled
<1>3. CASE SubmitEnqueue(r, j) \/ SubmitSchedule(r, j) \/ CancelZremScheduled(r, j) \/ RetryLrem(r, j)
  BY <1>3, <1>c, <1>g, <1>h DEF SubmitEnqueue, SubmitSchedule, CancelZremScheduled, RetryLrem
<1>4. CASE CancelRead(r, j)
  <2>1. req'[r].pc = "cancel" /\ \A s \in Requests : s # r => req'[s] = req[s]
    BY <1>4, <1>e DEF CancelRead, Begin
  <2> QED BY <1>4, <1>c, <1>h, <2>1 DEF CancelRead
<1>5. CASE CancelCommit(r, j)
  <2>1. Cancellable(req[r].row) /\ Deciding(r, j)
    BY <1>5, <1>t DEF CancelCommit, At, RequestLoaded, Deciding
  <2>2. PICK row : row = Cancel(db[j], req[r].row)
    OBVIOUS
  <2>3. row.attempt_count = db[j].attempt_count /\ row.status = "cancelled"
    BY <1>b, <2>1, <2>2, ObjectWrites DEF Cancellable
  <2>4. db' = [db EXCEPT ![j] = row]
    BY <1>5, <2>2 DEF CancelCommit
  <2>5. req'[r].pc # "retry" /\ \A s \in Requests : s # r => req'[s] = req[s]
    BY <1>5, <1>f DEF CancelCommit
  <2> QED BY <1>d, <1>h, <1>i, <2>1, <2>3, <2>4, <2>5
<1>6. CASE CancelZremPending(r, j)
  <2>1. req'[r].pc # "retry" /\ \A s \in Requests : s # r => req'[s] = req[s]
    BY <1>6, <1>f DEF CancelZremPending
  <2> QED BY <1>6, <1>c, <1>h, <2>1 DEF CancelZremPending
<1>7. CASE RetryRead(r, j)
  <2>1. req'[r].job = j /\ \A s \in Requests : s # r => req'[s] = req[s]
    BY <1>7, <1>e DEF RetryRead, Begin
  <2>2. UNCHANGED db /\ db[j].status = "failed"
    BY <1>7 DEF RetryRead, Retryable
  <2>3. RetrySeesFailed'
    BY <2>1, <2>2 DEF RetrySeesFailed, At
  <2> QED BY <1>c, <2>2, <2>3
<1>8. CASE RetryCommit(r, j)
  <2>1. Deciding(r, j) /\ \A w \in Workers : ~ Runs(w, j)
    BY <1>8, NotRun DEF RetryCommit, RetrySeesFailed, Deciding
  <2>2. PICK row : db' = [db EXCEPT ![j] = row]
    BY <1>8 DEF RetryCommit
  <2>3. req'[r].pc # "retry" /\ \A s \in Requests : s # r => req'[s] = req[s]
    BY <1>8, <1>f DEF RetryCommit
  <2> QED BY <1>d, <1>h, <1>i, <2>1, <2>2, <2>3
<1> QED BY <1>0, <1>1, <1>2, <1>3, <1>4, <1>5, <1>6, <1>7, <1>8

(* The claim keeps the invariant: nobody else runs a job that is pending.  *)
LEMMA ClaimExclusive ==
  ASSUME ExclusiveInv, NEW w \in Workers, Claim(w)
  PROVE  RunnersCurrent'
<1> USE DEF ExclusiveInv
<1> DEFINE j == task[w].job
           row == ClaimSet(db[j], w)
<1>1. /\ j \in Jobs
      /\ db[j] \in Row
      /\ Alive(w)
      /\ db[j].status = "pending"
      /\ db' = [db EXCEPT ![j] = row]
      /\ task' = [task EXCEPT ![w].pc = "running", ![w].row = row]
      /\ UNCHANGED proc
  BY DEF Claim, OwnershipInv, TypeOK, ClaimWhere, Ready
<1>2. row.status = "processing" /\ row.worker_id = w /\ row.leased_until = "future"
  BY <1>1 DEF ClaimSet, Row
<1>3. db'[j] = row /\ \A i \in Jobs : i # j => db'[i] = db[i]
  BY <1>1 DEF OwnershipInv, TypeOK
<1>4. task'[w].job = j /\ task'[w].row = row /\ \A v \in Workers : v # w => task'[v] = task[v]
  BY <1>1 DEF OwnershipInv, TypeOK, Task
<1>5. \A v \in Workers : ~ Runs(v, j)
  BY <1>1, NotRun
<1> HIDE DEF j, row
<1> SUFFICES ASSUME NEW v \in Workers, NEW i \in Jobs, Runs(v, i)'
             PROVE  /\ Alive(v)'
                    /\ task'[v].row.attempt_count = db'[i].attempt_count
                    /\ \/ db'[i].status = "cancelled"
                       \/ /\ db'[i].status = "processing" /\ db'[i].worker_id = v
                          /\ db'[i].leased_until = "future"
  BY DEF RunnersCurrent
<1>6. CASE v = w
  BY <1>1, <1>2, <1>3, <1>4, <1>6 DEF Runs, Alive
<1>7. CASE v # w
  <2>1. Runs(v, i) /\ task'[v] = task[v]
    BY <1>4, <1>7 DEF Runs
  <2>2. i # j /\ db'[i] = db[i]
    BY <1>3, <1>5, <2>1
  <2>3. /\ Alive(v) /\ task[v].row.attempt_count = db[i].attempt_count
        /\ \/ db[i].status = "cancelled"
           \/ /\ db[i].status = "processing" /\ db[i].worker_id = v
              /\ db[i].leased_until = "future"
    BY <2>1 DEF RunnersCurrent
  <2>4. Alive(v)'
    BY <1>1, <2>3 DEF Alive
  <2> QED BY <2>1, <2>2, <2>3, <2>4
<1> QED BY <1>6, <1>7

(* A step that leaves workers and requests alone and writes one row,       *)
(* gently or when nobody runs the job, and not one that has failed, keeps  *)
(* the invariant.                                                          *)
LEMMA RowExclusive ==
  ASSUME ExclusiveInv, UNCHANGED <<task, proc, req>>, NEW j \in Jobs, NEW row,
         db' = [db EXCEPT ![j] = row],
         row.status = "failed" \/ db[j].status # "failed",
         \/ \A w \in Workers : ~ Runs(w, j)
         \/ /\ row.attempt_count = db[j].attempt_count
            /\ row.status = db[j].status
            /\ row.worker_id = db[j].worker_id
            /\ row.leased_until \in {db[j].leased_until, "future"}
  PROVE  RunnersCurrent' /\ RetrySeesFailed'
<1> USE DEF ExclusiveInv
<1>1. db'[j] = row /\ \A i \in Jobs : i # j => db'[i] = db[i]
  BY DEF OwnershipInv, TypeOK
<1>2. \A i \in Jobs : Gentle(i) \/ \A w \in Workers : ~ Runs(w, i)'
  BY <1>1 DEF Gentle, Runs
<1>3. RunnersCurrent'
  BY <1>2, GentleKeeps DEF Alive
<1>4. RetrySeesFailed'
  BY <1>1 DEF RetrySeesFailed, At
<1> QED BY <1>3, <1>4

(* A step of a worker's executor loop keeps the invariant.                 *)
LEMMA WorkerExclusive ==
  ASSUME ExclusiveInv, NEW w \in Workers, Worker(w)
  PROVE  RunnersCurrent' /\ RetrySeesFailed'
<1> USE DEF ExclusiveInv
<1>t. TypeOK /\ Ownership
  BY DEF OwnershipInv
<1>r. UNCHANGED req
  BY DEF Worker, Others, apiVars
<1>a. ASSUME UNCHANGED db,
             \A v \in Workers : task'[v].pc = "running" => task'[v] = task[v],
             \A v \in Workers : v # w => proc'[v] = proc[v],
             proc'[w] = proc[w] \/ task[w].pc # "running"
      PROVE  RunnersCurrent' /\ RetrySeesFailed'
  BY <1>a, <1>r, GentleKeeps DEF Gentle, Alive, RetrySeesFailed, At
<1>b. ASSUME NEW row, NEW pc, Finalize(w, row, pc), task[w].pc = "running",
             pc # "running"
      PROVE  RunnersCurrent' /\ RetrySeesFailed'
  <2>0. PICK j \in Jobs : j = task[w].job
    BY <1>b, <1>t DEF TypeOK
  <2>1. Runs(w, j)
    BY <1>b, <2>0 DEF Runs
  <2>2. \A i \in Jobs : i # j => db'[i] = db[i]
    BY <1>b, <1>t, <2>0 DEF Finalize, TypeOK
  <2>3. /\ task'[w].pc = pc
        /\ \A v \in Workers : v # w => task'[v] = task[v]
        /\ UNCHANGED proc
    BY <1>b, <1>t DEF Finalize, TypeOK, Task
  <2>4. \A v \in Workers : ~ Runs(v, j)'
    <3> SUFFICES ASSUME NEW v \in Workers, Runs(v, j)' PROVE FALSE
      OBVIOUS
    <3>1. v # w
      BY <1>b, <2>3 DEF Runs
    <3>2. task'[v] = task[v]
      BY <2>3, <3>1
    <3>3. task'[v].pc = "running" /\ task'[v].job = j
      BY DEF Runs
    <3>4. Runs(v, j)
      BY <3>2, <3>3 DEF Runs
    <3> QED BY <2>1, <3>1, <3>4, RunnerAlone
  <2>5. \A i \in Jobs : Gentle(i) \/ \A v \in Workers : ~ Runs(v, i)'
    BY <2>2, <2>4 DEF Gentle
  <2>6. RunnersCurrent'
    BY <1>b, <2>3, <2>5, GentleKeeps DEF Alive
  <2>7. db[j].status # "failed"
    BY <2>1 DEF RunnersCurrent
  <2>8. RetrySeesFailed'
    BY <1>r, <2>1, <2>2, <2>7 DEF RetrySeesFailed, At
  <2> QED BY <2>6, <2>8
<1>1. ASSUME NEW j \in Jobs, Dequeue(w, j) PROVE RunnersCurrent' /\ RetrySeesFailed'
  <2>1. /\ UNCHANGED <<db, proc>>
        /\ \A v \in Workers : task'[v].pc = "running" => task'[v] = task[v]
    BY <1>1, <1>t DEF Dequeue, TypeOK
  <2> QED BY <1>a, <2>1
<1>2. CASE Claim(w)
  <2>1. ASSUME NEW r \in Requests, NEW i \in Jobs, At(r, "retry", i)'
        PROVE  db'[i].status = "failed"
    <3>1. db[i].status = "failed"
      BY <1>r, <2>1 DEF RetrySeesFailed, At
    <3>2. i # task[w].job
      BY <1>2, <3>1 DEF Claim, ClaimWhere, Ready
    <3> QED BY <1>2, <1>t, <3>1, <3>2 DEF Claim, TypeOK
  <2> QED BY <1>2, <2>1, ClaimExclusive DEF RetrySeesFailed
<1>3. CASE ClaimSkipped(w)
  <2>1. /\ UNCHANGED <<db, proc>>
        /\ \A v \in Workers : task'[v].pc = "running" => task'[v] = task[v]
    BY <1>3, <1>t DEF ClaimSkipped, IdleTask, TypeOK
  <2> QED BY <1>a, <2>1
<1>4. CASE FinishCompleted(w)
  BY <1>4, <1>b DEF FinishCompleted
<1>5. CASE FinishRetry(w)
  BY <1>5, <1>b DEF FinishRetry
<1>6. CASE FinishFailed(w)
  BY <1>6, <1>b DEF FinishFailed
<1>7. CASE DeadLetter(w)
  <2>1. /\ UNCHANGED <<db, proc>>
        /\ \A v \in Workers : task'[v].pc = "running" => task'[v] = task[v]
    BY <1>7, <1>t DEF DeadLetter, TypeOK, Task
  <2> QED BY <1>a, <2>1
<1>8. CASE Release(w)
  <2>1. /\ UNCHANGED <<db, proc>>
        /\ \A v \in Workers : task'[v].pc = "running" => task'[v] = task[v]
    BY <1>8, <1>t DEF Release, IdleTask, TypeOK
  <2> QED BY <1>a, <2>1
<1>9. CASE Exit(w)
  <2>1. /\ UNCHANGED <<db, task>>
        /\ \A v \in Workers : v # w => proc'[v] = proc[v]
        /\ task[w].pc # "running"
    BY <1>9, <1>t DEF Exit, TypeOK
  <2> QED BY <1>a, <2>1
<1>10. CASE Report(w)
  <2> DEFINE j == task[w].job
             row == ReportProgress(db[j], Memory(w), Percent(reports[w] + 1))
  <2>1. j \in Jobs /\ db[j] \in Row /\ db' = [db EXCEPT ![j] = row] /\ UNCHANGED <<task, proc>>
    BY <1>10, <1>t DEF Report, TypeOK
  <2>2. /\ row.attempt_count = db[j].attempt_count
        /\ row.status = db[j].status
        /\ row.worker_id = db[j].worker_id
        /\ row.leased_until = db[j].leased_until
    BY <1>t, <2>1, ProgressWrites, MemoryRow
  <2> HIDE DEF row, j
  <2> QED BY <1>r, <2>1, <2>2, RowExclusive
<1> QED
  BY <1>1, <1>2, <1>3, <1>4, <1>5, <1>6, <1>7, <1>8, <1>9, <1>10 DEF Worker, ExecutorStep

(* A step that leaves table, workers and requests alone keeps it too.      *)
LEMMA NothingExclusive ==
  ASSUME ExclusiveInv, UNCHANGED <<db, task, proc, req>>
  PROVE  RunnersCurrent' /\ RetrySeesFailed'
BY DEF ExclusiveInv, RunnersCurrent, RetrySeesFailed, Runs, Alive, At

(* A step of a heartbeat loop keeps the invariant.                         *)
LEMMA HeartbeatExclusive ==
  ASSUME ExclusiveInv, NEW w \in Workers, Heartbeat(w)
  PROVE  RunnersCurrent' /\ RetrySeesFailed'
<1>a. UNCHANGED <<task, proc, req>>
  BY DEF Heartbeat, HeartbeatStep, HeartbeatRead, RenewLease, ClearHolder, Others, apiVars
<1>1. CASE UNCHANGED db
  BY <1>a, <1>1, NothingExclusive
<1>2. CASE RenewLease(w) /\ RenewWhere(db[beat[w].job], w)
  <2> DEFINE j == beat[w].job
             row == RenewSet(db[j])
  <2>1. j \in Jobs /\ db' = [db EXCEPT ![j] = row] /\ db[j] \in Row
    BY <1>2 DEF RenewLease, ExclusiveInv, OwnershipInv, TypeOK
  <2>2. /\ row.attempt_count = db[j].attempt_count
        /\ row.status = db[j].status /\ db[j].status # "failed"
        /\ row.worker_id = db[j].worker_id
        /\ row.leased_until = "future"
    BY <1>2, <2>1 DEF RenewSet, RenewWhere, Row
  <2> HIDE DEF row, j
  <2> QED BY <1>a, <2>1, <2>2, RowExclusive
<1> QED BY <1>1, <1>2 DEF Heartbeat, HeartbeatStep, HeartbeatRead, RenewLease, ClearHolder

(* A step of a maintenance loop keeps it: the reaper takes no job from a   *)
(* worker that runs it, whose lease has not run out.                       *)
LEMMA MaintenanceExclusive ==
  ASSUME ExclusiveInv, Feeder \/ Reaper \/ Scheduler
  PROVE  RunnersCurrent' /\ RetrySeesFailed'
<1> USE DEF ExclusiveInv
<1>a. UNCHANGED <<task, proc, req>>
  BY DEF Feeder, Reaper, Scheduler, workerVars, apiVars
<1>1. CASE UNCHANGED db
  BY <1>a, <1>1, NothingExclusive
<1>2. ASSUME NEW j \in Jobs, ReapWhere(db[j]), db' = [db EXCEPT ![j] = ReapSet(@)]
      PROVE  RunnersCurrent' /\ RetrySeesFailed'
  <2>1. \A w \in Workers : ~ Runs(w, j)
    BY <1>2 DEF ReapWhere, RunnersCurrent
  <2>2. db[j].status # "failed"
    BY <1>2 DEF ReapWhere
  <2> QED BY <1>a, <1>2, <2>1, <2>2, RowExclusive
<1>3. ASSUME NEW j \in Jobs, PromoteWhere(db[j]), db' = [db EXCEPT ![j] = PromoteSet(@)]
      PROVE  RunnersCurrent' /\ RetrySeesFailed'
  <2>1. \A w \in Workers : ~ Runs(w, j)
    BY <1>3, NotRun DEF PromoteWhere
  <2>2. db[j].status # "failed"
    BY <1>3 DEF PromoteWhere
  <2> QED BY <1>a, <1>3, <2>1, <2>2, RowExclusive
<1>4. \/ UNCHANGED db
      \/ \E j \in Jobs : \/ ReapWhere(db[j]) /\ db' = [db EXCEPT ![j] = ReapSet(@)]
                         \/ PromoteWhere(db[j]) /\ db' = [db EXCEPT ![j] = PromoteSet(@)]
  BY DEF Feeder, Reaper, Scheduler, FeederStep, ReaperStep, SchedulerStep, FeederSelect,
         FeederEnqueue, ReaperSelect, Reap, SchedulerReadRedis, SchedulerReadDb, Promote,
         SchedulerDrop, SchedulerMove, SchedulerEnqueue
<1> QED BY <1>1, <1>2, <1>3, <1>4

(* The passing of time keeps it: without a stall only the lease of a       *)
(* worker that is gone runs out.                                           *)
LEMMA TickExclusive ==
  ASSUME ExclusiveInv, NEW j \in Jobs, Tick(j)
  PROVE  RunnersCurrent' /\ RetrySeesFailed'
<1> USE DEF ExclusiveInv
<1>b. db[j] \in Row
  BY DEF OwnershipInv, TypeOK
<1>1. CASE ScheduleDue(j)
  <2> DEFINE row == [db[j] EXCEPT !.scheduled_at = "past",
                                  !.next_run_at = IF @ = "future" THEN "past" ELSE @]
  <2>1. Elapse(j, row)
    BY <1>1 DEF ScheduleDue
  <2>2. /\ row.attempt_count = db[j].attempt_count /\ row.status = db[j].status
        /\ row.worker_id = db[j].worker_id /\ row.leased_until = db[j].leased_until
    BY <1>b DEF Row
  <2> HIDE DEF row
  <2> QED BY <2>1, <2>2, RowExclusive DEF Elapse, workerVars, apiVars
<1>2. CASE BackoffOver(j)
  <2> DEFINE row == [db[j] EXCEPT !.next_run_at = "past"]
  <2>1. Elapse(j, row)
    BY <1>2 DEF BackoffOver
  <2>2. /\ row.attempt_count = db[j].attempt_count /\ row.status = db[j].status
        /\ row.worker_id = db[j].worker_id /\ row.leased_until = db[j].leased_until
    BY <1>b DEF Row
  <2> HIDE DEF row
  <2> QED BY <2>1, <2>2, RowExclusive DEF Elapse, workerVars, apiVars
<1>3. CASE LeaseExpires(j)
  <2> DEFINE row == [db[j] EXCEPT !.leased_until = "past"]
  <2>1. Elapse(j, row) /\ db[j].status = "processing"
    BY <1>3 DEF LeaseExpires, LeaseOver
  <2>2. \A w \in Workers : ~ Runs(w, j)
    BY <1>3, <2>1 DEF LeaseExpires, OwnerAlive, RunnersCurrent
  <2> HIDE DEF row
  <2> QED BY <2>1, <2>2, RowExclusive DEF Elapse, workerVars, apiVars
<1> QED BY <1>1, <1>2, <1>3 DEF Tick

(* The failures, except stalls, keep it.                                   *)
LEMMA FailureExclusive ==
  ASSUME ExclusiveInv, NoStall, Failures
  PROVE  RunnersCurrent' /\ RetrySeesFailed'
<1> USE DEF ExclusiveInv
<1>t. TypeOK
  BY DEF OwnershipInv
<1>1. ASSUME NEW w \in Workers, WorkerCrash(w) \/ WorkerStop(w)
      PROVE  RunnersCurrent' /\ RetrySeesFailed'
  <2>1. \A v \in Workers : task'[v].pc = "running" =>
          task'[v] = task[v] /\ (Alive(v) => Alive(v)')
    BY <1>1, <1>t DEF WorkerCrash, WorkerStop, Crash, Stop, IdleTask, TypeOK, Alive
  <2>2. UNCHANGED <<db, req>>
    BY <1>1 DEF WorkerCrash, WorkerStop, Crash, Stop, apiVars
  <2>3. RunnersCurrent'
    BY <2>1, <2>2, GentleKeeps DEF Gentle
  <2> QED BY <2>2, <2>3 DEF RetrySeesFailed, At
<1>2. ASSUME NEW j \in Jobs, WorkerStall(j) PROVE FALSE
  BY <1>2 DEF WorkerStall, Fault, NoStall
<1>3. ASSUME NEW r \in Requests, RequestFails(r)
      PROVE  RunnersCurrent' /\ RetrySeesFailed'
  <2>1. UNCHANGED <<db, task, proc>>
    BY <1>3 DEF RequestFails, Drop, workerVars
  <2>2. RunnersCurrent'
    BY <2>1 DEF RunnersCurrent, Runs, Alive
  <2>3. RetrySeesFailed'
    BY <1>3, <1>t, <2>1 DEF RequestFails, Drop, Answer, IdleReq, RetrySeesFailed, At, TypeOK
  <2> QED BY <2>2, <2>3
<1>4. CASE RedisRestart
  BY <1>4, NothingExclusive DEF RedisRestart, workerVars, apiVars
<1>5. CASE MaintenanceFails
  BY <1>5, NothingExclusive DEF MaintenanceFails, MaintenanceRestart, workerVars, apiVars
<1> QED BY <1>1, <1>2, <1>3, <1>4, <1>5 DEF Failures

(* ExclusiveInv is inductive on the two conditions.                        *)
LEMMA ExclusiveInductive ==
  ASSUME NoStall, NoOverlap, ExclusiveInv, [Next]_vars
  PROVE  ExclusiveInv'
<1>0. OwnershipInv'
  BY OwnershipInductive DEF ExclusiveInv
<1>1. CASE UNCHANGED vars
  <2>1. UNCHANGED <<db, task, proc, req>>
    BY <1>1 DEF vars, workerVars, apiVars
  <2> QED BY <1>0, <2>1, NothingExclusive DEF ExclusiveInv
<1>2. CASE Next
  <2>1. RunnersCurrent' /\ RetrySeesFailed'
    BY <1>2, RequestExclusive, WorkerExclusive, HeartbeatExclusive, MaintenanceExclusive,
       TickExclusive, FailureExclusive DEF Next
  <2> QED BY <1>0, <2>1 DEF ExclusiveInv
<1> QED BY <1>1, <1>2

(* When leases outlive handlers and no two requests decide on one job at a *)
(* time, one job is executed by one worker at a time, through crashes,     *)
(* stops, restarts, lost requests, and a cancel that races with the claim. *)
THEOREM ExecutionIsExclusive ==
  ASSUME NoStall
  PROVE  Spec /\ []NoOverlap => []ExclusiveExecution
<1>1. Init => ExclusiveInv
  BY InitType, InitOwnership, InitExclusive DEF ExclusiveInv, OwnershipInv
<1>2. ExclusiveInv /\ NoOverlap /\ [Next]_vars => ExclusiveInv'
  BY ExclusiveInductive
<1>3. ExclusiveInv => ExclusiveExecution
  BY InvExcludes
<1> QED BY <1>1, <1>2, <1>3, PTL DEF Spec
===============================================================================
