---------------------------- MODULE LifecycleProofs ----------------------------
(***************************************************************************)
(* JobSystem implements JobLifecycle, a job's attempts stay in budget and  *)
(* its progress is true, on the two conditions of ExclusiveProofs: no      *)
(* lease runs out under a live worker, and no two requests decide on one   *)
(* job at a time.                                                          *)
(*                                                                         *)
(* The three proofs share one analysis of the steps.  Seen through the     *)
(* columns a client reads and the attempts under way, a step of the system *)
(* does one of nine things, or nothing (Effects); the theorems are proved  *)
(* by cases on these and never open an action again.                       *)
(***************************************************************************)
EXTENDS ExclusiveProofs, JobRefinement, FiniteSetTheorems

State(j) == ClientState(db[j])

(* The columns a client reads are left alone.                              *)
RowKept(j) ==
  /\ State(j)' = State(j)
  /\ db'[j].attempt_count = db[j].attempt_count
  /\ db'[j].max_attempts = db[j].max_attempts
  /\ db'[j].progress_pct = db[j].progress_pct

RowsKeptBut(j) == \A i \in Jobs : i # j => RowKept(i)

(* The attempt worker w makes, if any, goes on.                            *)
RunKept(w) ==
  /\ \/ task'[w] = task[w]
     \/ task[w].pc # "running" /\ task'[w].pc # "running"
  /\ reports'[w] = reports[w]

RunsKeptBut(w) == (\A v \in Workers : v # w => RunKept(v)) /\ Dead' = Dead

RunsKept == (\A v \in Workers : RunKept(v)) /\ Dead' = Dead

Quiet == (\A j \in Jobs : RowKept(j)) /\ RunsKept

(* A submission.                                                           *)
Entered(j) ==
  /\ State(j) = "absent" /\ State(j)' = "waiting"
  /\ db'[j].attempt_count = db[j].attempt_count
  /\ db'[j].max_attempts = DefaultMaxAttempts
  /\ RowsKeptBut(j) /\ RunsKept

(* The commit of a cancel, perhaps while the job is executed.              *)
Withdrawn(j) ==
  /\ State(j) # "absent" /\ State(j)' = "cancelled"
  /\ db'[j].attempt_count = db[j].attempt_count
  /\ db'[j].max_attempts = db[j].max_attempts
  /\ db'[j].progress_pct = db[j].progress_pct
  /\ RowsKeptBut(j) /\ RunsKept

(* The commit of a manual retry.                                           *)
Reopened(j) ==
  /\ State(j) = "failed" /\ State(j)' = "waiting"
  /\ db'[j].attempt_count = db[j].attempt_count
  /\ db'[j].max_attempts = db[j].max_attempts + 1
  /\ RowsKeptBut(j) /\ RunsKept

(* A claim.                                                                *)
Began(w, j) ==
  /\ State(j) = "waiting" /\ State(j)' = "processing"
  /\ db'[j].attempt_count = db[j].attempt_count + 1
  /\ db'[j].max_attempts = db[j].max_attempts
  /\ db'[j].progress_pct = db[j].progress_pct
  /\ RowsKeptBut(j)
  /\ task[w].pc # "running" /\ Runs(w, j)'
  /\ task'[w].row.max_attempts = db[j].max_attempts
  /\ task'[w].row.progress_pct = db[j].progress_pct
  /\ reports'[w] = reports[w] /\ RunsKeptBut(w)
  /\ \A v \in Workers : ~ Runs(v, j)

(* The commit of an outcome.                                               *)
Ended(w, j, s) ==
  /\ State(j)' = s
  /\ db'[j].attempt_count = db[j].attempt_count
  /\ db'[j].max_attempts = db[j].max_attempts
  /\ s = "completed" => db'[j].progress_pct = Written(db[j].progress_pct, Memory(w).progress_pct, 100)
  /\ s = "waiting" => db[j].attempt_count < db[j].max_attempts
  /\ RowsKeptBut(j)
  /\ Runs(w, j) /\ task'[w].pc # "running"
  /\ reports'[w] = 0 /\ RunsKeptBut(w)
  /\ \A v \in Workers : Runs(v, j) => v = w

(* The commit of a progress report.                                        *)
Reported(w, j) ==
  /\ State(j)' = State(j)
  /\ db'[j].attempt_count = db[j].attempt_count
  /\ db'[j].max_attempts = db[j].max_attempts
  /\ db'[j].progress_pct =
       Written(db[j].progress_pct, Memory(w).progress_pct, Clamp(Percent(reports[w] + 1)))
  /\ RowsKeptBut(j)
  /\ Runs(w, j) /\ task'[w] = task[w]
  /\ reports[w] < TotalReports /\ reports'[w] = reports[w] + 1
  /\ RunsKeptBut(w)

(* The death of a worker.                                                  *)
Killed(w) ==
  /\ \A j \in Jobs : RowKept(j)
  /\ task'[w].pc # "running" /\ reports'[w] = 0
  /\ \A v \in Workers : v # w => RunKept(v)
  /\ w \notin Dead /\ Dead' = Dead \cup {w}

(* The reaping of a job.                                                   *)
Recovered(j) ==
  /\ State(j) = "processing" /\ State(j)' = "waiting"
  /\ db'[j].attempt_count = db[j].attempt_count
  /\ db'[j].max_attempts = db[j].max_attempts
  /\ db'[j].progress_pct = db[j].progress_pct
  /\ RowsKeptBut(j) /\ RunsKept
  /\ \A v \in Workers : ~ Runs(v, j)

Outcome == {"completed", "waiting", "failed"}

(* What a client or a worker brings about, and what just happens.          *)
RequestEffects == \E j \in Jobs : Entered(j) \/ Withdrawn(j) \/ Reopened(j)

WorkerEffects ==
  \E w \in Workers : \E j \in Jobs :
    Began(w, j) \/ Reported(w, j) \/ \E s \in Outcome : Ended(w, j, s)

OtherEffects == (\E w \in Workers : Killed(w)) \/ (\E j \in Jobs : Recovered(j))

Effects == Quiet \/ RequestEffects \/ WorkerEffects \/ OtherEffects

-------------------------------------------------------------------------------
(* The Job an executor has in memory knows the current max_attempts, and   *)
(* so does the Job a manual retry has loaded; a cancel is of a job that    *)
(* exists.  The commit of an object writes what it has in memory, so this  *)
(* is what keeps the writes of executor and API from undoing each other.   *)
RunsLimit ==
  \A w \in Workers : \A j \in Jobs :
    Runs(w, j) => task[w].row.max_attempts = db[j].max_attempts

RetryLimit ==
  \A r \in Requests : \A j \in Jobs :
    At(r, "retry", j) => req[r].row.max_attempts = db[j].max_attempts

CancelKnown == \A r \in Requests : \A j \in Jobs : At(r, "cancel", j) => Exists(j)

LimitInv == ExclusiveInv /\ RunsLimit /\ RetryLimit /\ CancelKnown

-------------------------------------------------------------------------------
(* The commit of an object writes max_attempts for a manual retry alone,   *)
(* from what it has in memory.                                             *)
LEMMA LimitWrites ==
  ASSUME NEW row \in Row, NEW mem \in Row
  PROVE  /\ Complete(row, mem).max_attempts = row.max_attempts
         /\ RetryLater(row, mem).max_attempts = row.max_attempts
         /\ FailPermanently(row, mem).max_attempts = row.max_attempts
         /\ Cancel(row, mem).max_attempts = row.max_attempts
         /\ \A at : ManualRetry(row, mem, at).max_attempts = mem.max_attempts + 1
<1>1. Complete(row, mem).max_attempts = row.max_attempts
  BY DEF Complete, Flush, Written, Row
<1>2. RetryLater(row, mem).max_attempts = row.max_attempts
  BY DEF RetryLater, Flush, Written, Row
<1>3. FailPermanently(row, mem).max_attempts = row.max_attempts
  BY DEF FailPermanently, Flush, Written, Row
<1>4. Cancel(row, mem).max_attempts = row.max_attempts
  BY DEF Cancel, Flush, Written, Row
<1>5. ASSUME NEW at PROVE ManualRetry(row, mem, at).max_attempts = mem.max_attempts + 1
  <2> DEFINE n == mem.max_attempts + 1
             new == [mem EXCEPT !.status = "pending", !.max_attempts = n,
                                !.leased_until = "null", !.worker_id = NoWorker]
  <2>1. n \in Nat /\ n # mem.max_attempts
    BY DEF Row
  <2> HIDE DEF n
  <2>2. new.max_attempts = n
    BY DEF Row
  <2>3. Flush(row, mem, new).max_attempts = n
    BY <2>1, <2>2 DEF Flush, Written
  <2>4. [Flush(row, mem, new) EXCEPT !.next_run_at = at].max_attempts = n
    BY <2>3 DEF Flush
  <2> QED BY <2>4 DEF ManualRetry, n
<1> QED BY <1>1, <1>2, <1>3, <1>4, <1>5

(* Completion and reports write a percentage only where the one in memory  *)
(* differs; a cancel writes none.                                          *)
LEMMA PercentWrites ==
  ASSUME NEW row \in Row, NEW mem \in Row
  PROVE  /\ Complete(row, mem).progress_pct = Written(row.progress_pct, mem.progress_pct, 100)
         /\ Cancel(row, mem).progress_pct = row.progress_pct
         /\ \A pct : ReportProgress(row, mem, pct).progress_pct =
                       Written(row.progress_pct, mem.progress_pct, Clamp(pct))
<1>1. Complete(row, mem).progress_pct = Written(row.progress_pct, mem.progress_pct, 100)
  BY DEF Complete, Flush, Row
<1>2. Cancel(row, mem).progress_pct = row.progress_pct
  BY DEF Cancel, Flush, Written, Row
<1>3. ASSUME NEW pct
      PROVE  ReportProgress(row, mem, pct).progress_pct =
               Written(row.progress_pct, mem.progress_pct, Clamp(pct))
  <2> DEFINE c == Clamp(pct)
             new == [mem EXCEPT !.progress_pct = c]
  <2> HIDE DEF c
  <2>1. new.progress_pct = c
    BY DEF Row
  <2> QED BY <2>1 DEF ReportProgress, Flush, c
<1> QED BY <1>1, <1>2, <1>3

(* A write to one row: what it leaves of the others.                       *)
LEMMA OneRow ==
  ASSUME TypeOK, NEW j \in Jobs, NEW row, db' = [db EXCEPT ![j] = row]
  PROVE  db'[j] = row /\ State(j)' = ClientState(row) /\ RowsKeptBut(j)
<1>1. db'[j] = row /\ \A i \in Jobs : i # j => db'[i] = db[i]
  BY DEF TypeOK
<1> QED BY <1>1 DEF RowsKeptBut, RowKept, State

(* A step that leaves the workers alone.                                   *)
LEMMA WorkersKept ==
  ASSUME UNCHANGED workerVars
  PROVE  RunsKept
BY DEF workerVars, RunsKept, RunKept, Dead

(* What a step of a request does.                                          *)
LEMMA RequestEffect ==
  ASSUME LimitInv, NoOverlap, NEW r \in Requests, Request(r)
  PROVE  (Quiet \/ RequestEffects) /\ RetryLimit' /\ CancelKnown'
<1> USE DEF LimitInv
<1>t. TypeOK /\ RequestLoaded /\ RetrySeesFailed
  BY DEF ExclusiveInv, OwnershipInv
<1>0. PICK j \in Jobs :
        \/ Submit(r, j) \/ SubmitScheduled(r, j) \/ SubmitEnqueue(r, j)
        \/ SubmitSchedule(r, j) \/ CancelRead(r, j) \/ CancelCommit(r, j)
        \/ CancelZremPending(r, j) \/ CancelZremScheduled(r, j)
        \/ RetryRead(r, j) \/ RetryCommit(r, j) \/ RetryLrem(r, j)
  BY DEF Request, ApiStep
<1>a. RunsKept
  BY WorkersKept DEF Request
<1>b. db[j] \in Row /\ req[r].row \in Row
  BY <1>t DEF TypeOK, Req
<1>c. UNCHANGED db => Quiet
  BY <1>a DEF Quiet, RowKept, State
<1>d. ASSUME req'[r].pc \notin {"retry", "cancel"},
             \A s \in Requests : s # r => req'[s] = req[s],
             \/ UNCHANGED db
             \/ \E row : /\ db' = [db EXCEPT ![j] = row]
                         /\ row.status # "absent"
                         /\ \A s \in Requests : s # r => ~ At(s, "retry", j)
      PROVE  RetryLimit' /\ CancelKnown'
  <2>1. ASSUME NEW s \in Requests, NEW i \in Jobs, At(s, "retry", i)'
        PROVE  req'[s].row.max_attempts = db'[i].max_attempts
    <3>1. s # r /\ req'[s] = req[s] /\ At(s, "retry", i)
      BY <1>d, <2>1 DEF At
    <3>2. db'[i] = db[i]
      BY <1>d, <1>t, <3>1 DEF TypeOK
    <3> QED BY <3>1, <3>2 DEF RetryLimit
  <2>2. ASSUME NEW s \in Requests, NEW i \in Jobs, At(s, "cancel", i)' PROVE Exists(i)'
    <3>1. s # r /\ At(s, "cancel", i)
      BY <1>d, <2>2 DEF At
    <3>2. Exists(i)
      BY <3>1 DEF CancelKnown
    <3> QED BY <1>d, <1>t, <3>2 DEF Exists, TypeOK
  <2> QED BY <2>1, <2>2 DEF RetryLimit, CancelKnown
<1>e. ASSUME NEW q, req' = [req EXCEPT ![r] = q]
      PROVE  req'[r] = q /\ \A s \in Requests : s # r => req'[s] = req[s]
  BY <1>e, <1>t DEF TypeOK
<1>f. ASSUME NEW pc, Goto(r, pc)
      PROVE  req'[r].pc = pc /\ \A s \in Requests : s # r => req'[s] = req[s]
  BY <1>f, <1>t DEF Goto, TypeOK, Req
<1>g. ASSUME Answer(r)
      PROVE  req'[r].pc = "idle" /\ \A s \in Requests : s # r => req'[s] = req[s]
  BY <1>g, <1>t DEF Answer, IdleReq, TypeOK
<1>i. Deciding(r, j) => \A s \in Requests : s # r => ~ At(s, "retry", j)
  BY DEF NoOverlap, Deciding
<1>1. CASE Submit(r, j) \/ SubmitScheduled(r, j)
  <2>1. PICK at \in {"null", "future"} : ~ Exists(j) /\ db' = [db EXCEPT ![j] = NewRow(at)]
    BY <1>1 DEF Submit, SubmitScheduled
  <2>2. /\ NewRow(at).status \in {"pending", "scheduled"}
        /\ NewRow(at).attempt_count = 0
        /\ NewRow(at).max_attempts = DefaultMaxAttempts
    BY DEF NewRow, NoRow
  <2>3. State(j) = "absent" /\ db[j].attempt_count = 0
    BY <2>1 DEF State, ClientState, Exists, ExclusiveInv, OwnershipInv, Ownership, AbsentBlank, NoRow
  <2>4. Entered(j)
    BY <1>a, <1>t, <2>1, <2>2, <2>3, OneRow DEF Entered, ClientState
  <2>5. /\ req'[r].pc \in {"enqueue", "schedule"}
        /\ \A s \in Requests : s # r => req'[s] = req[s]
    BY <1>1, <1>e DEF Submit, SubmitScheduled
  <2>6. \A s \in Requests : ~ At(s, "retry", j)
    BY <1>t, <2>1 DEF RetrySeesFailed, Exists
  <2>7. RetryLimit' /\ CancelKnown'
    BY <1>d, <2>1, <2>2, <2>5, <2>6
  <2> QED BY <2>4, <2>7 DEF RequestEffects
<1>2. CASE SubmitEnqueue(r, j) \/ SubmitSchedule(r, j) \/ CancelZremScheduled(r, j) \/ RetryLrem(r, j)
  BY <1>2, <1>c, <1>d, <1>g DEF SubmitEnqueue, SubmitSchedule, CancelZremScheduled, RetryLrem
<1>3. CASE CancelRead(r, j)
  <2>1. /\ req'[r].pc = "cancel" /\ req'[r].job = j
        /\ \A s \in Requests : s # r => req'[s] = req[s]
    BY <1>3, <1>e DEF CancelRead, Begin
  <2>2. UNCHANGED db /\ Exists(j)
    BY <1>3 DEF CancelRead, Cancellable, Exists
  <2>3. RetryLimit' /\ CancelKnown'
    BY <2>1, <2>2 DEF RetryLimit, CancelKnown, At, Exists
  <2> QED BY <1>c, <2>2, <2>3
<1>4. CASE CancelCommit(r, j)
  <2>1. Cancellable(req[r].row) /\ Exists(j) /\ Deciding(r, j)
    BY <1>4, <1>t DEF CancelCommit, At, RequestLoaded, CancelKnown, Deciding
  <2>2. PICK row : row = Cancel(db[j], req[r].row)
    OBVIOUS
  <2>3. /\ row.attempt_count = db[j].attempt_count
        /\ row.max_attempts = db[j].max_attempts
        /\ row.progress_pct = db[j].progress_pct
        /\ row.status = "cancelled"
    BY <1>b, <2>1, <2>2, ObjectWrites, LimitWrites, PercentWrites DEF Cancellable
  <2>4. State(j) # "absent"
    BY <2>1 DEF State, ClientState, Exists
  <2>5. db' = [db EXCEPT ![j] = row]
    BY <1>4, <2>2 DEF CancelCommit
  <2>6. db'[j] = row /\ State(j)' = ClientState(row) /\ RowsKeptBut(j)
    BY <1>t, <2>5, OneRow
  <2>7. ClientState(row) = "cancelled"
    BY <2>3 DEF ClientState
  <2>8. Withdrawn(j)
    BY <1>a, <2>3, <2>4, <2>6, <2>7 DEF Withdrawn
  <2>9. /\ req'[r].pc \notin {"retry", "cancel"}
        /\ \A s \in Requests : s # r => req'[s] = req[s]
    BY <1>4, <1>f DEF CancelCommit
  <2>10. RetryLimit' /\ CancelKnown'
    BY <1>d, <1>i, <2>1, <2>3, <2>5, <2>9
  <2> QED BY <2>8, <2>10 DEF RequestEffects
<1>5. CASE CancelZremPending(r, j)
  <2>1. /\ req'[r].pc \notin {"retry", "cancel"}
        /\ \A s \in Requests : s # r => req'[s] = req[s]
    BY <1>5, <1>f DEF CancelZremPending
  <2> QED BY <1>5, <1>c, <1>d, <2>1 DEF CancelZremPending
<1>6. CASE RetryRead(r, j)
  <2>1. /\ req'[r].pc = "retry" /\ req'[r].job = j /\ req'[r].row = db[j]
        /\ \A s \in Requests : s # r => req'[s] = req[s]
    BY <1>6, <1>e DEF RetryRead, Begin
  <2>2. UNCHANGED db
    BY <1>6 DEF RetryRead
  <2>3. RetryLimit' /\ CancelKnown'
    BY <2>1, <2>2 DEF RetryLimit, CancelKnown, At, Exists
  <2> QED BY <1>c, <2>2, <2>3
<1>7. CASE RetryCommit(r, j)
  <2>1. /\ Retryable(req[r].row)
        /\ db[j].status = "failed"
        /\ req[r].row.max_attempts = db[j].max_attempts
        /\ Deciding(r, j)
    BY <1>7, <1>t DEF RetryCommit, At, RequestLoaded, RetrySeesFailed, RetryLimit, Deciding
  <2>2. PICK at \in AppNow : db' = [db EXCEPT ![j] = ManualRetry(db[j], req[r].row, at)]
    BY <1>7 DEF RetryCommit
  <2>3. PICK row : row = ManualRetry(db[j], req[r].row, at)
    OBVIOUS
  <2>4. /\ row.attempt_count = db[j].attempt_count
        /\ row.max_attempts = db[j].max_attempts + 1
        /\ row.status = "pending"
    BY <1>b, <2>1, <2>3, ObjectWrites, LimitWrites DEF Retryable
  <2>5. State(j) = "failed"
    BY <2>1 DEF State, ClientState
  <2>6. Reopened(j)
    BY <1>a, <1>t, <2>2, <2>3, <2>4, <2>5, OneRow DEF Reopened, ClientState
  <2>7. /\ req'[r].pc \notin {"retry", "cancel"}
        /\ \A s \in Requests : s # r => req'[s] = req[s]
    BY <1>7, <1>f DEF RetryCommit
  <2>8. RetryLimit' /\ CancelKnown'
    BY <1>d, <1>i, <2>1, <2>2, <2>3, <2>4, <2>7
  <2> QED BY <2>6, <2>8 DEF RequestEffects
<1> QED BY <1>0, <1>1, <1>2, <1>3, <1>4, <1>5, <1>6, <1>7

(* A worker that executes a job: what it has in hand.                      *)
LEMMA RunnerFacts ==
  ASSUME LimitInv, NEW w \in Workers, task[w].pc = "running"
  PROVE  /\ task[w].job \in Jobs
         /\ Runs(w, task[w].job)
         /\ db[task[w].job] \in Row
         /\ Memory(w) \in Row
         /\ Memory(w).status = "processing"
         /\ task[w].row.attempt_count = db[task[w].job].attempt_count
         /\ task[w].row.max_attempts = db[task[w].job].max_attempts
         /\ \A v \in Workers : Runs(v, task[w].job) => v = w
<1>1. TypeOK /\ RunningLoaded /\ ExclusiveInv /\ RunnersCurrent
  BY DEF LimitInv, ExclusiveInv, OwnershipInv, Ownership
<1>2. task[w].job \in Jobs /\ Runs(w, task[w].job) /\ db[task[w].job] \in Row
  BY <1>1 DEF TypeOK, Runs
<1>3. Memory(w) \in Row /\ Memory(w).status = "processing"
  BY <1>1, MemoryRow DEF RunningLoaded
<1>4. /\ task[w].row.attempt_count = db[task[w].job].attempt_count
      /\ task[w].row.max_attempts = db[task[w].job].max_attempts
  BY <1>1, <1>2 DEF RunnersCurrent, RunsLimit, LimitInv
<1>5. \A v \in Workers : Runs(v, task[w].job) => v = w
  BY <1>1, <1>2, RunnerAlone
<1> QED BY <1>2, <1>3, <1>4, <1>5

(* The commit of an outcome, whichever it is.                              *)
LEMMA FinalizeEffect ==
  ASSUME LimitInv, NEW w \in Workers, task[w].pc = "running",
         NEW row, NEW pc, pc # "running", Finalize(w, row, pc),
         NEW s \in Outcome, ClientState(row) = s,
         row.attempt_count = db[task[w].job].attempt_count,
         row.max_attempts = db[task[w].job].max_attempts,
         s = "completed" =>
           row.progress_pct = Written(db[task[w].job].progress_pct, Memory(w).progress_pct, 100),
         s = "waiting" => should_retry(task[w].row)
  PROVE  WorkerEffects
<1>1. PICK j \in Jobs : j = task[w].job
  BY RunnerFacts
<1>2. TypeOK
  BY DEF LimitInv, ExclusiveInv, OwnershipInv
<1>3. db'[j] = row /\ State(j)' = s /\ RowsKeptBut(j)
  BY <1>1, <1>2, OneRow DEF Finalize
<1>4. /\ task'[w].pc # "running" /\ reports'[w] = 0
      /\ \A v \in Workers : v # w => task'[v] = task[v] /\ reports'[v] = reports[v]
      /\ proc' = proc
  BY <1>2 DEF Finalize, TypeOK, Task
<1>5. RunsKeptBut(w)
  BY <1>4 DEF RunsKeptBut, RunKept, Dead
<1>6. s = "waiting" => db[j].attempt_count < db[j].max_attempts
  BY <1>1, RunnerFacts DEF should_retry
<1>7. Runs(w, j) /\ \A v \in Workers : Runs(v, j) => v = w
  BY <1>1, RunnerFacts
<1>8. Ended(w, j, s)
  BY <1>1, <1>3, <1>4, <1>5, <1>6, <1>7 DEF Ended
<1> QED BY <1>8 DEF WorkerEffects

(* What a step of a worker's executor loop does.                           *)
LEMMA WorkerEffect ==
  ASSUME LimitInv, NEW w \in Workers, Worker(w)
  PROVE  Quiet \/ WorkerEffects
<1>t. TypeOK /\ RunnersCurrent
  BY DEF LimitInv, ExclusiveInv, OwnershipInv
<1>a. ASSUME UNCHANGED <<db, reports>>, Dead' = Dead,
             task[w].pc # "running", task'[w].pc # "running",
             \A v \in Workers : v # w => task'[v] = task[v]
      PROVE  Quiet
  BY <1>a DEF Quiet, RunsKept, RunKept, RowKept, State
<1>b. UNCHANGED proc => Dead' = Dead
  BY DEF Dead
<1>1. ASSUME NEW j \in Jobs, Dequeue(w, j) PROVE Quiet
  <2>1. /\ task[w].pc # "running" /\ task'[w].pc # "running"
        /\ \A v \in Workers : v # w => task'[v] = task[v]
    BY <1>1, <1>t DEF Dequeue, TypeOK
  <2> QED BY <1>1, <1>a, <1>b, <2>1 DEF Dequeue
<1>2. CASE Claim(w)
  <2>0. PICK j \in Jobs : j = task[w].job
    BY <1>2, <1>t DEF Claim, TypeOK
  <2>1. PICK row : row = ClaimSet(db[j], w)
    OBVIOUS
  <2>2. /\ db[j] \in Row /\ db[j].status = "pending"
        /\ db' = [db EXCEPT ![j] = row]
        /\ task' = [task EXCEPT ![w].pc = "running", ![w].row = row]
        /\ UNCHANGED <<reports, proc>>
        /\ task[w].pc = "popped"
    BY <1>2, <1>t, <2>0, <2>1 DEF Claim, ClaimWhere, Ready, TypeOK
  <2>3. /\ row.status = "processing" /\ row.attempt_count = db[j].attempt_count + 1
        /\ row.max_attempts = db[j].max_attempts /\ row.progress_pct = db[j].progress_pct
    BY <2>1, <2>2 DEF ClaimSet, Row
  <2>4. /\ task'[w].pc = "running" /\ task'[w].job = j /\ task'[w].row = row
        /\ \A v \in Workers : v # w => task'[v] = task[v]
    BY <1>t, <2>0, <2>2 DEF TypeOK, Task
  <2>5. db'[j] = row /\ State(j)' = ClientState(row) /\ RowsKeptBut(j)
    BY <1>t, <2>2, OneRow
  <2>6. State(j) = "waiting" /\ ClientState(row) = "processing"
    BY <2>2, <2>3 DEF State, ClientState
  <2>7. \A v \in Workers : ~ Runs(v, j)
    BY <1>t, <2>2, NotRun
  <2>8. RunsKeptBut(w) /\ reports'[w] = reports[w]
    BY <1>b, <2>2, <2>4 DEF RunsKeptBut, RunKept
  <2>9. Runs(w, j)'
    BY <2>4 DEF Runs
  <2>10. Began(w, j)
    BY <2>2, <2>3, <2>4, <2>5, <2>6, <2>7, <2>8, <2>9 DEF Began
  <2> QED BY <2>10 DEF WorkerEffects
<1>3. CASE ClaimSkipped(w)
  <2>1. /\ task[w].pc # "running" /\ task'[w].pc # "running"
        /\ \A v \in Workers : v # w => task'[v] = task[v]
    BY <1>3, <1>t DEF ClaimSkipped, IdleTask, TypeOK
  <2> QED BY <1>3, <1>a, <1>b, <2>1 DEF ClaimSkipped
<1>4. CASE FinishCompleted(w)
  <2>1. PICK row : row = Complete(db[task[w].job], Memory(w))
    OBVIOUS
  <2>2. task[w].pc = "running" /\ Finalize(w, row, "release")
    BY <1>4, <2>1 DEF FinishCompleted
  <2>3. /\ row.status = "completed" /\ row.attempt_count = db[task[w].job].attempt_count
        /\ row.max_attempts = db[task[w].job].max_attempts
        /\ row.progress_pct = Written(db[task[w].job].progress_pct, Memory(w).progress_pct, 100)
    BY <2>1, <2>2, RunnerFacts, ObjectWrites, LimitWrites, PercentWrites
  <2>4. ClientState(row) = "completed" /\ "completed" \in Outcome
    BY <2>3 DEF ClientState, Outcome
  <2> QED BY <2>2, <2>3, <2>4, FinalizeEffect
<1>5. CASE FinishRetry(w)
  <2>1. PICK row : row = RetryLater(db[task[w].job], Memory(w))
    OBVIOUS
  <2>2. task[w].pc = "running" /\ should_retry(task[w].row) /\ Finalize(w, row, "release")
    BY <1>5, <2>1 DEF FinishRetry
  <2>3. /\ row.status = "pending" /\ row.attempt_count = db[task[w].job].attempt_count
        /\ row.max_attempts = db[task[w].job].max_attempts
    BY <2>1, <2>2, RunnerFacts, ObjectWrites, LimitWrites
  <2>4. ClientState(row) = "waiting" /\ "waiting" \in Outcome
    BY <2>3 DEF ClientState, Outcome
  <2> QED BY <2>2, <2>3, <2>4, FinalizeEffect
<1>6. CASE FinishFailed(w)
  <2>1. PICK row : row = FailPermanently(db[task[w].job], Memory(w))
    OBVIOUS
  <2>2. task[w].pc = "running" /\ Finalize(w, row, "dead_letter")
    BY <1>6, <2>1 DEF FinishFailed
  <2>3. /\ row.status = "failed" /\ row.attempt_count = db[task[w].job].attempt_count
        /\ row.max_attempts = db[task[w].job].max_attempts
    BY <2>1, <2>2, RunnerFacts, ObjectWrites, LimitWrites
  <2>4. ClientState(row) = "failed" /\ "failed" \in Outcome
    BY <2>3 DEF ClientState, Outcome
  <2> QED BY <2>2, <2>3, <2>4, FinalizeEffect
<1>7. CASE DeadLetter(w)
  <2>1. /\ task[w].pc # "running" /\ task'[w].pc # "running"
        /\ \A v \in Workers : v # w => task'[v] = task[v]
    BY <1>7, <1>t DEF DeadLetter, TypeOK, Task
  <2> QED BY <1>7, <1>a, <1>b, <2>1 DEF DeadLetter
<1>8. CASE Release(w)
  <2>1. /\ task[w].pc # "running" /\ task'[w].pc # "running"
        /\ \A v \in Workers : v # w => task'[v] = task[v]
    BY <1>8, <1>t DEF Release, IdleTask, TypeOK
  <2> QED BY <1>8, <1>a, <1>b, <2>1 DEF Release
<1>9. CASE Exit(w)
  <2>1. Dead' = Dead
    BY <1>9, <1>t DEF Exit, Dead, TypeOK
  <2> QED BY <1>9, <1>a, <2>1 DEF Exit
<1>10. CASE Report(w)
  <2>0. PICK j \in Jobs : j = task[w].job
    BY <1>10, <1>t DEF Report, TypeOK
  <2>1. PICK row : row = ReportProgress(db[j], Memory(w), Percent(reports[w] + 1))
    OBVIOUS
  <2>2. /\ task[w].pc = "running" /\ reports[w] < TotalReports
        /\ db' = [db EXCEPT ![j] = row]
        /\ reports' = [reports EXCEPT ![w] = @ + 1]
        /\ UNCHANGED <<task, proc>>
    BY <1>10, <2>0, <2>1 DEF Report
  <2>3. /\ row.status = db[j].status /\ row.attempt_count = db[j].attempt_count
        /\ row.max_attempts = db[j].max_attempts
        /\ row.progress_pct = Written(db[j].progress_pct, Memory(w).progress_pct,
                                      Clamp(Percent(reports[w] + 1)))
    BY <2>0, <2>1, <2>2, RunnerFacts, ProgressWrites, PercentWrites
  <2>4. db'[j] = row /\ State(j)' = ClientState(row) /\ RowsKeptBut(j)
    BY <1>t, <2>2, OneRow
  <2>5. ClientState(row) = State(j)
    BY <2>3 DEF ClientState, State
  <2>6. reports'[w] = reports[w] + 1 /\ \A v \in Workers : v # w => reports'[v] = reports[v]
    BY <1>t, <2>2 DEF TypeOK
  <2>7. RunsKeptBut(w)
    BY <1>b, <2>2, <2>6 DEF RunsKeptBut, RunKept
  <2>8. Runs(w, j)
    BY <2>0, <2>2 DEF Runs
  <2>9. Reported(w, j)
    BY <2>2, <2>3, <2>4, <2>5, <2>6, <2>7, <2>8 DEF Reported
  <2> QED BY <2>9 DEF WorkerEffects
<1> QED
  BY <1>1, <1>2, <1>3, <1>4, <1>5, <1>6, <1>7, <1>8, <1>9, <1>10 DEF Worker, ExecutorStep

(* What the heartbeat, the maintenance loops and the passing of time do:   *)
(* the reaper takes a job back, the rest is not seen.                      *)
LEMMA BackgroundEffect ==
  ASSUME LimitInv,
         \/ \E w \in Workers : Heartbeat(w)
         \/ Feeder \/ Reaper \/ Scheduler
         \/ \E j \in Jobs : Tick(j)
  PROVE  Quiet \/ OtherEffects
<1>t. TypeOK /\ RunnersCurrent
  BY DEF LimitInv, ExclusiveInv, OwnershipInv
<1>a. RunsKept
  <2>1. UNCHANGED <<task, reports, proc>>
    BY DEF Heartbeat, HeartbeatStep, HeartbeatRead, RenewLease, ClearHolder, Feeder, Reaper,
           Scheduler, Tick, ScheduleDue, BackoffOver, LeaseExpires, LeaseOver, Elapse, workerVars
  <2> QED BY <2>1 DEF RunsKept, RunKept, Dead
<1>b. ASSUME UNCHANGED db PROVE Quiet
  BY <1>a, <1>b DEF Quiet, RowKept, State
<1>c. ASSUME NEW j \in Jobs, NEW row, db' = [db EXCEPT ![j] = row],
             ClientState(row) = State(j),
             row.attempt_count = db[j].attempt_count,
             row.max_attempts = db[j].max_attempts,
             row.progress_pct = db[j].progress_pct
      PROVE  Quiet
  <2>1. db'[j] = row /\ State(j)' = ClientState(row) /\ RowsKeptBut(j)
    BY <1>c, <1>t, OneRow
  <2>2. RowKept(j)
    BY <1>c, <2>1 DEF RowKept
  <2> QED BY <1>a, <2>1, <2>2 DEF Quiet, RowsKeptBut
<1>d. \A j \in Jobs : db[j] \in Row
  BY <1>t DEF TypeOK
<1>1. ASSUME NEW w \in Workers, Heartbeat(w) PROVE Quiet
  <2>1. CASE RenewLease(w) /\ RenewWhere(db[beat[w].job], w)
    <3>0. PICK j \in Jobs : j = beat[w].job
      BY <1>t, <2>1 DEF RenewLease, TypeOK
    <3>1. PICK row : row = RenewSet(db[j])
      OBVIOUS
    <3>2. /\ row.status = db[j].status
          /\ row.attempt_count = db[j].attempt_count
          /\ row.max_attempts = db[j].max_attempts
          /\ row.progress_pct = db[j].progress_pct
      BY <1>d, <3>1 DEF RenewSet, Row
    <3>3. db' = [db EXCEPT ![j] = row]
      BY <2>1, <3>0, <3>1 DEF RenewLease
    <3>4. ClientState(row) = State(j)
      BY <3>2 DEF State, ClientState
    <3> QED BY <1>c, <3>2, <3>3, <3>4
  <2> QED BY <1>1, <1>b, <2>1 DEF Heartbeat, HeartbeatStep, HeartbeatRead, RenewLease, ClearHolder
<1>2. ASSUME NEW j \in Jobs, ReapWhere(db[j]), db' = [db EXCEPT ![j] = ReapSet(@)]
      PROVE  OtherEffects
  <2>1. PICK row : row = ReapSet(db[j])
    OBVIOUS
  <2>2. /\ row.status = "pending"
        /\ row.attempt_count = db[j].attempt_count
        /\ row.max_attempts = db[j].max_attempts
        /\ row.progress_pct = db[j].progress_pct
    BY <1>d, <2>1 DEF ReapSet, Row
  <2>3. db'[j] = row /\ State(j)' = ClientState(row) /\ RowsKeptBut(j)
    BY <1>2, <1>t, <2>1, OneRow
  <2>4. State(j) = "processing" /\ ClientState(row) = "waiting"
    BY <1>2, <2>2 DEF ReapWhere, State, ClientState
  <2>5. \A v \in Workers : ~ Runs(v, j)
    BY <1>2, <1>t DEF ReapWhere, RunnersCurrent
  <2>6. Recovered(j)
    BY <1>a, <2>2, <2>3, <2>4, <2>5 DEF Recovered
  <2> QED BY <2>6 DEF OtherEffects
<1>3. ASSUME NEW j \in Jobs, PromoteWhere(db[j]), db' = [db EXCEPT ![j] = PromoteSet(@)]
      PROVE  Quiet
  <2>1. PICK row : row = PromoteSet(db[j])
    OBVIOUS
  <2>2. /\ row.status = "pending"
        /\ row.attempt_count = db[j].attempt_count
        /\ row.max_attempts = db[j].max_attempts
        /\ row.progress_pct = db[j].progress_pct
    BY <1>d, <2>1 DEF PromoteSet, Row
  <2>3. ClientState(row) = State(j)
    BY <1>3, <2>2 DEF PromoteWhere, State, ClientState
  <2> QED BY <1>3, <1>c, <2>1, <2>2, <2>3
<1>4. ASSUME Feeder \/ Reaper \/ Scheduler
      PROVE \/ UNCHANGED db
            \/ \E j \in Jobs : \/ ReapWhere(db[j]) /\ db' = [db EXCEPT ![j] = ReapSet(@)]
                               \/ PromoteWhere(db[j]) /\ db' = [db EXCEPT ![j] = PromoteSet(@)]
  BY <1>4 DEF Feeder, Reaper, Scheduler, FeederStep, ReaperStep, SchedulerStep, FeederSelect,
     FeederEnqueue, ReaperSelect, Reap, SchedulerReadRedis, SchedulerReadDb, Promote,
     SchedulerDrop, SchedulerMove, SchedulerEnqueue
<1>5. ASSUME NEW j \in Jobs, Tick(j) PROVE Quiet
  <2>1. \E row : /\ db' = [db EXCEPT ![j] = row]
                 /\ row.status = db[j].status
                 /\ row.attempt_count = db[j].attempt_count
                 /\ row.max_attempts = db[j].max_attempts
                 /\ row.progress_pct = db[j].progress_pct
    <3>1. CASE ScheduleDue(j)
      <4> DEFINE row == [db[j] EXCEPT !.scheduled_at = "past",
                                      !.next_run_at = IF @ = "future" THEN "past" ELSE @]
      <4>1. db' = [db EXCEPT ![j] = row]
        BY <3>1 DEF ScheduleDue, Elapse
      <4>2. /\ row.status = db[j].status /\ row.attempt_count = db[j].attempt_count
            /\ row.max_attempts = db[j].max_attempts /\ row.progress_pct = db[j].progress_pct
        BY <1>d DEF Row
      <4> HIDE DEF row
      <4> QED BY <4>1, <4>2
    <3>2. CASE BackoffOver(j)
      <4> DEFINE row == [db[j] EXCEPT !.next_run_at = "past"]
      <4>1. db' = [db EXCEPT ![j] = row]
        BY <3>2 DEF BackoffOver, Elapse
      <4>2. /\ row.status = db[j].status /\ row.attempt_count = db[j].attempt_count
            /\ row.max_attempts = db[j].max_attempts /\ row.progress_pct = db[j].progress_pct
        BY <1>d DEF Row
      <4> HIDE DEF row
      <4> QED BY <4>1, <4>2
    <3>3. CASE LeaseExpires(j)
      <4> DEFINE row == [db[j] EXCEPT !.leased_until = "past"]
      <4>1. db' = [db EXCEPT ![j] = row]
        BY <3>3 DEF LeaseExpires, LeaseOver, Elapse
      <4>2. /\ row.status = db[j].status /\ row.attempt_count = db[j].attempt_count
            /\ row.max_attempts = db[j].max_attempts /\ row.progress_pct = db[j].progress_pct
        BY <1>d DEF Row
      <4> HIDE DEF row
      <4> QED BY <4>1, <4>2
    <3> QED BY <1>5, <3>1, <3>2, <3>3 DEF Tick
  <2>2. PICK row : /\ db' = [db EXCEPT ![j] = row]
                   /\ row.status = db[j].status
                   /\ row.attempt_count = db[j].attempt_count
                   /\ row.max_attempts = db[j].max_attempts
                   /\ row.progress_pct = db[j].progress_pct
    BY <2>1
  <2>3. ClientState(row) = State(j)
    BY <2>2 DEF State, ClientState
  <2> QED BY <1>c, <2>2, <2>3
<1> QED BY <1>b, <1>1, <1>2, <1>3, <1>4, <1>5

(* What the failures do, stalls excluded: a worker dies, the rest is not   *)
(* seen.                                                                   *)
LEMMA FailureEffect ==
  ASSUME LimitInv, NoStall, Failures
  PROVE  Quiet \/ OtherEffects
<1>t. TypeOK
  BY DEF LimitInv, ExclusiveInv, OwnershipInv
<1>a. UNCHANGED <<db, task, reports>> /\ Dead' = Dead => Quiet
  BY DEF Quiet, RunsKept, RunKept, RowKept, State
<1>1. ASSUME NEW w \in Workers, WorkerCrash(w) PROVE OtherEffects
  <2>1. /\ UNCHANGED db /\ task'[w].pc # "running" /\ reports'[w] = 0
        /\ \A v \in Workers : v # w => task'[v] = task[v] /\ reports'[v] = reports[v]
    BY <1>1, <1>t DEF WorkerCrash, Crash, IdleTask, TypeOK
  <2>2. w \notin Dead /\ Dead' = Dead \cup {w}
    BY <1>1, <1>t DEF WorkerCrash, Crash, Alive, Dead, TypeOK
  <2>3. Killed(w)
    BY <2>1, <2>2 DEF Killed, RowKept, RunKept, State
  <2> QED BY <2>3 DEF OtherEffects
<1>2. ASSUME NEW w \in Workers, WorkerStop(w) PROVE Quiet
  <2>1. Dead' = Dead
    BY <1>2, <1>t DEF WorkerStop, Stop, Dead, TypeOK
  <2> QED BY <1>2, <1>a, <2>1 DEF WorkerStop, Stop
<1>3. ASSUME NEW j \in Jobs, WorkerStall(j) PROVE FALSE
  BY <1>3 DEF WorkerStall, Fault, NoStall
<1>4. ASSUME (\E r \in Requests : RequestFails(r)) \/ RedisRestart \/ MaintenanceFails PROVE Quiet
  <2>1. UNCHANGED <<db, task, reports, proc>>
    BY <1>4 DEF RequestFails, Drop, RedisRestart, MaintenanceFails, MaintenanceRestart, workerVars
  <2> QED BY <1>a, <2>1 DEF Dead
<1> QED BY <1>1, <1>2, <1>3, <1>4 DEF Failures

(* Every step of the system is one of the nine, or none.                   *)
LEMMA StepEffects ==
  ASSUME NoStall, NoOverlap, LimitInv, [Next]_vars
  PROVE  Effects
<1>1. CASE UNCHANGED vars
  BY <1>1, WorkersKept DEF vars, Effects, Quiet, RowKept, State
<1>2. CASE Next
  BY <1>2, RequestEffect, WorkerEffect, BackgroundEffect, FailureEffect DEF Next, Effects
<1> QED BY <1>1, <1>2

-------------------------------------------------------------------------------
(* Only requests change limits and bring jobs into the table.              *)
LEMMA LimitsStand ==
  ASSUME Quiet \/ WorkerEffects \/ OtherEffects, NEW i \in Jobs
  PROVE  db'[i].max_attempts = db[i].max_attempts /\ (Exists(i) => Exists(i)')
<1>0. ASSUME State(i)' # "absent" \/ State(i) = "absent" PROVE Exists(i) => Exists(i)'
  BY <1>0 DEF State, ClientState, Exists
<1>a. ASSUME RowKept(i) PROVE db'[i].max_attempts = db[i].max_attempts /\ (Exists(i) => Exists(i)')
  BY <1>0, <1>a DEF RowKept
<1>1. CASE Quiet
  BY <1>1, <1>a DEF Quiet
<1>2. CASE WorkerEffects
  <2>1. PICK w \in Workers, j \in Jobs :
          Began(w, j) \/ Reported(w, j) \/ \E s \in Outcome : Ended(w, j, s)
    BY <1>2 DEF WorkerEffects
  <2>2. CASE i # j
    BY <1>a, <2>1, <2>2 DEF Began, Reported, Ended, RowsKeptBut
  <2>3. CASE i = j
    <3>1. CASE Began(w, j)
      BY <1>0, <2>3, <3>1 DEF Began
    <3>2. CASE Reported(w, j)
      BY <1>0, <2>3, <3>2 DEF Reported
    <3>3. ASSUME NEW s \in Outcome, Ended(w, j, s)
          PROVE  db'[i].max_attempts = db[i].max_attempts /\ (Exists(i) => Exists(i)')
      BY <1>0, <2>3, <3>3 DEF Ended, Outcome
    <3> QED BY <2>1, <3>1, <3>2, <3>3
  <2> QED BY <2>2, <2>3
<1>3. ASSUME NEW w \in Workers, Killed(w)
      PROVE  db'[i].max_attempts = db[i].max_attempts /\ (Exists(i) => Exists(i)')
  BY <1>3, <1>a DEF Killed
<1>4. ASSUME NEW j \in Jobs, Recovered(j)
      PROVE  db'[i].max_attempts = db[i].max_attempts /\ (Exists(i) => Exists(i)')
  <2>1. CASE i # j
    BY <1>4, <1>a, <2>1 DEF Recovered, RowsKeptBut
  <2>2. CASE i = j
    BY <1>4, <1>0, <2>2 DEF Recovered
  <2> QED BY <2>1, <2>2
<1> QED BY <1>1, <1>2, <1>3, <1>4 DEF OtherEffects

(* A run that goes on was going on, as the same attempt.                   *)
LEMMA RunGoesOn ==
  ASSUME NEW w \in Workers, NEW j \in Jobs, RunKept(w)
  PROVE  /\ Runs(w, j)' => Runs(w, j) /\ task'[w] = task[w] /\ reports'[w] = reports[w]
         /\ Runs(w, j) => Runs(w, j)' /\ task'[w] = task[w] /\ reports'[w] = reports[w]
BY DEF RunKept, Runs

(* The limit a worker has in memory stays the current one.                 *)
LEMMA RunsLimitKept ==
  ASSUME LimitInv, Effects
  PROVE  RunsLimit'
<1> SUFFICES ASSUME NEW v \in Workers, NEW i \in Jobs, Runs(v, i)'
             PROVE  task'[v].row.max_attempts = db'[i].max_attempts
  BY DEF RunsLimit
<1>t. RunsLimit /\ RunnersCurrent
  BY DEF LimitInv, ExclusiveInv
<1>a. ASSUME RunKept(v), db'[i].max_attempts = db[i].max_attempts
      PROVE  task'[v].row.max_attempts = db'[i].max_attempts
  BY <1>a, <1>t, RunGoesOn DEF RunsLimit
<1>1. CASE Quiet
  BY <1>1, <1>a DEF Quiet, RowKept, RunsKept
<1>2. ASSUME NEW j \in Jobs, Entered(j) \/ Withdrawn(j) \/ Reopened(j)
      PROVE  task'[v].row.max_attempts = db'[i].max_attempts
  <2>1. RunKept(v) /\ RowsKeptBut(j)
    BY <1>2 DEF Entered, Withdrawn, Reopened, RunsKept
  <2>2. CASE i # j
    BY <1>a, <2>1, <2>2 DEF RowsKeptBut, RowKept
  <2>3. CASE i = j /\ Withdrawn(j)
    BY <1>a, <2>1, <2>3 DEF Withdrawn
  <2>4. CASE i = j /\ (Entered(j) \/ Reopened(j))
    <3>1. Runs(v, j)
      BY <2>1, <2>4, RunGoesOn
    <3>2. db[j].status \notin {"processing", "cancelled"}
      BY <2>4 DEF Entered, Reopened, State, ClientState
    <3> QED BY <1>t, <3>1, <3>2, NotRun
  <2> QED BY <1>2, <2>2, <2>3, <2>4
<1>3. CASE WorkerEffects
  <2>1. PICK w \in Workers, j \in Jobs :
          Began(w, j) \/ Reported(w, j) \/ \E s \in Outcome : Ended(w, j, s)
    BY <1>3 DEF WorkerEffects
  <2>2. db'[i].max_attempts = db[i].max_attempts
    BY <1>3, LimitsStand
  <2>3. CASE v # w
    BY <1>a, <2>1, <2>2, <2>3 DEF Began, Reported, Ended, RunsKeptBut
  <2>4. CASE v = w /\ Began(w, j)
    BY <2>2, <2>4 DEF Began, Runs
  <2>5. CASE v = w /\ Reported(w, j)
    <3>1. task'[v] = task[v] /\ Runs(v, i)
      BY <2>5 DEF Reported, Runs
    <3> QED BY <1>t, <2>2, <3>1 DEF RunsLimit
  <2>6. CASE v = w /\ \E s \in Outcome : Ended(w, j, s)
    BY <2>6 DEF Ended, Runs
  <2> QED BY <2>1, <2>3, <2>4, <2>5, <2>6
<1>4. ASSUME NEW w \in Workers, Killed(w)
      PROVE  task'[v].row.max_attempts = db'[i].max_attempts
  BY <1>4, <1>a DEF Killed, RowKept, Runs
<1>5. ASSUME NEW j \in Jobs, Recovered(j)
      PROVE  task'[v].row.max_attempts = db'[i].max_attempts
  <2>1. db'[i].max_attempts = db[i].max_attempts
    BY <1>5, LimitsStand DEF OtherEffects
  <2> QED BY <1>5, <1>a, <2>1 DEF Recovered, RunsKept
<1> QED BY <1>1, <1>2, <1>3, <1>4, <1>5 DEF Effects, RequestEffects, OtherEffects

(* A step other than a request's leaves what requests have loaded.         *)
LEMMA LoadedKept ==
  ASSUME LimitInv, Quiet \/ WorkerEffects \/ OtherEffects,
         \A r \in Requests : req'[r] = req[r] \/ req'[r].pc = "idle"
  PROVE  RetryLimit' /\ CancelKnown'
<1>1. ASSUME NEW r \in Requests, NEW j \in Jobs, At(r, "retry", j)'
      PROVE  req'[r].row.max_attempts = db'[j].max_attempts
  <2>1. req'[r] = req[r] /\ At(r, "retry", j)
    BY <1>1 DEF At
  <2> QED BY <2>1, LimitsStand DEF LimitInv, RetryLimit
<1>2. ASSUME NEW r \in Requests, NEW j \in Jobs, At(r, "cancel", j)'
      PROVE  Exists(j)'
  <2>1. At(r, "cancel", j)
    BY <1>2 DEF At
  <2> QED BY <2>1, LimitsStand DEF LimitInv, CancelKnown
<1> QED BY <1>1, <1>2 DEF RetryLimit, CancelKnown

(* LimitInv is inductive on the two conditions.                            *)
LEMMA LimitInductive ==
  ASSUME NoStall, NoOverlap, LimitInv, [Next]_vars
  PROVE  LimitInv'
<1>1. ExclusiveInv'
  BY ExclusiveInductive DEF LimitInv
<1>2. RunsLimit'
  BY StepEffects, RunsLimitKept
<1>3. RetryLimit' /\ CancelKnown'
  <2>1. ASSUME NEW r \in Requests, Request(r) PROVE RetryLimit' /\ CancelKnown'
    BY <2>1, RequestEffect
  <2>2. ASSUME NEW w \in Workers, Worker(w) PROVE RetryLimit' /\ CancelKnown'
    BY <2>2, WorkerEffect, LoadedKept DEF Worker, Others, apiVars
  <2>3. ASSUME \/ \E w \in Workers : Heartbeat(w)
               \/ Feeder \/ Reaper \/ Scheduler
               \/ \E j \in Jobs : Tick(j)
        PROVE  RetryLimit' /\ CancelKnown'
    <3>1. UNCHANGED req
      BY <2>3 DEF Heartbeat, Others, Feeder, Reaper, Scheduler, Tick, ScheduleDue, BackoffOver,
                  LeaseExpires, LeaseOver, Elapse, apiVars
    <3> QED BY <2>3, <3>1, BackgroundEffect, LoadedKept
  <2>4. CASE Failures
    <3>0. req \in [Requests -> Req]
      BY DEF LimitInv, ExclusiveInv, OwnershipInv, TypeOK
    <3>1. ASSUME NEW r \in Requests, RequestFails(r)
          PROVE  \A s \in Requests : req'[s] = req[s] \/ req'[s].pc = "idle"
      BY <3>0, <3>1 DEF RequestFails, Drop, Answer, IdleReq
    <3>2. (\E r \in Requests : RequestFails(r)) \/ UNCHANGED req
      BY <2>4 DEF Failures, WorkerCrash, WorkerStop, WorkerStall, Stall, LeaseOver, Elapse,
                  RedisRestart, MaintenanceFails, apiVars
    <3>3. \A s \in Requests : req'[s] = req[s] \/ req'[s].pc = "idle"
      BY <3>1, <3>2
    <3> QED BY <2>4, <3>3, FailureEffect, LoadedKept
  <2>5. CASE UNCHANGED vars
    BY <2>5 DEF vars, apiVars, LimitInv, RetryLimit, CancelKnown, At, Exists
  <2> QED BY <2>1, <2>2, <2>3, <2>4, <2>5 DEF Next
<1> QED BY <1>1, <1>2, <1>3 DEF LimitInv

(* And it holds initially.                                                 *)
LEMMA InitLimit == Init => LimitInv
<1>1. Init => ExclusiveInv
  BY InitType, InitOwnership, InitExclusive DEF ExclusiveInv, OwnershipInv
<1>2. Init => RunsLimit /\ RetryLimit /\ CancelKnown
  BY DEF Init, WorkerInit, ApiInit, IdleTask, IdleReq, RunsLimit, RetryLimit, CancelKnown, Runs, At
<1> QED BY <1>1, <1>2 DEF LimitInv

-------------------------------------------------------------------------------
(***************************************************************************)
(* The refinement.  The variables of JobLifecycle, as JobRefinement maps   *)
(* them, and what one changed row or one changed run makes of them.        *)
(***************************************************************************)

LifeState == [i \in Jobs |-> ClientState(db[i])]
LifeAttempts == [i \in Jobs |-> db[i].attempt_count]
LifeLimit == [i \in Jobs |-> db[i].max_attempts]
LifeExecutor == [i \in Jobs |-> {w \in Workers : Runs(w, i)}]

(* One changed row changes the state, attempts and limit of one job.       *)
LEMMA LifeRows ==
  ASSUME NEW j \in Jobs, RowsKeptBut(j)
  PROVE  /\ LifeState' = [LifeState EXCEPT ![j] = State(j)']
         /\ LifeAttempts' = [LifeAttempts EXCEPT ![j] = db'[j].attempt_count]
         /\ LifeLimit' = [LifeLimit EXCEPT ![j] = db'[j].max_attempts]
<1>1. \A i \in Jobs : i # j => /\ ClientState(db[i])' = ClientState(db[i])
                               /\ db'[i].attempt_count = db[i].attempt_count
                               /\ db'[i].max_attempts = db[i].max_attempts
  BY DEF RowsKeptBut, RowKept, State
<1>2. LifeState' = [LifeState EXCEPT ![j] = State(j)']
  BY <1>1 DEF LifeState, State
<1>3. LifeAttempts' = [LifeAttempts EXCEPT ![j] = db'[j].attempt_count]
  BY <1>1 DEF LifeAttempts
<1>4. LifeLimit' = [LifeLimit EXCEPT ![j] = db'[j].max_attempts]
  BY <1>1 DEF LifeLimit
<1> QED BY <1>2, <1>3, <1>4

(* A column that is left alone changes nothing.                            *)
LEMMA LifeKept ==
  ASSUME NEW j \in Jobs
  PROVE  /\ db'[j].attempt_count = db[j].attempt_count =>
              [LifeAttempts EXCEPT ![j] = db'[j].attempt_count] = LifeAttempts
         /\ db'[j].max_attempts = db[j].max_attempts =>
              [LifeLimit EXCEPT ![j] = db'[j].max_attempts] = LifeLimit
BY DEF LifeAttempts, LifeLimit

(* Runs that go on leave the executors alone.                              *)
LEMMA LifeRunsKept ==
  ASSUME \A v \in Workers : RunKept(v)
  PROVE  LifeExecutor' = LifeExecutor
<1>1. \A i \in Jobs : \A v \in Workers : Runs(v, i)' <=> Runs(v, i)
  BY RunGoesOn
<1>2. \A i \in Jobs : {w \in Workers : Runs(w, i)'} = {w \in Workers : Runs(w, i)}
  BY <1>1
<1> QED BY <1>2 DEF LifeExecutor

(* Runs of one job change the executors of that job.                       *)
LEMMA LifeRunOf ==
  ASSUME NEW j \in Jobs, \A i \in Jobs : i # j => \A v \in Workers : Runs(v, i)' <=> Runs(v, i)
  PROVE  LifeExecutor' = [LifeExecutor EXCEPT ![j] = {w \in Workers : Runs(w, j)'}]
<1>1. \A i \in Jobs : i # j => {w \in Workers : Runs(w, i)'} = {w \in Workers : Runs(w, i)}
  OBVIOUS
<1> QED BY <1>1 DEF LifeExecutor

(* The actions of JobLifecycle in terms of these: those of a job ...       *)
LEMMA LifeJobActions ==
  ASSUME NEW j \in Jobs, LifeAttempts' = LifeAttempts, LifeExecutor' = LifeExecutor
  PROVE  /\ /\ State(j) = "absent"
            /\ LifeState' = [LifeState EXCEPT ![j] = "waiting"]
            /\ LifeLimit' = [LifeLimit EXCEPT ![j] = DefaultMaxAttempts]
            => Life!Submit(j)
         /\ /\ State(j) # "absent"
            /\ LifeState' = [LifeState EXCEPT ![j] = "cancelled"]
            /\ LifeLimit' = LifeLimit
            => Life!Cancel(j)
         /\ /\ State(j) = "failed"
            /\ LifeState' = [LifeState EXCEPT ![j] = "waiting"]
            /\ LifeLimit' = [LifeLimit EXCEPT ![j] = db[j].max_attempts + 1]
            => Life!Reopen(j)
         /\ /\ State(j) = "processing" /\ \A v \in Workers : ~ Runs(v, j)
            /\ LifeState' = [LifeState EXCEPT ![j] = "waiting"]
            /\ LifeLimit' = LifeLimit
            => Life!Recover(j)
BY DEF LifeState, LifeAttempts, LifeLimit, LifeExecutor, State, Life!Submit, Life!Cancel,
       Life!Reopen, Life!Recover, Life!Becomes

(* ... and those of a worker with it.                                      *)
LEMMA LifeRunActions ==
  ASSUME NEW j \in Jobs, NEW w \in Workers, NEW s, LifeLimit' = LifeLimit
  PROVE  /\ /\ State(j) = "waiting" /\ \A v \in Workers : ~ Runs(v, j)
            /\ LifeState' = [LifeState EXCEPT ![j] = "processing"]
            /\ LifeAttempts' = [LifeAttempts EXCEPT ![j] = db[j].attempt_count + 1]
            /\ LifeExecutor' = [LifeExecutor EXCEPT ![j] = {w}]
            => Life!Start(j, w)
         /\ /\ Runs(w, j)
            /\ s = "waiting" => db[j].attempt_count < db[j].max_attempts
            /\ LifeState' = [LifeState EXCEPT ![j] = s]
            /\ LifeExecutor' = [LifeExecutor EXCEPT ![j] = {}]
            /\ LifeAttempts' = LifeAttempts
            => Life!Finish(j, s)
         /\ /\ Runs(w, j)
            /\ LifeExecutor' = [LifeExecutor EXCEPT ![j] = {}]
            /\ LifeState' = LifeState /\ LifeAttempts' = LifeAttempts
            => Life!Die(j)
BY DEF LifeState, LifeAttempts, LifeLimit, LifeExecutor, State, Life!Start, Life!Finish,
       Life!Die, Life!Becomes

(* Rows that are left alone leave JobLifecycle alone.                      *)
LEMMA LifeRowsKept ==
  ASSUME \A i \in Jobs : RowKept(i)
  PROVE  LifeState' = LifeState /\ LifeAttempts' = LifeAttempts /\ LifeLimit' = LifeLimit
BY DEF RowKept, State, LifeState, LifeAttempts, LifeLimit

(* The stutter of JobLifecycle.                                            *)
LEMMA LifeStutter ==
  ASSUME LifeState' = LifeState, LifeAttempts' = LifeAttempts, LifeLimit' = LifeLimit,
         LifeExecutor' = LifeExecutor
  PROVE  UNCHANGED Life!vars
BY DEF LifeState, LifeAttempts, LifeLimit, LifeExecutor, Life!vars

(* Every effect is a step of JobLifecycle.                                 *)
LEMMA EffectRefines ==
  ASSUME LimitInv, Effects
  PROVE  [Life!Next]_(Life!vars)
<1> USE DEF LimitInv
<1>1. CASE Quiet
  BY <1>1, LifeRowsKept, LifeRunsKept, LifeStutter DEF Quiet, RunsKept
<1>2. ASSUME NEW j \in Jobs, Entered(j) \/ Withdrawn(j) \/ Reopened(j) PROVE Life!Next
  <2>1. /\ RowsKeptBut(j) /\ LifeExecutor' = LifeExecutor
        /\ db'[j].attempt_count = db[j].attempt_count
    BY <1>2, LifeRunsKept DEF Entered, Withdrawn, Reopened, RunsKept
  <2>2. LifeAttempts' = LifeAttempts
    BY <2>1, LifeRows, LifeKept
  <2>3. CASE Entered(j)
    BY <2>1, <2>2, <2>3, LifeRows, LifeJobActions DEF Entered, Life!Next
  <2>4. CASE Withdrawn(j)
    <3>1. LifeLimit' = LifeLimit
      BY <2>1, <2>4, LifeRows, LifeKept DEF Withdrawn
    <3> QED BY <2>1, <2>2, <2>4, <3>1, LifeRows, LifeJobActions DEF Withdrawn, Life!Next
  <2>5. CASE Reopened(j)
    BY <2>1, <2>2, <2>5, LifeRows, LifeJobActions DEF Reopened, Life!Next
  <2> QED BY <1>2, <2>3, <2>4, <2>5
<1>3. ASSUME NEW w \in Workers, NEW j \in Jobs, Began(w, j) PROVE Life!Next
  <2>1. /\ LifeState' = [LifeState EXCEPT ![j] = "processing"]
        /\ LifeAttempts' = [LifeAttempts EXCEPT ![j] = db[j].attempt_count + 1]
        /\ LifeLimit' = LifeLimit
    BY <1>3, LifeRows, LifeKept DEF Began
  <2>2. \A v \in Workers : v # w => \A i \in Jobs : Runs(v, i)' <=> Runs(v, i)
    BY <1>3, RunGoesOn DEF Began, RunsKeptBut
  <2>3. \A i \in Jobs : i # j => ~ Runs(w, i) /\ ~ Runs(w, i)'
    BY <1>3 DEF Began, Runs
  <2>4. LifeExecutor' = [LifeExecutor EXCEPT ![j] = {v \in Workers : Runs(v, j)'}]
    BY <2>2, <2>3, LifeRunOf
  <2>5. {v \in Workers : Runs(v, j)'} = {w}
    BY <1>3, <2>2 DEF Began
  <2>6. Life!Start(j, w)
    BY <1>3, <2>1, <2>4, <2>5, LifeRunActions DEF Began
  <2> QED BY <2>6 DEF Life!Next, Life!Progress
<1>4. ASSUME NEW w \in Workers, NEW j \in Jobs, Reported(w, j) PROVE UNCHANGED Life!vars
  <2>1. /\ LifeState' = LifeState /\ LifeAttempts' = LifeAttempts /\ LifeLimit' = LifeLimit
    BY <1>4, LifeRows, LifeKept DEF Reported, State, LifeState
  <2>2. \A i \in Jobs : \A v \in Workers : Runs(v, i)' <=> Runs(v, i)
    <3>1. ASSUME NEW i \in Jobs, NEW v \in Workers PROVE Runs(v, i)' <=> Runs(v, i)
      <4>1. CASE v = w
        BY <1>4, <4>1 DEF Reported, Runs
      <4>2. CASE v # w
        BY <1>4, <4>2, RunGoesOn DEF Reported, RunsKeptBut
      <4> QED BY <4>1, <4>2
    <3> QED BY <3>1
  <2>3. \A i \in Jobs : {v \in Workers : Runs(v, i)'} = {v \in Workers : Runs(v, i)}
    BY <2>2
  <2>4. LifeExecutor' = LifeExecutor
    BY <2>3 DEF LifeExecutor
  <2> QED BY <2>1, <2>4, LifeStutter
<1>5. ASSUME NEW w \in Workers, NEW j \in Jobs, NEW s \in Outcome, Ended(w, j, s) PROVE Life!Next
  <2>1. /\ LifeState' = [LifeState EXCEPT ![j] = s]
        /\ LifeAttempts' = LifeAttempts /\ LifeLimit' = LifeLimit
    BY <1>5, LifeRows, LifeKept DEF Ended
  <2>2. \A v \in Workers : v # w => \A i \in Jobs : Runs(v, i)' <=> Runs(v, i)
    BY <1>5, RunGoesOn DEF Ended, RunsKeptBut
  <2>3. \A i \in Jobs : ~ Runs(w, i)' /\ (i # j => ~ Runs(w, i))
    BY <1>5 DEF Ended, Runs
  <2>4. LifeExecutor' = [LifeExecutor EXCEPT ![j] = {v \in Workers : Runs(v, j)'}]
    BY <2>2, <2>3, LifeRunOf
  <2>5. {v \in Workers : Runs(v, j)'} = {}
    BY <1>5, <2>2, <2>3 DEF Ended
  <2>6. Life!Finish(j, s)
    BY <1>5, <2>1, <2>4, <2>5, LifeRunActions DEF Ended
  <2> QED BY <2>6 DEF Life!Next, Life!Progress, Outcome
<1>6. ASSUME NEW w \in Workers, Killed(w) PROVE [Life!Next]_(Life!vars)
  <2>1. LifeState' = LifeState /\ LifeAttempts' = LifeAttempts /\ LifeLimit' = LifeLimit
    BY <1>6, LifeRowsKept DEF Killed
  <2>2. \A v \in Workers : v # w => \A i \in Jobs : Runs(v, i)' <=> Runs(v, i)
    BY <1>6, RunGoesOn DEF Killed
  <2>3. \A i \in Jobs : ~ Runs(w, i)'
    BY <1>6 DEF Killed, Runs
  <2>4. CASE \A i \in Jobs : ~ Runs(w, i)
    <3>1. \A i \in Jobs : {v \in Workers : Runs(v, i)'} = {v \in Workers : Runs(v, i)}
      BY <2>2, <2>3, <2>4
    <3>2. LifeExecutor' = LifeExecutor
      BY <3>1 DEF LifeExecutor
    <3> QED BY <2>1, <3>2, LifeStutter
  <2>5. ASSUME NEW j \in Jobs, Runs(w, j) PROVE Life!Next
    <3>1. \A i \in Jobs : i # j => ~ Runs(w, i)
      BY <2>5 DEF Runs
    <3>2. LifeExecutor' = [LifeExecutor EXCEPT ![j] = {v \in Workers : Runs(v, j)'}]
      BY <2>2, <2>3, <3>1, LifeRunOf
    <3>3. \A v \in Workers : Runs(v, j) => v = w
      BY <2>5, RunnerAlone
    <3>4. {v \in Workers : Runs(v, j)'} = {}
      BY <2>2, <2>3, <3>3
    <3>5. Life!Die(j)
      BY <2>1, <2>5, <3>2, <3>4, LifeRunActions
    <3> QED BY <3>5 DEF Life!Next
  <2> QED BY <2>4, <2>5
<1>7. ASSUME NEW j \in Jobs, Recovered(j) PROVE Life!Next
  <2>1. /\ LifeState' = [LifeState EXCEPT ![j] = "waiting"]
        /\ LifeAttempts' = LifeAttempts /\ LifeLimit' = LifeLimit
    BY <1>7, LifeRows, LifeKept DEF Recovered
  <2>2. LifeExecutor' = LifeExecutor
    BY <1>7, LifeRunsKept DEF Recovered, RunsKept
  <2>3. Life!Recover(j)
    BY <1>7, <2>1, <2>2, LifeJobActions DEF Recovered
  <2> QED BY <2>3 DEF Life!Next, Life!Progress
<1> QED
  BY <1>1, <1>2, <1>3, <1>4, <1>5, <1>6, <1>7
     DEF Effects, RequestEffects, WorkerEffects, OtherEffects

(* No row, no run: the initial state is JobLifecycle's.                    *)
LEMMA LifeInit == Init => Life!Init
<1>1. ASSUME Init PROVE Life!Init
  <2>1. \A j \in Jobs : ClientState(db[j]) = "absent" /\ db[j].attempt_count = 0 /\ db[j].max_attempts = 0
    BY <1>1 DEF Init, NoRow, ClientState
  <2>2. \A j \in Jobs : {w \in Workers : Runs(w, j)} = {}
    BY <1>1 DEF Init, WorkerInit, IdleTask, Runs
  <2> QED BY <2>1, <2>2 DEF Life!Init
<1> QED BY <1>1

(* The system implements JobLifecycle: whatever requests, workers, loops,  *)
(* clocks, crashes and restarts interleave, what clients and executors see *)
(* of a job is a behaviour of the abstract specification, for any number   *)
(* of jobs and workers.                                                    *)
THEOREM SystemImplementsLifecycle ==
  ASSUME NoStall
  PROVE  Spec /\ []NoOverlap => LifecycleImplemented
<1>1. Init => LimitInv /\ Life!Init
  BY InitLimit, LifeInit
<1>2. LimitInv /\ NoOverlap /\ [Next]_vars => LimitInv'
  BY LimitInductive
<1>3. LimitInv /\ NoOverlap /\ [Next]_vars => [Life!Next]_(Life!vars)
  BY StepEffects, EffectRefines
<1> QED BY <1>1, <1>2, <1>3, PTL DEF Spec, LifecycleImplemented, Life!Spec

-------------------------------------------------------------------------------
(***************************************************************************)
(* The budget of attempts.  A job that waits has an attempt left; so has   *)
(* one that is processing and whose executor is gone, because a death is   *)
(* one attempt more for every job.  There are finitely many dead workers,  *)
(* however many there are in all.                                          *)
(***************************************************************************)

Deaths == Cardinality(Dead)

Budget(j) ==
  /\ db[j].attempt_count <= db[j].max_attempts + Deaths
  /\ State(j) = "waiting" => db[j].attempt_count < db[j].max_attempts + Deaths
  /\ State(j) = "processing" =>
       \/ db[j].attempt_count < db[j].max_attempts + Deaths
       \/ \E w \in Workers : Runs(w, j)

Budgets == IsFiniteSet(Dead) /\ \A j \in Jobs : Budget(j)

(* The effects keep every budget.                                          *)
LEMMA BudgetsKept ==
  ASSUME LimitInv, Budgets, Effects
  PROVE  Budgets'
<1>t. TypeOK /\ AbsentBlank /\ RunnersCurrent
  BY DEF LimitInv, ExclusiveInv, OwnershipInv, Ownership
<1>f. IsFiniteSet(Dead) /\ Deaths \in Nat
  BY FS_CardinalityType DEF Budgets, Deaths
<1>n. \A i \in Jobs : db[i].attempt_count \in Nat /\ db[i].max_attempts \in Nat
  BY <1>t DEF TypeOK, Row
<1>a. \A i \in Jobs : Budget(i)
  BY DEF Budgets
<1>d. Dead' = Dead => Deaths' = Deaths
  BY DEF Deaths
<1>b. ASSUME NEW i \in Jobs, RowKept(i), Dead' = Dead,
             \A w \in Workers : Runs(w, i) => Runs(w, i)'
      PROVE  Budget(i)'
  <2>1. Deaths' = Deaths
    BY <1>b, <1>d
  <2>2. Budget(i)
    BY <1>a
  <2> QED BY <1>b, <1>n, <2>1, <2>2 DEF Budget, RowKept
<1>1. CASE Quiet
  BY <1>1, <1>b, <1>f, RunGoesOn DEF Quiet, RunsKept, Budgets
<1>2. ASSUME NEW j \in Jobs, Entered(j) \/ Withdrawn(j) \/ Reopened(j) \/ Recovered(j)
      PROVE  Budgets'
  <2>1. RowsKeptBut(j) /\ RunsKept /\ Dead' = Dead /\ Deaths' = Deaths
    BY <1>2, <1>d DEF Entered, Withdrawn, Reopened, Recovered, RunsKept
  <2>2. ASSUME NEW i \in Jobs, i # j PROVE Budget(i)'
    BY <1>b, <2>1, <2>2, RunGoesOn DEF RowsKeptBut, RunsKept
  <2>3. Budget(j)
    BY <1>a
  <2>4. CASE Entered(j)
    <3>1. db[j].attempt_count = 0
      BY <1>t, <2>4 DEF AbsentBlank, Entered, State, ClientState, Exists, NoRow
    <3> QED BY <1>f, <2>1, <2>2, <2>4, <3>1, MaxAttemptsAssumption DEF Entered, Budget, Budgets
  <2>5. CASE Withdrawn(j)
    BY <1>f, <2>1, <2>2, <2>3, <2>5 DEF Withdrawn, Budget, Budgets
  <2>6. CASE Reopened(j)
    BY <1>f, <1>n, <2>1, <2>2, <2>3, <2>6 DEF Reopened, Budget, Budgets
  <2>7. CASE Recovered(j)
    BY <1>f, <2>1, <2>2, <2>3, <2>7 DEF Recovered, Budget, Budgets
  <2> QED BY <1>2, <2>4, <2>5, <2>6, <2>7
<1>3. CASE WorkerEffects
  <2>1. PICK w \in Workers, j \in Jobs :
          Began(w, j) \/ Reported(w, j) \/ \E s \in Outcome : Ended(w, j, s)
    BY <1>3 DEF WorkerEffects
  <2>2. RowsKeptBut(j) /\ RunsKeptBut(w) /\ Dead' = Dead /\ Deaths' = Deaths
    BY <1>d, <2>1 DEF Began, Reported, Ended, RunsKeptBut
  <2>3. ASSUME NEW i \in Jobs, i # j PROVE Budget(i)'
    <3>1. ~ Runs(w, i)
      BY <2>1, <2>3 DEF Began, Reported, Ended, Runs
    <3>2. \A v \in Workers : Runs(v, i) => Runs(v, i)'
      BY <2>2, <3>1, RunGoesOn DEF RunsKeptBut
    <3> QED BY <1>b, <2>2, <2>3, <3>2 DEF RowsKeptBut
  <2>4. Budget(j)
    BY <1>a
  <2>5. CASE Began(w, j)
    BY <1>f, <1>n, <2>2, <2>3, <2>4, <2>5 DEF Began, Budget, Budgets
  <2>6. CASE Reported(w, j)
    <3>1. Runs(w, j)'
      BY <2>6 DEF Reported, Runs
    <3> QED BY <1>f, <2>2, <2>3, <2>4, <2>6, <3>1 DEF Reported, Budget, Budgets
  <2>7. ASSUME NEW s \in Outcome, Ended(w, j, s) PROVE Budgets'
    <3>1. /\ db'[j].attempt_count = db[j].attempt_count
          /\ db'[j].max_attempts = db[j].max_attempts
          /\ State(j)' = s /\ s # "processing"
          /\ s = "waiting" => db[j].attempt_count < db[j].max_attempts
      BY <2>7 DEF Ended, Outcome
    <3>2. Budget(j)'
      BY <1>f, <1>n, <2>2, <2>4, <3>1 DEF Budget
    <3> QED BY <1>f, <2>2, <2>3, <3>2 DEF Budgets
  <2> QED BY <2>1, <2>5, <2>6, <2>7
<1>4. ASSUME NEW w \in Workers, Killed(w) PROVE Budgets'
  <2>1. IsFiniteSet(Dead') /\ Deaths' = Deaths + 1
    BY <1>4, <1>f, FS_AddElement DEF Killed, Deaths
  <2>2. ASSUME NEW i \in Jobs PROVE Budget(i)'
    <3>1. Budget(i) /\ RowKept(i)
      BY <1>4, <1>a DEF Killed
    <3> QED BY <1>f, <1>n, <2>1, <3>1 DEF Budget, RowKept
  <2> QED BY <2>1, <2>2 DEF Budgets
<1> QED BY <1>1, <1>2, <1>3, <1>4 DEF Effects, RequestEffects, OtherEffects

(* A job is attempted at most max_attempts times, plus once for every      *)
(* worker that died, for any number of jobs, workers, crashes, cancels and *)
(* manual retries.                                                         *)
THEOREM AttemptsInBudget ==
  ASSUME NoStall
  PROVE  Spec /\ []NoOverlap => []AttemptBudget
<1>1. Init => LimitInv /\ Budgets
  <2> SUFFICES ASSUME Init PROVE Budgets
    BY InitLimit
  <2>1. Dead = {}
    BY DEF Init, WorkerInit, Dead
  <2>2. IsFiniteSet(Dead) /\ Deaths = 0
    BY <2>1, FS_EmptySet DEF Deaths
  <2>3. \A j \in Jobs : State(j) = "absent" /\ db[j].attempt_count = 0 /\ db[j].max_attempts = 0
    BY DEF Init, NoRow, State, ClientState
  <2> QED BY <2>2, <2>3 DEF Budgets, Budget
<1>2. LimitInv /\ Budgets /\ NoOverlap /\ [Next]_vars => LimitInv' /\ Budgets'
  BY LimitInductive, StepEffects, BudgetsKept
<1>3. Budgets => AttemptBudget
  BY DEF Budgets, Budget, Deaths, AttemptBudget
<1> QED BY <1>1, <1>2, <1>3, PTL DEF Spec

-------------------------------------------------------------------------------
(***************************************************************************)
(* Progress.  A report and the completion write a percentage only where    *)
(* the Job in memory had another one, so what they leave in the row is     *)
(* right only because the row and the Job in memory agree.                 *)
(***************************************************************************)

Pct(w) == IF reports[w] = 0 THEN task[w].row.progress_pct ELSE Clamp(Percent(reports[w]))

ReportsBounded ==
  \A w \in Workers : reports[w] <= TotalReports /\ (task[w].pc # "running" => reports[w] = 0)

CompletedFull == \A j \in Jobs : State(j) = "completed" => db[j].progress_pct = 100

RowAgrees == \A w \in Workers : \A j \in Jobs : Runs(w, j) => db[j].progress_pct = Pct(w)

ProgressInv == ReportsBounded /\ CompletedFull /\ RowAgrees

(* The percentage the Job in memory has.                                   *)
LEMMA MemoryPct ==
  ASSUME TypeOK, NEW w \in Workers
  PROVE  Memory(w).progress_pct = Pct(w)
<1> DEFINE c == Clamp(Percent(reports[w]))
<1> HIDE DEF c
<1>1. [task[w].row EXCEPT !.progress_pct = c].progress_pct = c
  BY DEF TypeOK, Task, Row
<1> QED BY <1>1 DEF Memory, Pct, c

(* The share done of a list is a percentage: nothing is clamped.           *)
LEMMA PercentInRange ==
  ASSUME NEW n \in Nat, n > 0, n <= TotalReports
  PROVE  Clamp(Percent(n)) = Percent(n)
<1>a. ASSUME NEW a \in Int, NEW b \in Int, b > 0, 0 <= a, a <= 100 * b
      PROVE  a \div b \in Int /\ 0 <= a \div b /\ a \div b <= 100
  BY <1>a, Z3
<1>1. CASE BatchItems = 0
  BY <1>1 DEF Percent, Clamp
<1>2. CASE BatchItems # 0
  <2>1. BatchItems \in Nat /\ BatchItems > 0 /\ n <= BatchItems
    BY <1>2, BatchItemsAssumption DEF TotalReports
  <2>2. n * 100 \in Int /\ 0 <= n * 100 /\ n * 100 <= 100 * BatchItems
    BY <2>1
  <2> DEFINE a == n * 100
  <2> HIDE DEF a
  <2>3. a \div BatchItems \in Int /\ 0 <= a \div BatchItems /\ a \div BatchItems <= 100
    BY <1>a, <2>1, <2>2 DEF a
  <2>4. Percent(n) = a \div BatchItems
    BY <1>2 DEF Percent, a
  <2> QED BY <2>3, <2>4 DEF Clamp
<1> QED BY <1>1, <1>2

(* The effects keep ProgressInv.                                           *)
LEMMA ProgressKept ==
  ASSUME LimitInv, ProgressInv, Effects
  PROVE  ProgressInv'
<1>t. TypeOK /\ RunnersCurrent /\ ExclusiveInv
  BY DEF LimitInv, ExclusiveInv, OwnershipInv
<1>m. \A w \in Workers : Memory(w).progress_pct = Pct(w) /\ reports[w] \in Nat
  BY <1>t, MemoryPct DEF TypeOK
<1>i. ReportsBounded /\ CompletedFull /\ RowAgrees
  BY DEF ProgressInv
<1>b. TotalReports \in Nat
  BY BatchItemsAssumption DEF TotalReports
<1>k. ASSUME NEW v \in Workers, RunKept(v)
      PROVE  /\ reports'[v] <= TotalReports /\ (task'[v].pc # "running" => reports'[v] = 0)
             /\ \A i \in Jobs : Runs(v, i)' => Runs(v, i) /\ Pct(v)' = Pct(v)
  <2>1. reports'[v] <= TotalReports /\ (task'[v].pc # "running" => reports'[v] = 0)
    BY <1>i, <1>k DEF RunKept, ReportsBounded
  <2>2. \A i \in Jobs : Runs(v, i)' => Runs(v, i) /\ Pct(v)' = Pct(v)
    BY <1>k, RunGoesOn DEF Pct
  <2> QED BY <2>1, <2>2
<1>a. ASSUME NEW i \in Jobs, RowKept(i)
      PROVE  /\ State(i)' = "completed" => db'[i].progress_pct = 100
             /\ \A v \in Workers : RunKept(v) /\ Runs(v, i)' => db'[i].progress_pct = Pct(v)'
  BY <1>a, <1>i, <1>k DEF RowKept, CompletedFull, RowAgrees
<1>1. CASE Quiet
  BY <1>1, <1>a, <1>k DEF Quiet, RunsKept, ProgressInv, ReportsBounded, CompletedFull, RowAgrees
<1>2. ASSUME NEW j \in Jobs, Entered(j) \/ Withdrawn(j) \/ Reopened(j) \/ Recovered(j)
      PROVE  ProgressInv'
  <2>1. RowsKeptBut(j) /\ \A v \in Workers : RunKept(v)
    BY <1>2 DEF Entered, Withdrawn, Reopened, Recovered, RunsKept
  <2>2. State(j)' # "completed"
    BY <1>2 DEF Entered, Withdrawn, Reopened, Recovered
  <2>3. ASSUME NEW v \in Workers, Runs(v, j)' PROVE db'[j].progress_pct = Pct(v)'
    <3>1. Runs(v, j) /\ Pct(v)' = Pct(v)
      BY <1>k, <2>1, <2>3
    <3>2. Withdrawn(j)
      <4>1. db[j].status \in {"processing", "cancelled"}
        BY <1>t, <3>1 DEF RunnersCurrent
      <4>2. ~ Entered(j) /\ ~ Reopened(j)
        BY <4>1 DEF Entered, Reopened, State, ClientState
      <4>3. ~ Recovered(j)
        BY <3>1 DEF Recovered
      <4> QED BY <1>2, <4>2, <4>3
    <3> QED BY <1>i, <3>1, <3>2 DEF Withdrawn, RowAgrees
  <2> QED BY <1>a, <1>k, <2>1, <2>2, <2>3
          DEF RowsKeptBut, ProgressInv, ReportsBounded, CompletedFull, RowAgrees
<1>3. ASSUME NEW w \in Workers, NEW j \in Jobs, RowsKeptBut(j),
             \A v \in Workers : v # w => RunKept(v) /\ ~ Runs(v, j),
             reports'[w] <= TotalReports, task'[w].pc # "running" => reports'[w] = 0,
             State(j)' = "completed" => db'[j].progress_pct = 100,
             \A i \in Jobs : Runs(w, i)' => i = j /\ db'[j].progress_pct = Pct(w)'
      PROVE  ProgressInv'
  <2>1. ReportsBounded'
    BY <1>3, <1>k DEF ReportsBounded
  <2>2. CompletedFull'
    BY <1>3, <1>a DEF CompletedFull, RowsKeptBut
  <2>3. ASSUME NEW v \in Workers, NEW i \in Jobs, Runs(v, i)' PROVE db'[i].progress_pct = Pct(v)'
    <3>1. CASE v = w
      BY <1>3, <2>3, <3>1
    <3>2. CASE v # w
      <4>1. RunKept(v) /\ Runs(v, i) /\ i # j
        BY <1>3, <1>k, <2>3, <3>2
      <4> QED BY <1>3, <1>a, <2>3, <4>1 DEF RowsKeptBut
    <3> QED BY <3>1, <3>2
  <2> QED BY <2>1, <2>2, <2>3 DEF ProgressInv, RowAgrees
<1>4. ASSUME NEW w \in Workers, NEW j \in Jobs, Began(w, j) PROVE ProgressInv'
  <2>1. reports'[w] = 0 /\ task'[w].pc = "running" /\ task'[w].job = j
    BY <1>4, <1>i DEF Began, ReportsBounded, Runs
  <2>2. Pct(w)' = db'[j].progress_pct
    BY <1>4, <2>1 DEF Began, Pct
  <2>3. \A i \in Jobs : Runs(w, i)' => i = j
    BY <2>1 DEF Runs
  <2> QED BY <1>3, <1>4, <1>b, <2>1, <2>2, <2>3 DEF Began, RunsKeptBut
<1>5. ASSUME NEW w \in Workers, NEW j \in Jobs, Reported(w, j) PROVE ProgressInv'
  <2>1. /\ Runs(w, j) /\ task'[w] = task[w] /\ reports'[w] = reports[w] + 1
        /\ reports[w] < TotalReports /\ RowsKeptBut(j) /\ RunsKeptBut(w) /\ State(j)' = State(j)
    BY <1>5 DEF Reported
  <2>2. \A i \in Jobs : Runs(w, i)' => i = j
    BY <2>1 DEF Runs
  <2>3. \A v \in Workers : v # w => RunKept(v) /\ ~ Runs(v, j)
    BY <1>t, <2>1, RunnerAlone DEF RunsKeptBut
  <2>4. State(j)' # "completed"
    BY <1>t, <2>1 DEF RunnersCurrent, State, ClientState
  <2>5. db[j].progress_pct = Memory(w).progress_pct
    BY <1>i, <1>m, <2>1 DEF RowAgrees
  <2>6. db'[j].progress_pct = Clamp(Percent(reports[w] + 1))
    BY <1>5, <2>5 DEF Reported, Written
  <2>7. Pct(w)' = Clamp(Percent(reports[w] + 1))
    <3>1. reports'[w] # 0
      BY <1>m, <2>1
    <3> QED BY <2>1, <3>1 DEF Pct
  <2>8. reports'[w] <= TotalReports /\ task'[w].pc = "running"
    BY <1>b, <1>m, <2>1 DEF Runs
  <2> QED BY <1>3, <2>1, <2>2, <2>3, <2>4, <2>6, <2>7, <2>8
<1>6. ASSUME NEW w \in Workers, NEW j \in Jobs, NEW s \in Outcome, Ended(w, j, s) PROVE ProgressInv'
  <2>1. db[j].progress_pct = Memory(w).progress_pct
    BY <1>6, <1>i, <1>m DEF RowAgrees, Ended
  <2>2. State(j)' = "completed" => db'[j].progress_pct = 100
    BY <1>6, <2>1 DEF Ended, Written
  <2>3. \A v \in Workers : v # w => RunKept(v) /\ ~ Runs(v, j)
    BY <1>6 DEF Ended, RunsKeptBut
  <2>4. \A i \in Jobs : ~ Runs(w, i)'
    BY <1>6 DEF Ended, Runs
  <2> QED BY <1>3, <1>6, <1>b, <2>2, <2>3, <2>4 DEF Ended
<1>7. ASSUME NEW w \in Workers, Killed(w) PROVE ProgressInv'
  <2>1. /\ \A i \in Jobs : RowKept(i)
        /\ \A v \in Workers : v # w => RunKept(v)
        /\ reports'[w] = 0
    BY <1>7 DEF Killed
  <2>2. \A i \in Jobs : ~ Runs(w, i)'
    BY <1>7 DEF Killed, Runs
  <2>3. ReportsBounded'
    BY <1>b, <1>k, <2>1 DEF ReportsBounded
  <2> QED BY <1>a, <2>1, <2>2, <2>3 DEF ProgressInv, CompletedFull, RowAgrees
<1> QED
  BY <1>1, <1>2, <1>4, <1>5, <1>6, <1>7
     DEF Effects, RequestEffects, WorkerEffects, OtherEffects

(* What GET /jobs/{id} shows of a job's progress is true, for any length   *)
(* of batch: a completed job shows 100, and one that is being executed     *)
(* shows what this attempt has reported.                                   *)
THEOREM ProgressIsTrue ==
  ASSUME NoStall
  PROVE  Spec /\ []NoOverlap => []ProgressTruthful
<1>1. Init => LimitInv /\ ProgressInv
  <2> SUFFICES ASSUME Init PROVE ProgressInv
    BY InitLimit
  <2>1. ReportsBounded
    BY BatchItemsAssumption DEF Init, WorkerInit, ReportsBounded, TotalReports
  <2>2. CompletedFull
    BY DEF Init, NoRow, CompletedFull, State, ClientState
  <2>3. RowAgrees
    BY DEF Init, WorkerInit, IdleTask, RowAgrees, Runs
  <2> QED BY <2>1, <2>2, <2>3 DEF ProgressInv
<1>2. LimitInv /\ ProgressInv /\ NoOverlap /\ [Next]_vars => LimitInv' /\ ProgressInv'
  BY LimitInductive, StepEffects, ProgressKept
<1>3. LimitInv /\ ProgressInv => ProgressTruthful
  <2> SUFFICES ASSUME LimitInv, ProgressInv PROVE ProgressTruthful
    OBVIOUS
  <2>1. \A j \in Jobs : db[j].status = "completed" => db[j].progress_pct = 100
    BY DEF ProgressInv, CompletedFull, State, ClientState
  <2>2. ASSUME NEW w \in Workers, NEW j \in Jobs, Runs(w, j), reports[w] > 0
        PROVE  db[j].progress_pct = Percent(reports[w])
    <3>1. reports[w] \in Nat /\ reports[w] <= TotalReports
      BY DEF LimitInv, ExclusiveInv, OwnershipInv, TypeOK, ProgressInv, ReportsBounded
    <3>2. db[j].progress_pct = Clamp(Percent(reports[w]))
      BY <2>2, <3>1 DEF ProgressInv, RowAgrees, Pct
    <3> QED BY <2>2, <3>1, <3>2, PercentInRange
  <2> QED BY <2>1, <2>2 DEF ProgressTruthful
<1> QED BY <1>1, <1>2, <1>3, PTL DEF Spec
===============================================================================
