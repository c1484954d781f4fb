------------------------------- MODULE Executor -------------------------------
(***************************************************************************)
(* A worker process: the executor loop (pop Redis, claim in Postgres, run  *)
(* the handler, finalize) and the heartbeat loop that renews the lease of  *)
(* the job in the LeaseHolder the two loops share.  Each await that        *)
(* reaches Postgres or Redis is a step; the code between two of them runs  *)
(* on one event loop and cannot be interleaved.                            *)
(***************************************************************************)
EXTENDS JobStore, Dispatch

CONSTANTS
  NoHandler,    \* the jobs whose type has no handler (UnknownJobTypeError)
  BatchJobs,    \* the jobs of type batch, which report progress
  BatchItems    \* the length of their payload's items

ASSUME HandlersAssumption ==
  NoHandler \subseteq Jobs /\ BatchJobs \subseteq Jobs \ NoHandler
ASSUME BatchItemsAssumption == BatchItems \in Nat

VARIABLES
  proc,         \* proc[w]: the process runs, is shutting down, has ended
  task,         \* task[w]: where process_one stands, with the Job as claimed
  reports,      \* reports[w]: progress reports of the batch handler so far
  holder,       \* holder[w]: LeaseHolder.job_id
  beat          \* beat[w]: where the heartbeat loop stands

workerVars == <<proc, task, reports, holder, beat>>

IdleTask == [pc |-> "idle", job |-> NoJob, row |-> NoRow]
IdleBeat == [pc |-> "idle", job |-> NoJob]

Task == [pc  : {"idle", "popped", "running", "dead_letter", "release"},
         job : Jobs \cup {NoJob},
         row : Row]
Beat == [pc : {"idle", "renew", "missed"}, job : Jobs \cup {NoJob}]

WorkerInit ==
  /\ proc = [w \in Workers |-> "up"]
  /\ task = [w \in Workers |-> IdleTask]
  /\ reports = [w \in Workers |-> 0]
  /\ holder = [w \in Workers |-> NoJob]
  /\ beat = [w \in Workers |-> IdleBeat]

Alive(w) == proc[w] \in {"up", "stopping"}

(* From the commit of the claim to the commit of the outcome.              *)
Runs(w, j) == task[w].pc = "running" /\ task[w].job = j

-------------------------------------------------------------------------------
(* The executor loop.                                                      *)

Dequeue(w, j) ==
  /\ proc[w] = "up"                       \* while not stop.is_set()
  /\ task[w].pc = "idle"
  /\ dequeue(j)
  /\ task' = [task EXCEPT ![w] = [pc |-> "popped", job |-> j, row |-> NoRow]]
  /\ UNCHANGED <<db, proc, reports, holder, beat>>

(* The claim wins; the row it returns is the Job the handler gets, and the *)
(* job is put in the lease holder.                                         *)
Claim(w) ==
  LET j == task[w].job IN
  /\ Alive(w)
  /\ task[w].pc = "popped"
  /\ ClaimWhere(db[j])
  /\ db' = [db EXCEPT ![j] = ClaimSet(db[j], w)]
  /\ task' = [task EXCEPT ![w].pc = "running", ![w].row = ClaimSet(db[j], w)]
  /\ holder' = [holder EXCEPT ![w] = j]
  /\ UNCHANGED <<queueVars, proc, reports, beat>>

(* Already taken, cancelled or not due: the entry popped is dropped.       *)
ClaimSkipped(w) ==
  /\ Alive(w)
  /\ task[w].pc = "popped"
  /\ ~ ClaimWhere(db[task[w].job])
  /\ task' = [task EXCEPT ![w] = IdleTask]
  /\ UNCHANGED <<db, queueVars, proc, reports, holder, beat>>

(* batch.run: one report per item, of the share done; one of 100 when the  *)
(* list is empty.                                                          *)
TotalReports == IF BatchItems = 0 THEN 1 ELSE BatchItems

Percent(n) == IF BatchItems = 0 THEN 100 ELSE (n * 100) \div BatchItems

(* Mutant: reports do not go through the Job in memory.                    *)
MemoryAsClaimed(w) == task[w].row

(* The Job in memory, with the progress committed last.                    *)
Memory(w) ==
  IF reports[w] = 0
    THEN task[w].row
    ELSE [task[w].row EXCEPT !.progress_pct = Clamp(Percent(reports[w]))]

Report(w) ==
  LET j == task[w].job IN
  /\ Alive(w)
  /\ task[w].pc = "running"
  /\ j \in BatchJobs
  /\ reports[w] < TotalReports
  /\ db' = [db EXCEPT ![j] = ReportProgress(@, Memory(w), Percent(reports[w] + 1))]
  /\ reports' = [reports EXCEPT ![w] = @ + 1]
  /\ UNCHANGED <<queueVars, proc, task, holder, beat>>

(* Commits the outcome row and goes on to pc; of the Job in memory only    *)
(* the id is used after that.                                              *)
Finalize(w, row, pc) ==
  /\ db' = [db EXCEPT ![task[w].job] = row]
  /\ task' = [task EXCEPT ![w].pc = pc, ![w].row = NoRow]
  /\ reports' = [reports EXCEPT ![w] = 0]
  /\ UNCHANGED <<queueVars, proc, holder, beat>>

(* The handler returned in time.                                           *)
FinishCompleted(w) ==
  LET j == task[w].job IN
  /\ Alive(w)
  /\ task[w].pc = "running"
  /\ j \notin NoHandler
  /\ j \in BatchJobs => reports[w] = TotalReports
  /\ Finalize(w, Complete(db[j], Memory(w)), "release")

(* The handler raised, or timed out, with attempts left.                   *)
FinishRetry(w) ==
  LET j == task[w].job IN
  /\ Alive(w)
  /\ task[w].pc = "running"
  /\ j \notin NoHandler
  /\ should_retry(task[w].row)
  /\ Finalize(w, RetryLater(db[j], Memory(w)), "release")

(* It raised on the last attempt, or there is no handler at all.           *)
FinishFailed(w) ==
  LET j == task[w].job IN
  /\ Alive(w)
  /\ task[w].pc = "running"
  /\ j \in NoHandler \/ ~ should_retry(task[w].row)
  /\ Finalize(w, FailPermanently(db[j], Memory(w)), "dead_letter")

DeadLetter(w) ==
  /\ Alive(w)
  /\ task[w].pc = "dead_letter"
  /\ dead_letter(task[w].job)
  /\ task' = [task EXCEPT ![w].pc = "release"]
  /\ UNCHANGED <<db, proc, reports, holder, beat>>

(* Mutant: no finally clause.                                              *)
ReleaseNothing(w) ==
  /\ Alive(w)
  /\ task[w].pc = "release"
  /\ task' = [task EXCEPT ![w] = IdleTask]
  /\ UNCHANGED <<db, queueVars, proc, reports, holder, beat>>

(* The finally clause: the holder is cleared if it still names this job.   *)
Release(w) ==
  /\ Alive(w)
  /\ task[w].pc = "release"
  /\ holder' = [holder EXCEPT ![w] = IF @ = task[w].job THEN NoJob ELSE @]
  /\ task' = [task EXCEPT ![w] = IdleTask]
  /\ UNCHANGED <<db, queueVars, proc, reports, beat>>

-------------------------------------------------------------------------------
(* The heartbeat loop; it ends as soon as the process is told to stop.     *)

HeartbeatRead(w) ==
  /\ proc[w] = "up"
  /\ beat[w].pc = "idle"
  /\ holder[w] # NoJob
  /\ beat' = [beat EXCEPT ![w] = [pc |-> "renew", job |-> holder[w]]]
  /\ UNCHANGED <<db, queueVars, proc, task, reports, holder>>

RenewLease(w) ==
  LET j == beat[w].job IN
  /\ Alive(w)
  /\ beat[w].pc = "renew"
  /\ IF RenewWhere(db[j], w)
       THEN /\ db' = [db EXCEPT ![j] = RenewSet(@)]
            /\ beat' = [beat EXCEPT ![w] = IdleBeat]
       ELSE /\ beat' = [beat EXCEPT ![w].pc = "missed"]
            /\ UNCHANGED db
  /\ UNCHANGED <<queueVars, proc, task, reports, holder>>

(* The renewal found the job finished or reaped: forget it, unless the     *)
(* executor has moved on to another job meanwhile.                         *)
ClearHolder(w) ==
  /\ Alive(w)
  /\ beat[w].pc = "missed"
  /\ holder' = [holder EXCEPT ![w] = IF @ = beat[w].job THEN NoJob ELSE @]
  /\ beat' = [beat EXCEPT ![w] = IdleBeat]
  /\ UNCHANGED <<db, queueVars, proc, task, reports>>

-------------------------------------------------------------------------------
(* The process.                                                            *)

(* SIGTERM or SIGINT: a started job is still finished.                     *)
Stop(w) ==
  /\ proc[w] = "up"
  /\ proc' = [proc EXCEPT ![w] = "stopping"]
  /\ UNCHANGED <<db, queueVars, task, reports, holder, beat>>

(* Mutant: the process exits without waiting for the job in hand.          *)
ExitAbandoning(w) ==
  /\ proc[w] = "stopping"
  /\ proc' = [proc EXCEPT ![w] = "exited"]
  /\ task' = [task EXCEPT ![w] = IdleTask]
  /\ reports' = [reports EXCEPT ![w] = 0]
  /\ holder' = [holder EXCEPT ![w] = NoJob]
  /\ beat' = [beat EXCEPT ![w] = IdleBeat]
  /\ UNCHANGED <<db, queueVars>>

Exit(w) ==
  /\ proc[w] = "stopping"
  /\ task[w].pc = "idle"
  /\ beat[w].pc = "idle"
  /\ proc' = [proc EXCEPT ![w] = "exited"]
  /\ UNCHANGED <<db, queueVars, task, reports, holder, beat>>

(* Killed, or ended by an exception of Postgres or Redis: both loops die   *)
(* with what they had in memory.                                           *)
Crash(w) ==
  /\ Alive(w)
  /\ proc' = [proc EXCEPT ![w] = "dead"]
  /\ task' = [task EXCEPT ![w] = IdleTask]
  /\ reports' = [reports EXCEPT ![w] = 0]
  /\ holder' = [holder EXCEPT ![w] = NoJob]
  /\ beat' = [beat EXCEPT ![w] = IdleBeat]
  /\ UNCHANGED <<db, queueVars>>

(* What a live worker goes on doing by itself.                             *)
ExecutorStep(w) ==
  \/ \E j \in Jobs : Dequeue(w, j)
  \/ Claim(w)
  \/ ClaimSkipped(w)
  \/ Report(w)
  \/ FinishCompleted(w)
  \/ FinishRetry(w)
  \/ FinishFailed(w)
  \/ DeadLetter(w)
  \/ Release(w)
  \/ Exit(w)

HeartbeatStep(w) == HeartbeatRead(w) \/ RenewLease(w) \/ ClearHolder(w)
===============================================================================
