--------------------------------- MODULE Api ---------------------------------
(***************************************************************************)
(* The three requests that change a job: POST /jobs, POST /jobs/{id}/cancel *)
(* and POST /jobs/{id}/retry.  Cancel and retry load the job, decide on     *)
(* what they loaded, and commit later; all three touch Redis only after     *)
(* their commit.  Requests run concurrently with each other and with all    *)
(* else.  Submission with an Idempotency-Key is the module Submission.      *)
(***************************************************************************)
EXTENDS JobStore, Dispatch

CONSTANTS
  Requests,     \* requests that may be in flight at once
  ApiOps,       \* which operations the clients use
  MaxCalls      \* bound: cancels and manual retries begun in all

ASSUME ApiOpsAssumption == ApiOps \subseteq {"submit", "schedule", "cancel", "retry"}
ASSUME MaxCallsAssumption == MaxCalls \in Nat

VARIABLES
  req,          \* req[r]: where the request stands, with the Job it loaded
  calls         \* cancels and manual retries begun so far

apiVars == <<req, calls>>

IdleReq == [pc |-> "idle", job |-> NoJob, row |-> NoRow]

Req == [pc  : {"idle", "enqueue", "schedule", "cancel", "zrem_pending",
               "zrem_scheduled", "retry", "lrem"},
        job : Jobs \cup {NoJob},
        row : Row]

ApiInit == req = [r \in Requests |-> IdleReq] /\ calls = 0

(* Request r, standing at pc for job j.                                    *)
At(r, pc, j) == req[r].pc = pc /\ req[r].job = j

(* After the commit only the id of the job is used.                        *)
Goto(r, pc) == req' = [req EXCEPT ![r].pc = pc, ![r].row = NoRow]
Answer(r) == req' = [req EXCEPT ![r] = IdleReq]

Begin(r, pc, j) == req' = [req EXCEPT ![r] = [pc |-> pc, job |-> j, row |-> db[j]]]

-------------------------------------------------------------------------------
(* submit_job: insert and commit, then one ZADD.                           *)

Submit(r, j) ==
  /\ "submit" \in ApiOps
  /\ req[r].pc = "idle"
  /\ ~ Exists(j)
  /\ db' = [db EXCEPT ![j] = NewRow("null")]
  /\ req' = [req EXCEPT ![r] = [pc |-> "enqueue", job |-> j, row |-> NoRow]]
  /\ UNCHANGED <<queueVars, calls>>

SubmitScheduled(r, j) ==
  /\ "schedule" \in ApiOps
  /\ req[r].pc = "idle"
  /\ ~ Exists(j)
  /\ db' = [db EXCEPT ![j] = NewRow("future")]
  /\ req' = [req EXCEPT ![r] = [pc |-> "schedule", job |-> j, row |-> NoRow]]
  /\ UNCHANGED <<queueVars, calls>>

SubmitEnqueue(r, j) ==
  /\ At(r, "enqueue", j)
  /\ enqueue(j)
  /\ Answer(r)
  /\ UNCHANGED <<db, calls>>

SubmitSchedule(r, j) ==
  /\ At(r, "schedule", j)
  /\ schedule(j)
  /\ Answer(r)
  /\ UNCHANGED <<db, calls>>

-------------------------------------------------------------------------------
(* cancel_job                                                              *)

CancelRead(r, j) ==
  /\ "cancel" \in ApiOps
  /\ calls < MaxCalls
  /\ req[r].pc = "idle"
  /\ Cancellable(db[j])                       \* else 404 or 409
  /\ Begin(r, "cancel", j)
  /\ calls' = calls + 1
  /\ UNCHANGED <<db, queueVars>>

CancelCommit(r, j) ==
  /\ At(r, "cancel", j)
  /\ db' = [db EXCEPT ![j] = Cancel(@, req[r].row)]
  /\ Goto(r, "zrem_pending")
  /\ UNCHANGED <<queueVars, calls>>

CancelZremPending(r, j) ==
  /\ At(r, "zrem_pending", j)
  /\ remove_pending(j)
  /\ Goto(r, "zrem_scheduled")
  /\ UNCHANGED <<db, calls>>

CancelZremScheduled(r, j) ==
  /\ At(r, "zrem_scheduled", j)
  /\ remove_scheduled(j)
  /\ Answer(r)
  /\ UNCHANGED <<db, calls>>

-------------------------------------------------------------------------------
(* manual_retry                                                            *)

RetryRead(r, j) ==
  /\ "retry" \in ApiOps
  /\ calls < MaxCalls
  /\ req[r].pc = "idle"
  /\ Retryable(db[j])                         \* else 404 or 409
  /\ Begin(r, "retry", j)
  /\ calls' = calls + 1
  /\ UNCHANGED <<db, queueVars>>

(* How the database sees the now() of an API host.                         *)
AppNow == IF ClockSkew THEN {"past", "future"} ELSE {"past"}

RetryCommit(r, j) ==
  /\ At(r, "retry", j)
  /\ \E at \in AppNow : db' = [db EXCEPT ![j] = ManualRetry(@, req[r].row, at)]
  /\ Goto(r, "lrem")
  /\ UNCHANGED <<queueVars, calls>>

RetryLrem(r, j) ==
  /\ At(r, "lrem", j)
  /\ remove_dead_letter(j)
  /\ Answer(r)
  /\ UNCHANGED <<db, calls>>

-------------------------------------------------------------------------------
(* The API process dies, or a Postgres or Redis call raises: what was      *)
(* committed stays, the rest is not done.                                  *)
Drop(r) ==
  /\ req[r].pc # "idle"
  /\ Answer(r)
  /\ UNCHANGED <<db, queueVars, calls>>

ApiStep(r) ==
  \E j \in Jobs : \/ Submit(r, j)
                  \/ SubmitScheduled(r, j)
                  \/ SubmitEnqueue(r, j)
                  \/ SubmitSchedule(r, j)
                  \/ CancelRead(r, j)
                  \/ CancelCommit(r, j)
                  \/ CancelZremPending(r, j)
                  \/ CancelZremScheduled(r, j)
                  \/ RetryRead(r, j)
                  \/ RetryCommit(r, j)
                  \/ RetryLrem(r, j)
===============================================================================
