------------------------------- MODULE JobStore -------------------------------
(***************************************************************************)
(* The Postgres table `jobs`, the source of truth of the system, and the   *)
(* writes the program makes to one row of it.                              *)
(*                                                                         *)
(* There are two kinds of write.  claim, renew, reap and promote are       *)
(* single guarded statements (UPDATE ... WHERE status = ... RETURNING):    *)
(* each has a XWhere, its guard, and a XSet, its SET clause.  Complete,    *)
(* fail, retry and cancel go through a SQLAlchemy object loaded earlier:   *)
(* the commit writes, WHERE id = ... and nothing else, the columns whose   *)
(* value in memory differs from the one that was loaded (Flush).           *)
(*                                                                         *)
(* A timestamp is only ever compared with now(), so a column holds "null", *)
(* "past" (<= now) or "future" (> now); the passing of time is an action   *)
(* of JobSystem that turns "future" into "past".                           *)
(***************************************************************************)
EXTENDS Integers

CONSTANTS
  Jobs,                \* job ids, numbered by their rank in priority_score
  Workers,             \* worker ids; a restarted process has a new one
  NoWorker,            \* NULL in the column worker_id
  NoJob,               \* no job id (None in the program)
  DefaultMaxAttempts,  \* settings.default_max_attempts
  ClockSkew            \* may the clock of an app host be ahead of Postgres's?

ASSUME JobsAssumption == Jobs \subseteq Nat
ASSUME NoWorkerAssumption == NoWorker \notin Workers
ASSUME NoJobAssumption == NoJob \notin Jobs
ASSUME MaxAttemptsAssumption == DefaultMaxAttempts \in Nat \ {0}
ASSUME ClockAssumption == ClockSkew \in BOOLEAN

VARIABLE db            \* db[j] is the row of job j

JobStatus ==
  {"pending", "scheduled", "processing", "completed", "failed", "cancelled"}

Stamp == {"null", "past", "future"}

Percentage == 0..100

Row == [status        : JobStatus \cup {"absent"},
        attempt_count : Nat,
        max_attempts  : Nat,
        progress_pct  : Percentage,
        scheduled_at  : Stamp,
        next_run_at   : Stamp,
        leased_until  : Stamp,
        worker_id     : Workers \cup {NoWorker}]

(* A job id that has no row: nothing has been submitted under it.          *)
NoRow == [status        |-> "absent",
          attempt_count |-> 0,
          max_attempts  |-> 0,
          progress_pct  |-> 0,
          scheduled_at  |-> "null",
          next_run_at   |-> "null",
          leased_until  |-> "null",
          worker_id     |-> NoWorker]

(* The row submit_job inserts; at is scheduled_at, "null" for a job to run *)
(* at once.                                                                *)
NewRow(at) == [NoRow EXCEPT !.status = IF at = "null" THEN "pending" ELSE "scheduled",
                            !.max_attempts = DefaultMaxAttempts,
                            !.scheduled_at = at,
                            !.next_run_at = at]

Exists(j) == db[j].status # "absent"

-------------------------------------------------------------------------------
(* Guarded statements.                                                     *)

(* pending and (next_run_at IS NULL or next_run_at <= now()): what the     *)
(* claim demands and what the feeder looks for.                            *)
Ready(row) == row.status = "pending" /\ row.next_run_at # "future"

ClaimWhere(row) == Ready(row)

(* Mutants: the attempt is not counted; no lease is taken.                 *)
ClaimSetNoCount(row, w) == [row EXCEPT !.status = "processing",
                                       !.worker_id = w,
                                       !.leased_until = "future"]
ClaimSetNoLease(row, w) == [row EXCEPT !.status = "processing",
                                       !.worker_id = w,
                                       !.attempt_count = @ + 1]

ClaimSet(row, w) == [row EXCEPT !.status = "processing",
                                !.worker_id = w,
                                !.leased_until = "future",
                                !.attempt_count = @ + 1]

RenewWhere(row, w) == row.status = "processing" /\ row.worker_id = w

RenewSet(row) == [row EXCEPT !.leased_until = "future"]

(* Mutant: leases are not looked at.                                       *)
ReapWhereAnyLease(row) == row.status = "processing"

ReapWhere(row) == row.status = "processing" /\ row.leased_until = "past"

ReapSet(row) == [row EXCEPT !.status = "pending",
                            !.worker_id = NoWorker,
                            !.leased_until = "null",
                            !.next_run_at = "null"]

(* Mutant: the caller's clock is trusted.                                  *)
PromoteWhereAppClock(row) == row.status = "scheduled"

PromoteWhere(row) == row.status = "scheduled" /\ row.scheduled_at = "past"

PromoteSet(row) == [row EXCEPT !.status = "pending", !.next_run_at = "null"]

-------------------------------------------------------------------------------
(* Writes through a loaded object.                                         *)

Written(stored, loaded, new) == IF new # loaded THEN new ELSE stored

(* The row after commit, when the object was loaded as `loaded` and has    *)
(* become `new` in memory.  Columns no object changes are left alone.      *)
Flush(row, loaded, new) ==
  [status        |-> Written(row.status, loaded.status, new.status),
   attempt_count |-> row.attempt_count,
   max_attempts  |-> Written(row.max_attempts, loaded.max_attempts, new.max_attempts),
   progress_pct  |-> Written(row.progress_pct, loaded.progress_pct, new.progress_pct),
   scheduled_at  |-> row.scheduled_at,
   next_run_at   |-> Written(row.next_run_at, loaded.next_run_at, new.next_run_at),
   leased_until  |-> Written(row.leased_until, loaded.leased_until, new.leased_until),
   worker_id     |-> Written(row.worker_id, loaded.worker_id, new.worker_id)]

(* Mutant: a status the enum does not have.                                *)
CompleteWithUnknownStatus(row, mem) ==
  Flush(row, mem, [mem EXCEPT !.status = "success",
                              !.next_run_at = "null",
                              !.leased_until = "null"])

(* _complete_job; worker_id stays as a record of who ran the job.          *)
Complete(row, mem) ==
  Flush(row, mem, [mem EXCEPT !.status = "completed",
                              !.progress_pct = 100,
                              !.next_run_at = "null",
                              !.leased_until = "null"])

(* _report_progress clamps the percentage and commits it.                  *)
Clamp(pct) == IF pct < 0 THEN 0 ELSE IF pct > 100 THEN 100 ELSE pct

ReportProgress(row, mem, pct) ==
  Flush(row, mem, [mem EXCEPT !.progress_pct = Clamp(pct)])

(* Mutant: one attempt too many.                                           *)
should_retryOffByOne(mem) == mem.attempt_count <= mem.max_attempts

should_retry(mem) == mem.attempt_count < mem.max_attempts

(* apply_failure, retry branch.  next_run_at becomes now + backoff, a new  *)
(* timestamp, so it is always written.                                     *)
RetryLater(row, mem) ==
  [Flush(row, mem, [mem EXCEPT !.status = "pending",
                               !.leased_until = "null",
                               !.worker_id = NoWorker])
     EXCEPT !.next_run_at = "future"]

(* apply_failure, permanent branch.                                        *)
FailPermanently(row, mem) ==
  Flush(row, mem, [mem EXCEPT !.status = "failed",
                              !.next_run_at = "null",
                              !.leased_until = "null",
                              !.worker_id = NoWorker])

Cancellable(row) == row.status \in {"pending", "scheduled"}

(* cancel_job                                                              *)
Cancel(row, mem) ==
  Flush(row, mem, [mem EXCEPT !.status = "cancelled",
                              !.next_run_at = "null",
                              !.leased_until = "null",
                              !.worker_id = NoWorker])

(* Mutant: a completed job may be retried too.                             *)
RetryableEnded(row) == row.status \in {"failed", "completed"}

Retryable(row) == row.status = "failed"

(* manual_retry; at is the caller's now(), as the database sees it.        *)
ManualRetry(row, mem, at) ==
  [Flush(row, mem, [mem EXCEPT !.status = "pending",
                               !.max_attempts = @ + 1,
                               !.leased_until = "null",
                               !.worker_id = NoWorker])
     EXCEPT !.next_run_at = at]
===============================================================================
