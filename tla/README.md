# Verification of mcareers: a job queue over PostgreSQL and Redis

TLA+ models of the job system under `src/app`, the TLC runs that check them on
small instances, and TLAPS proofs of what matters most for any number of jobs,
workers and requests.

- [The system](#the-system)
- [The modules](#the-modules)
- [What the runs check](#what-the-runs-check)
- [What is proved](#what-is-proved)
- [Where the code and its documents disagree](#where-the-code-and-its-documents-disagree)
- [What is not modelled](#what-is-not-modelled)
- [Plan](#plan)

To check a run: `tlc -config Races.cfg MCJobSystem` (`PROJECT.json` has the module
of each configuration). To check the proofs: `tlapm LifecycleProofs.tla`, and so
for each of the eight modules named `...Proofs`.

## The system

PostgreSQL holds the jobs and is the source of truth; Redis only dispatches ids
and may lose everything. Three kinds of process work on the two:

| Component | State it keeps | Operations | Talks to |
| --- | --- | --- | --- |
| jobs table (`db/models.py`, `db/schema.sql`) | one row per job: status, attempt_count, max_attempts, scheduled_at, next_run_at, leased_until, worker_id, progress_pct, priority, idempotency_key | guarded `UPDATE`s; commits of objects loaded earlier | everyone |
| Redis queues (`queue/client.py`) | `jobs:pending`, `jobs:scheduled` (sorted sets), `jobs:dead_letter` (list), `workers:heartbeat` (sorted set) | ZADD, ZPOPMIN, ZREM, LPUSH+LTRIM, LREM | everyone |
| API requests (`services/job_service.py`) | a loaded Job per request | submit, cancel, manual retry, reads | table, then Redis |
| executor (`worker/executor.py`, `claim.py`, `retry.py`) | the popped id, the claimed Job | pop, claim, run handler, report progress, complete / retry / fail, dead-letter | Redis, table, lease holder |
| heartbeat (`worker/heartbeat.py`) | the id read from the lease holder | renew the lease, forget a lost job, liveness beat | lease holder shared with the executor, table, Redis |
| feeder (`worker/feeder.py`) | a batch of ready jobs | put ready pending jobs in Redis | table, Redis |
| scheduler (`worker/scheduler.py`) | a batch of due ids | promote due jobs, move them in Redis | Redis, table |
| reaper (`worker/reaper.py`) | a batch of ids with an expired lease | give them back | table |
| idempotency (`services/idempotency.py`, `worker/idempotency_cleanup.py`) | the partial unique index on the key | lookup, insert, 24 h cleanup | table |
| processes (`worker/__main__.py`, `maintenance/__main__.py`, `worker/lifecycle.py`) | a stop event | start, drain on SIGTERM, exit, die | their loops |

**What is hard here.** Every loop and every request awaits between what it reads
and what it writes. Claim, renew, reap and promote are single guarded
statements, but completion, failure, cancel and manual retry write through an
object loaded earlier, `WHERE id = ...` only. Redis is written after the commit,
never with it, so every pair of writes can be cut in half by a crash. Leases
expire by a clock, whatever the worker is doing, and are stamped by another
clock before the statement that stores them is sent. `PROJECT.json` lists the hazards
with their lines and the properties that watch them.

**What makes each part correct.** *Executor and claim*: an attempt is executed
once, a processing job has an owner or comes back, one worker at a time.
*Retry policy*: attempts are bounded. *Progress*: what a client reads is what the
current attempt has done. *Heartbeat*: the shared holder never names a
job the executor is done with, a lease outlives the attempt it covers, the alive
list is the live workers. *Feeder, scheduler, reaper*: every job
settles, from the table alone; nothing runs before its time; no stale entry
remains in Redis. *Priority score*: the pop takes what comes first. *Dead-letter list*: indexes the failed jobs. *API*: the
decision taken on a loaded row still holds at its commit. *Submission*: one job per
key and day, nothing dispatched that is not durable, no request left hanging.
*All together*: the job a client sees follows the life cycle of `JobLifecycle`.

## The modules

| Module | Models | Extends |
| --- | --- | --- |
| `JobStore` | a row, the four guarded statements, the writes through a loaded object, progress | |
| `Dispatch` | the three Redis structures, one operator per command | |
| `Executor` | worker process: executor loop with progress reports, heartbeat loop, lease holder, stop, exit, crash | `JobStore`, `Dispatch` |
| `Maintenance` | feeder, reaper, scheduler, restart of their process | `JobStore`, `Dispatch` |
| `Api` | submit, cancel and manual retry, step by step | `JobStore`, `Dispatch` |
| `JobSystem` | the composition: passing of time, failures, `Spec`, fairness, the properties | `Api`, `Executor`, `Maintenance` |
| `Submission` | `submit_job` with an Idempotency-Key, the unique index, key cleanup | |
| `JobLifecycle` | abstract: a job as its client sees it, without queues, leases, loops, requests | |
| `JobRefinement` | the mapping under which `JobSystem` implements `JobLifecycle` | `JobSystem` |
| `PriorityOrder` | `priority_score` as a double, the feeder's ORDER BY and LIMIT, ZPOPMIN by score and member | |
| `Timing` | lease, timeout, heartbeat, TTL and reaper period as numbers; beats, pruning, alive list | |
| `MCJobSystem`, `MCSubmission`, `MCPriority`, `MCTiming` | symmetry sets and value sets for TLC | |
| `JobSystemProofs` | types, ownership, attempt numbers | `JobSystem`, TLAPS |
| `ScheduleProofs` | the lease holder, scheduled jobs | `JobSystemProofs` |
| `ExclusiveProofs` | one worker at a time | `JobSystemProofs` |
| `LifecycleProofs` | the refinement, budget of attempts, progress | `ExclusiveProofs`, `JobRefinement` |
| `DeadLetterProofs` | the dead-letter list | `ExclusiveProofs` |
| `SubmissionProofs`, `PriorityProofs`, `TimingProofs` | the theorems about the module of that name | `Submission`, `PriorityOrder`, `Timing` |

`PROJECT.json` ("map") gives the source lines of every definition. The
conventions that hold throughout:

- **A step is the code between two awaits that reach Postgres or Redis.** Each
  process runs one event loop, so nothing interleaves inside a step. A
  transaction takes effect at its commit; a guarded `UPDATE` and its commit are
  one step, because the row lock keeps everyone else out in between.
- **Timestamps** are only compared with now(), so a column is `"null"`, `"past"`
  or `"future"`. `ScheduleDue`, `BackoffOver` and `LeaseExpires` turn one into the
  other, where somebody can still read it.
- **Writes through an object** (`Flush`): SQLAlchemy's unit of work writes the
  columns whose value in memory differs from the loaded one. So `Complete` by a
  worker that lost its job writes the status but leaves `attempt_count` alone, and
  a cancel of a row that had no worker does *not* clear the `worker_id` a claim
  wrote meanwhile. After the commit only the id is used, so `task[w].row` and
  `req[r].row` are reset there.
- **Job ids are numbered by their rank in `priority_score`**, which is fixed when
  the job is created. The sorted sets are then sets, ZPOPMIN takes the least
  number, and the feeder's ORDER BY is the same order: `PriorityOrder` is where that
  is justified.
- **A handler is its outcome**: it returns, raises (or times out), or does not
  exist (`NoHandler`). A batch handler (`BatchJobs`) reports progress after each of
  `BatchItems` items before it returns, and may raise between two of them.
- **Progress** is committed through the claimed object. Sessions do not expire
  objects on commit, so `Memory(w)` is the row as claimed with the last progress
  written by this attempt, and a report or a completion that does not change *that*
  value writes nothing. Nothing resets progress_pct between attempts.
- **Clock skew**: with `ClockSkew`, an application host's clock may be ahead of
  the database's. A clock that is behind only delays.
- **A scheduler cycle that finds nothing due** changes nothing and is left out;
  the feeder's empty poll is kept, and is why the system never deadlocks.
- **A new worker process has a new id** (`_make_worker_id`), so a restart is another
  member of `Workers`.

Failures (`FaultKinds`): `crash` of a worker, `stop` (SIGTERM), `stall` (a lease
runs out although its worker is alive), `redis` (restart without data), `restart` of
the maintenance process, `drop` of an API request between two awaits. A
Postgres or Redis exception that escapes a loop has the same effect as the death
of its process or request.

**The abstract specification.** `JobLifecycle` has four variables (state, attempts,
limit, executor) and an action for each thing a client may see happen.
`JobRefinement` maps a row to them: pending and scheduled are both `waiting`, the
executor of a job is the set of live workers with a task that runs it. A job row can be
handed out only when nobody executes it, an outcome comes only from the executor,
`Recover` takes back only what nobody executes, `Reopen` leaves only `failed`. Two
conditions are needed for that, the same as for exclusive execution: no lease runs
out under a live worker, and no two requests on one job overlap. Cancelling is best effort in
`JobLifecycle`, because it is in the code: see `cancel_race`.

**The timed model.** `Timing` counts time in `Tick`s that no loop may let pass once
it has waited as long as it can. One operation of Postgres or Redis (a statement
with its commit, a pipeline) is waited for up to `Delay`. It takes effect at one
moment of that wait and is answered at a later one, and the loop goes on only with
the answer: `Claim` and `ClaimAnswered`, `worker_heartbeat` and `HeartbeatAnswered`,
`renew_job_lease` and `RenewalAnswered`, `ReaperSelect` or `Reap` and
`ReaperAnswered`. (`LogStarted` writes nothing the model has, and after `Outcome` and a
claim that lost the executor is in no hurry, so `idle` and `release` have no bound
and stand for the wait as well.) So a renewal computed for an earlier attempt may
land on the next claim before that claim is answered.

A timestamp a host computes before it sends the operation (`leased_until`, the
heartbeat's score and its pruning limit) is kept as the time since, `age`, and the
host's offset `Off` from the clock of Postgres, at most `Skew`; so a lease is what is left of it
and a heartbeat entry is how old it is, and the model has no absolute time. Counts
that have passed the bound an invariant looks at stand still.

The reaper compares leases with now(), which in Postgres is the start of the
transaction: `lag` ago. The SELECT begins a transaction at any moment of its wait, the
first UPDATE runs in it, and its commit or rollback ends it; each further UPDATE
begins its own.

Attempts follow each other on a job without a queue or a backoff in between, which
is the tightest case for a late renewal. An emptied Redis is left out: the alive
list is then wrong until the next beat. So is a worker that starts later than the
others: `DeadPruned` speaks of the workers of one start, and one that starts alone
after an outage may find older entries, which its first beat prunes.

## What the runs check

| Run | Instance | Shows |
| --- | --- | --- |
| `races` | 1 job, 2 workers, 2 requests, 2 cancels/retries, one of crash, stall, stop | `ProcessingOwned`, `AttemptUnique`, `HolderNamesTask`: whatever interleaves, a processing job has a live owner on this attempt, or a dead one and a lease to reap; no attempt number is executed twice; the holder is never stale |
| `lifecycle` | 1 batch job of 2 items, 2 attempts, 2 workers, 1 request, a cancel or retry, two of crash, stop, Redis restart, lost request | `LifecycleImplemented`: the system implements `JobLifecycle`; `ExclusiveExecution`; `AttemptBudget`: attempts <= max_attempts + dead workers; `ProgressTruthful`: from its first report on, progress_pct is what the attempt under way has reported last, and 100 once completed |
| `scheduled` | 1 scheduled job, skewed clock, racing cancel, two of stall, Redis restart, maintenance restart, lost request, liveness | `NotBeforeSchedule`, `JobsSettle`, `StaleScheduleDropped` |
| `recovery` | 1 job, 2 attempts, a manual retry, one failure of any kind but a stall, liveness | `JobsSettle`: the job comes back from the table alone and settles for good; `LifecycleLive`: the system implements `JobLifecycle` with its fairness |
| `dispatching` | 2 jobs of different priority, one without handler, batches and dead-letter list of length 1, liveness | `JobsSettle`, `PendingDrained`, `DeadLetterIndex` |
| `submit` | 3 submissions, 2 keys or none, deaths, ageing, cleanup by a skewed clock, liveness | `SameKeySameJob`, `DispatchedIsDurable`, `SubmissionEnds` |
| `priority` | 3 jobs, priorities at and beyond the bounds, created_at over the whole window, late ZADDs, feeder, Redis restart | `DispatchOrder`: a pop never passes over a job of higher priority, or of the same and an earlier millisecond; `FeederOrder`: the feeder's SQL order never contradicts the score |
| `heartbeat` | 2 workers with clocks as far apart as may be, 1 job, slow operations and answers, draining, crashes | `LeaseOutlivesRun`: no lease runs out under a live worker, renewed or not; `ReapedInTime`: an expired lease is taken back within `ReaperPoll` + (2n+1) `Delay`, for n leased jobs; `ListedWhileUp`, `DeadPruned`: the alive list of `/health` |

Four more runs expect a violation; they are the section on
[disagreements](#where-the-code-and-its-documents-disagree).

**Bounds.** Rows are written one at a time and no step relates two jobs except
through the order of `jobs:pending`, the batch limits and the dead-letter list;
so the races are checked on one job and those three things on two
(`dispatching`, with every limit set to 1 so that it binds). Two workers are what
a duplicate execution takes; two requests what a lost update takes. `MaxCalls`
bounds cancels and manual retries, `MaxFaults` the failures; two of a kind let a
second one hit the repair of the first. `DefaultMaxAttempts` is 2 where an
automatic retry matters, else 1. A batch of two items has a report that is not 100,
one that is, and a place to fail between them. In `recovery` one failure leaves a
worker alive, without which nothing could settle; in `scheduled` the failures do
not stop the only worker, but its lease may run out, so that its outcome comes after
the reaper's reset. With a list of length 1 the clause of `DeadLetterIndex` against
duplicates says nothing in `dispatching`; the theorem has it for every length.

`priority` scales the numbers of `keys.py` down and keeps their proportions: `Scale`
3 ms for 10^12, a window of `created_at` just below it (`WindowFits`), doubles exact
up to 8 for 2^53 (`ScoresExact`), two microseconds in a millisecond, so that ties within one
occur. -4 is a priority that `JobCreate` refuses; if it did not, scores would
round (the mutant). Three jobs and a batch of two leave one job to LIMIT.

`heartbeat` takes `Delay` and `Skew` as the unit and every interval as short as
the assumptions allow: `LeaseFits` (job timeout + four operations + skew <= lease; the
four are a renewal that lands on the next claim, that claim, the log and the outcome)
and `TtlFits` (interval + three operations + two skews < TTL) hold with no slack. A
lease or a TTL shorter by one breaks the invariant, and `MaxOverdue` and
`MaxSeen` cannot be lowered. `MaxDown` lets
either worker stop or die, not both: `ListedWhileUp` and `DeadPruned` are about a worker that
is up, and one worker that drains or is gone is enough for the other two. One host's clock is `Skew` behind
and the other's `Skew` ahead, the extremes between which every comparison lies. The settings
(timeout 30 s, lease 60 s, interval 5 s, TTL 15 s) satisfy both assumptions as long as
operations and skew stay below 2 s. The job timeout counts from the start of the
handler, so the heartbeat that ends at SIGTERM is not needed for the lease to
last: the first claim already covers the run.

**Symmetry** of workers and of requests is used in the runs of `JobSystem` that check
safety only; in `heartbeat` the clocks tell the workers apart. **Deadlock** is checked in all but `submit` and `submit_conflict`, where a
finite set of submissions really comes to its end; in `heartbeat` it would mean that
a loop cannot meet its own bound.

**Fairness** (`JobSystem!FairSpec`): weak fairness of each worker's executor, of
feeder, reaper and scheduler, and of time for each job. These are `while` loops
that poll with a bounded sleep and are enabled until they act. Fairness of a worker is of
its whole loop, so nothing says which way a handler ends; a job settles
because attempts are bounded. Nothing is assumed of clients, of requests (one may
hang for ever between commit and ZADD), of the heartbeat, or of failures. That a
maintenance process that died is started again is an assumption on the deployment:
`docker-compose.yml` sets no restart policy, and without that process nothing
brings back a job that Redis or a worker has lost. The
fairness of `JobLifecycle` is what follows (`LifecycleLive`), not assumed. In
`Submission` a request that has begun goes on (`WF` of `Progress`), or dies.
`PriorityOrder` and `Timing` need none: their properties are safety, a deadline
being an invariant over counted time.

## What is proved

Every safety property that a run checks, and the refinement, is a theorem: for every
`Jobs`, `Workers`, `Requests`, every bound, and every set of faults the theorem does
not exclude.

| Theorem | States | Holds for |
| --- | --- | --- |
| `TypeCorrect` | `TypeOK` | all behaviours of `JobSystem` |
| `ProcessingIsOwned`, `AttemptsAreUnique` | `ProcessingOwned`, `AttemptUnique` | all |
| `HolderIsCurrent`, `NeverBeforeSchedule` | `HolderNamesTask`, `NotBeforeSchedule` | all |
| `ExecutionIsExclusive` | `ExclusiveExecution` | no stall, no overlap |
| `SystemImplementsLifecycle` | `LifecycleImplemented`, the refinement of `JobLifecycle` | no stall, no overlap |
| `AttemptsInBudget`, `ProgressIsTrue` | `AttemptBudget`, `ProgressTruthful` | no stall, no overlap |
| `DeadLetterIsIndex` | `DeadLetterIndex` | only submissions; no crash, stall or Redis restart |
| `SubmissionTypeCorrect`, `OneJobPerKey`, `DispatchDurable` | `TypeOK`, `SameKeySameJob`, `DispatchedIsDurable` of `Submission` | all behaviours of `Submission` |
| `DispatchKeepsOrder`, `FeederKeepsOrder` | `DispatchOrder`, `FeederOrder` | any scale and window with `OrderConstants` |
| `LeaseIsLongEnough`, `ReaperIsInTime`, `UpIsListed`, `DeadArePruned` | `LeaseOutlivesRun`, `ReapedInTime`, `ListedWhileUp`, `DeadPruned` | any lengths with `TimingConstants` |

*Conditions.* "No stall" (`NoStall`) is `"stall" \notin FaultKinds`: no lease runs out
under a live worker. `LeaseIsLongEnough` is what justifies it, for settings with
`LeaseFits`. "No overlap" is `[]NoOverlap`: no two cancels or manual retries of
*one* job are between their read and their commit at the same time; requests
on different jobs, and submissions, overlap as they like. The code enforces neither,
and both are needed: `retry_twice` violates the second, and a stall lets the reaper
hand out a job that is still being executed. `DeadLetterIsIndex` excludes what really
breaks the list: a crash or a Redis restart loses an entry, and a cancel or retry between the failing
commit and the LPUSH (`late_dead_letter`) leaves one too many.

*Assumptions.* Otherwise only the named `ASSUME`s of the modules, which TLC evaluates in
the runs: ids are numbers, the null values are none of the ids, limits are
positive, no clock is off by more than `Skew`, intervals and scores fit (`LeaseFits`,
`TtlFits`, `WindowFits`, `ScoresExact`). `Timing` and
`PriorityOrder` also assume finitely many jobs, because they count the ones
overdue and the ones before a job; the others do not.

*Ownership.* Neither property is inductive. `OwnershipInv` adds that a worker runs
with a row loaded as `processing`, of a job that exists, whose attempt is no newer
than the table's (`RunningLoaded`: hence the next claim hands out a fresh number), that a
row nobody submitted is blank (`AbsentBlank`), and that cancel and retry carry a
row they may act on (`RequestLoaded`: hence their commit always writes the status
and can never leave a row `processing` under a cleared lease). Of all actions only the
claim starts anything: `ClaimOwnership` deals with it, and every other action
is shown to satisfy the frame `StartsNothing`, which preserves the invariant by one
lemma (`StartsNothingKeeps`).

*Exclusion.* `ExclusiveInv` adds that a worker that runs a job is
alive, on the current attempt, and its row is still its own under a lease that
has not run out, or was cancelled over its head (`RunnersCurrent`), and that a
job stays failed under a manual retry in flight (`RetrySeesFailed`); `Gentle` is the
frame for the steps of the others.

*Life cycle.* `LimitInv` adds to `ExclusiveInv` that the Job an executor or a manual
retry has in memory knows the current `max_attempts`, without which its decision to
retry would not be the table's. Under it every step of the system is one of nine
`Effects` (entered, withdrawn, reopened, began, reported, ended, killed, recovered,
or quiet), stated on the columns a client sees and the attempts under way. Three
proofs go by cases on these: the refinement (each is an action of `JobLifecycle` or a
stutter), `Budgets` (a job that waits, or is processing with its executor gone, has
an attempt left; the set of dead workers is finite even if there are infinitely
many workers) and `ProgressInv` (the row and the Job in memory agree on the percentage,
so that a write that is skipped because nothing changed in memory is not missed).

*Schedule.* `RetryDue`: a manual retry in flight is of a job whose time has come;
with it a job whose time has not come is still `scheduled`, or was cancelled.

*Dead-letter list.* `IndexInv`: an entry about to be pushed is not listed yet and has
one pusher (`PushSound`), so that the list has no duplicates; a failed job is listed,
about to be, or the list is full (`FailedIndexed`).

*Submission.* `SubmissionInv`: keys in the table are unique, a request's row is the
one it inserted or found, what is answered or queued is committed. The cleanup's
cutoff is 24 hours by the clock of its host against `created_at` of Postgres: a row is
`fresh` until it is within the clocks' skew of that age, then on the `edge`, where any cleanup
may or may not take its key, then `old`. `SameKeySameJob` is about fresh jobs.

*Order.* `ScoresCurrent`: an entry of the sorted set has the score of its row. The rest
is arithmetic on `priority_score`: exact in a double for the priorities
`JobCreate` accepts, and a millisecond below `Scale` never makes up for a priority.

*Time.* `LeaseLasts` bounds what is left of a lease from below by what is left of the
attempt, at each step from the claim on; a lease just written by a claim or a
renewal covers a whole attempt (`FreshLeaseCovers`). `Listed` does the same for the age of a
heartbeat entry. `Reaps` bounds how long an expired lease has waited by where the reaper
stands, counting the jobs it has to work off first. It needs to know of the open
transaction (`TxnOpen`: how old its now() may be) and of the ids selected in it (`Chosen`: an id
has run out by that now(), or was released, or leased anew for longer than the
transaction can be open), so that the first UPDATE, with its old now(), passes over no lease
that has run out.

*Only model-checked:* all liveness (`JobsSettle`, `StaleScheduleDropped`,
`PendingDrained`, `LifecycleLive`, `SubmissionEnds`), which is out of the prover's
reach. The type of `deadLetter` is a part of `DeadLetterIndex` and not
of `TypeOK`: that `SelectSeq` returns a sequence over the same set takes an
induction the prover cannot do, so it is proved where no manual retry removes entries.

## Where the code and its documents disagree

1. `retry_twice` (`job_service.py:238`). Two manual retries that both loaded the
   job as failed: the second commits after the job was claimed again and puts a
   running job back to pending; another worker executes it at the same time. No
   failure is involved. README: "only one worker executes a job at a time".
2. `cancel_race` (`job_service.py:191`). A cancel loads the job as pending, a
   worker claims it, the cancel commits: the job is cancelled and executing, and
   will end completed. PLAN: "Processing/completed jobs cannot be cancelled".
3. `late_dead_letter` (`retry.py:108`). The LPUSH follows the commit; a manual
   retry that fits in between leaves a re-opened job in the list for good. `manual_retry`:
   "Clears the Redis dead-letter index for this job"; PLAN: "Manual retry removes id from DLQ".
4. `submit_conflict` (`job_service.py:71`). The unique index is violated at
   `flush()`, before the `try` around `commit()` that means to answer with
   the existing job; the loser of the race gets a 500. (Its job is not created
   twice: `SameKeySameJob` holds.)

Smaller observations, which the properties above are worded to allow for:

- The reaper re-opens a job without looking at attempt_count (`reaper.py:46`), so a
  crash on the last attempt gives one more. PLAN: "max 3 attempts". The bound that
  holds is `AttemptBudget`.
- Within one millisecond the order of jobs is that of their UUIDs, not of created_at
  (`keys.py:26`). PLAN: "Same priority → FIFO by `created_at`". Hence the
  milliseconds in `DispatchOrder`.
- A worker whose lease ran out still commits its outcome, over a newer attempt's row
  (`executor.py:45`). No property forbids it; with stalls `ProcessingOwned`,
  `AttemptUnique` and `JobsSettle` say what it cannot do: leave a processing job without owner,
  hand out an attempt number twice, keep a job from settling.
- A worker whose lease ran out goes on reporting, and lowers the progress of a job
  somebody else has completed (`executor.py:50`). PLAN: "Completed batch jobs show
  `progress_pct = 100`". `ProgressTruthful` holds without stalls.

## What is not modelled

- Columns without control: payload, result, error_message, started_at,
  completed_at, and the audit rows of `job_logs`, written in the same transactions.
- Reads: GET job, list, logs, and the counts and depths of health. They decide
  nothing and change nothing. `list_jobs` counts and pages in two statements, so
  total and items may disagree.
- Request validation (pydantic) but for the bounds of priority, and the
  normalization of keys: pure functions of one request.
- What handlers do (simulated I/O), the lengths of backoffs, of the feeder's,
  scheduler's and cleanup's sleeps: no property depends on them.
- The graceful stop of the maintenance process: its loops end between two steps,
  which its crash covers.

## Plan

Done: the core (`JobSystem` and its parts, `Submission`); progress, the abstract life
cycle and its refinement, the dispatch order, and the timed model that justifies the
no-stall condition; all safety properties and the refinement proved.

Next:

1. Weaker conditions: what is left of exclusive execution and of the attempt budget when
   requests on one job do overlap, or when a lease does run out.
2. The parts of `DeadLetterIndex` that survive cancels and manual retries.
