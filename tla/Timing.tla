-------------------------------- MODULE Timing --------------------------------
(***************************************************************************)
(* The intervals of Settings that keep a lease longer than the attempt it  *)
(* covers and a heartbeat entry fresher than its time to live, with the    *)
(* loops that use them: executor, heartbeat and reaper.  The other modules *)
(* take from here that a lease does not run out under a live worker.       *)
(*                                                                         *)
(* Time is counted in steps of Tick.  A loop waits for one operation of    *)
(* Postgres or Redis (statement and commit, or pipeline) at most Delay.    *)
(* The operation takes effect at one moment of that wait and is answered   *)
(* at a later one, and only then does the loop go on; the wait for the     *)
(* answer is a pc of its own.  The clock of an application host is off by  *)
(* at most Skew from the one of Postgres.  A timestamp a host computes     *)
(* before it waits is known from how long it has waited: age.              *)
(***************************************************************************)
EXTENDS Integers, FiniteSets

CONSTANTS
  Workers, NoWorker, NoJob,
  Jobs,           \* jobs under a lease: at most one batch of the reaper
  Lease,          \* worker_lease_seconds
  JobTimeout,     \* job_timeout_seconds
  Interval,       \* worker_heartbeat_interval_seconds
  Ttl,            \* worker_heartbeat_ttl_seconds
  ReaperPoll,     \* reaper_poll_interval_seconds
  Delay,          \* bound: one wait for Postgres or Redis
  Skew,           \* bound: host clock against the clock of Postgres
  MaxDown,        \* bound: workers that stop or die
  Off             \* Off[w]: the clock of w's host less that of Postgres

ASSUME TimingConstants ==
  /\ NoWorker \notin Workers /\ NoJob \notin Jobs /\ IsFiniteSet(Jobs)
  /\ {Lease, JobTimeout, Interval, Ttl, ReaperPoll, Delay, Skew, MaxDown} \subseteq Nat
  /\ Off \in [Workers -> -Skew..Skew]

(* config.py: "Keep below worker_lease_seconds so the worker can finalize  *)
(* before the reaper", and "keep > interval", made exact.  The four waits  *)
(* are a renewal that lands on the next claim, that claim, the log and the *)
(* outcome.                                                                *)
ASSUME LeaseFits == JobTimeout + 4 * Delay + Skew <= Lease
ASSUME TtlFits == Interval + 3 * Delay + 2 * Skew < Ttl

VARIABLES
  proc,       \* proc[w]
  run,        \* run[w]: the executor loop
  holder,     \* holder[w]: LeaseHolder.job_id
  beat,       \* beat[w]: the heartbeat loop
  lease,      \* lease[j]: worker_id, and leased_until - now() in Postgres
  seen,       \* workers:heartbeat: for each member, how old its score is
  reaper      \* the reaper loop

vars == <<proc, run, holder, beat, lease, seen, reaper>>

NoLease == [owner |-> NoWorker, left |-> 0]
At(pc, j) == [pc |-> pc, age |-> 0, job |-> j]
NoTxn == -1       \* the reaper has no transaction open

Init ==
  /\ proc = [w \in Workers |-> "up"]
  /\ run = [w \in Workers |-> At("idle", NoJob)]
  /\ holder = [w \in Workers |-> NoJob]
  /\ beat = [w \in Workers |-> At("first", NoJob)]
  /\ lease = [j \in Jobs |-> NoLease]
  /\ seen = [w \in {} |-> 0]
  /\ reaper = [pc |-> "select", age |-> 0, todo |-> {}, lag |-> NoTxn]

Alive(w) == proc[w] # "dead"

(* How a timestamp computed by w `age` ago compares with now in Postgres.  *)
Ahead(w, age) == Off[w] - age

(* Mutant: the lease is as long as a job may take.                         *)
leased_untilTooShort(w, age) == Ahead(w, age) + JobTimeout

leased_until(w, age) == Ahead(w, age) + Lease

-------------------------------------------------------------------------------
(* The executor loop: claim, log, run the handler, write the outcome.      *)

Goto(w, pc) == run' = [run EXCEPT ![w] = At(pc, @.job)]

Rest == UNCHANGED <<proc, beat, seen, reaper>>

IssueClaim(w, j) ==
  /\ Alive(w)
  /\ run[w].pc = "idle"
  /\ run' = [run EXCEPT ![w] = At("claim", j)]
  /\ UNCHANGED <<holder, lease>> /\ Rest

(* A claim that lost is answered too, but idle has no bound and covers the *)
(* wait.                                                                   *)
Claim(w) ==
  LET j == run[w].job IN
  /\ run[w].pc = "claim"
  /\ IF lease[j].owner = NoWorker
       THEN /\ lease' = [lease EXCEPT ![j] = [owner |-> w, left |-> leased_until(w, run[w].age)]]
            /\ run' = [run EXCEPT ![w].pc = "claimed"]
       ELSE /\ run' = [run EXCEPT ![w] = At("idle", NoJob)]
            /\ UNCHANGED lease
  /\ UNCHANGED holder /\ Rest

ClaimAnswered(w) ==
  /\ run[w].pc = "claimed"
  /\ holder' = [holder EXCEPT ![w] = run[w].job]
  /\ Goto(w, "log")
  /\ UNCHANGED lease /\ Rest

LogStarted(w) ==
  /\ run[w].pc = "log"
  /\ Goto(w, "handler")
  /\ UNCHANGED <<holder, lease>> /\ Rest

(* It returned or raised, or wait_for ended it after JobTimeout.           *)
HandlerEnds(w) ==
  /\ run[w].pc = "handler"
  /\ Goto(w, "outcome")
  /\ UNCHANGED <<holder, lease>> /\ Rest

(* The outcome is committed WHERE id = ... alone; the job may be claimed   *)
(* again, after a backoff or as another job in its place.                  *)
Outcome(w) ==
  /\ run[w].pc = "outcome"
  /\ lease' = [lease EXCEPT ![run[w].job] = NoLease]
  /\ Goto(w, "release")
  /\ UNCHANGED holder /\ Rest

(* The commit is answered, a failed job put in the dead-letter list, and   *)
(* the finally clause clears the holder.                                   *)
Release(w) ==
  /\ run[w].pc = "release"
  /\ holder' = [holder EXCEPT ![w] = IF @ = run[w].job THEN NoJob ELSE @]
  /\ run' = [run EXCEPT ![w] = At("idle", NoJob)]
  /\ UNCHANGED lease /\ Rest

-------------------------------------------------------------------------------
(* The heartbeat loop.                                                     *)

(* The age, by the clock w read before it sent the pipeline, at which an   *)
(* entry is pruned.  Mutants: by the interval; not at all.                 *)
PrunedInterval(w) == {v \in DOMAIN seen : seen[v] >= Interval - Ahead(w, beat[w].age)}
PrunedNothing(w) == {}

Pruned(w) == {v \in DOMAIN seen : seen[v] >= Ttl - Ahead(w, beat[w].age)}

(* ZADD and ZREMRANGEBYSCORE in one transaction; the ZADD comes first.     *)
worker_heartbeat(w) ==
  /\ beat[w].pc \in {"first", "beat"}
  /\ seen' = [v \in (DOMAIN seen \ Pruned(w)) \cup {w} |->
               IF v = w THEN - Ahead(w, beat[w].age) ELSE seen[v]]
  /\ beat' = [beat EXCEPT ![w].pc = "listed"]
  /\ UNCHANGED <<proc, run, holder, lease, reaper>>

HeartbeatAnswered(w) ==
  /\ beat[w].pc = "listed"
  /\ beat' = [beat EXCEPT ![w] = IF holder[w] = NoJob THEN At("sleep", NoJob)
                                                      ELSE At("renew", holder[w])]
  /\ UNCHANGED <<proc, run, holder, lease, seen, reaper>>

renew_job_lease(w) ==
  LET j == beat[w].job IN
  /\ beat[w].pc = "renew"
  /\ IF lease[j].owner = w
       THEN /\ lease' = [lease EXCEPT ![j].left = leased_until(w, beat[w].age)]
            /\ beat' = [beat EXCEPT ![w].pc = "renewed"]
       ELSE /\ beat' = [beat EXCEPT ![w].pc = "missed"]
            /\ UNCHANGED lease
  /\ UNCHANGED <<proc, run, holder, seen, reaper>>

(* A renewal that missed clears the holder, even if the job in it is a new *)
(* attempt of the same one by now.                                         *)
RenewalAnswered(w) ==
  /\ beat[w].pc \in {"renewed", "missed"}
  /\ holder' = [holder EXCEPT ![w] = IF beat[w].pc = "missed" /\ @ = beat[w].job THEN NoJob ELSE @]
  /\ beat' = [beat EXCEPT ![w] = At("sleep", NoJob)]
  /\ UNCHANGED <<proc, run, lease, seen, reaper>>

(* wait_or_stop: after the interval, or as soon as the process stops.      *)
Wake(w) ==
  /\ beat[w].pc = "sleep"
  /\ \/ proc[w] = "up" /\ beat[w].age = Interval
        /\ beat' = [beat EXCEPT ![w] = At("beat", NoJob)]
     \/ proc[w] = "stopping"
        /\ beat' = [beat EXCEPT ![w] = At("offline", NoJob)]
  /\ UNCHANGED <<proc, run, holder, lease, seen, reaper>>

worker_offline(w) ==
  /\ beat[w].pc = "offline"
  /\ seen' = [v \in DOMAIN seen \ {w} |-> seen[v]]
  /\ beat' = [beat EXCEPT ![w] = At("done", NoJob)]
  /\ UNCHANGED <<proc, run, holder, lease, reaper>>

-------------------------------------------------------------------------------
(* A bound: a worker that is up may stop or die.                           *)
MayGoDown == Cardinality({w \in Workers : proc[w] # "up"}) < MaxDown

(* SIGTERM: the job in hand is finished, without heartbeats.               *)
Stop(w) ==
  /\ proc[w] = "up" /\ MayGoDown
  /\ proc' = [proc EXCEPT ![w] = "stopping"]
  /\ UNCHANGED <<run, holder, beat, lease, seen, reaper>>

Crash(w) ==
  /\ proc[w] = "stopping" \/ (proc[w] = "up" /\ MayGoDown)
  /\ proc' = [proc EXCEPT ![w] = "dead"]
  /\ run' = [run EXCEPT ![w] = At("idle", NoJob)]
  /\ holder' = [holder EXCEPT ![w] = NoJob]
  /\ beat' = [beat EXCEPT ![w] = At("done", NoJob)]
  /\ UNCHANGED <<lease, seen, reaper>>

-------------------------------------------------------------------------------
(* The reaper loop.  now() is the moment the transaction began, lag ago.   *)
(* The SELECT opens one, which the first UPDATE shares and its commit or   *)
(* rollback ends; each further UPDATE opens its own.                       *)

Expired(j, lag) == lease[j].owner # NoWorker /\ lease[j].left + lag < 0

(* How long ago the transaction of the operation under way may have begun. *)
Begun == IF reaper.lag = NoTxn THEN 0..reaper.age ELSE {reaper.lag}

ReaperSelect ==
  /\ reaper.pc = "select"
  /\ \E lag \in Begun :
       reaper' = [reaper EXCEPT !.pc = "selected", !.todo = {j \in Jobs : Expired(j, lag)}, !.lag = lag]
  /\ UNCHANGED <<proc, run, holder, beat, lease, seen>>

Reap(j) ==
  /\ reaper.pc = "update"
  /\ j \in reaper.todo
  /\ \E lag \in Begun :
       lease' = IF Expired(j, lag) THEN [lease EXCEPT ![j] = NoLease] ELSE lease
  /\ reaper' = [reaper EXCEPT !.pc = "updated", !.todo = @ \ {j}, !.lag = NoTxn]
  /\ UNCHANGED <<proc, run, holder, beat, seen>>

(* On to the next id of the batch; after the last the session is closed.   *)
ReaperAnswered ==
  /\ reaper.pc \in {"selected", "updated"}
  /\ reaper' = IF reaper.todo = {}
                 THEN [pc |-> "sleep", age |-> 0, todo |-> {}, lag |-> NoTxn]
                 ELSE [reaper EXCEPT !.pc = "update", !.age = 0]
  /\ UNCHANGED <<proc, run, holder, beat, lease, seen>>

(* Mutant: it waits for a lease's length.                                  *)
ReaperPauseLease == Lease

ReaperPause == ReaperPoll

ReaperWake ==
  /\ reaper.pc = "sleep"
  /\ reaper.age = ReaperPause
  /\ reaper' = [reaper EXCEPT !.pc = "select", !.age = 0]
  /\ UNCHANGED <<proc, run, holder, beat, lease, seen>>

-------------------------------------------------------------------------------
(* How long each loop may stay where it is; idle and release have no       *)
(* bound.                                                                  *)
Unbounded == {"idle", "release"}

RunBound(w) == IF run[w].pc = "handler" THEN JobTimeout ELSE Delay

BeatBound(w) ==
  CASE beat[w].pc = "sleep" -> IF proc[w] = "up" THEN Interval ELSE 0
    [] OTHER -> Delay

ReaperBound == IF reaper.pc = "sleep" THEN ReaperPause ELSE Delay

CanWait ==
  /\ \A w \in Workers : /\ run[w].pc \in Unbounded \/ run[w].age < RunBound(w)
                        /\ beat[w].pc = "done" \/ beat[w].age < BeatBound(w)
  /\ reaper.age < ReaperBound

(* The most a lease may be overdue, and a heartbeat entry be old.          *)
MaxOverdue == ReaperPoll + Delay + 2 * Delay * Cardinality(Jobs)
MaxSeen == Ttl + Interval + 3 * Delay + Skew

(* Timers nobody needs any more stand still; leases and entries that have  *)
(* passed their maximum are not counted further.                           *)
Tick ==
  /\ CanWait
  /\ run' = [w \in Workers |-> IF run[w].pc \in Unbounded THEN run[w] ELSE [run[w] EXCEPT !.age = @ + 1]]
  /\ beat' = [w \in Workers |-> IF beat[w].pc = "done" THEN beat[w]
                                                       ELSE [beat[w] EXCEPT !.age = @ + 1]]
  /\ lease' = [j \in Jobs |-> IF lease[j].owner = NoWorker \/ lease[j].left < - MaxOverdue
                                THEN lease[j] ELSE [lease[j] EXCEPT !.left = @ - 1]]
  /\ seen' = [w \in DOMAIN seen |-> IF seen[w] > MaxSeen THEN seen[w] ELSE seen[w] + 1]
  /\ reaper' = [reaper EXCEPT !.age = @ + 1, !.lag = IF @ = NoTxn THEN @ ELSE @ + 1]
  /\ UNCHANGED <<proc, holder>>

Next ==
  \/ \E w \in Workers :
       \/ \E j \in Jobs : IssueClaim(w, j)
       \/ Claim(w) \/ ClaimAnswered(w) \/ LogStarted(w) \/ HandlerEnds(w) \/ Outcome(w) \/ Release(w)
       \/ worker_heartbeat(w) \/ HeartbeatAnswered(w) \/ renew_job_lease(w) \/ RenewalAnswered(w)
       \/ Wake(w) \/ worker_offline(w)
       \/ Stop(w) \/ Crash(w)
  \/ ReaperSelect \/ ReaperAnswered \/ ReaperWake \/ \E j \in Jobs : Reap(j)
  \/ Tick

Spec == Init /\ [][Next]_vars

-------------------------------------------------------------------------------
(* The lease of an attempt lasts until its outcome is committed: it is the *)
(* worker's own and has not run out, even when the heartbeat has ended     *)
(* because the process is draining, when a renewal computed before the     *)
(* claim lands after it, and when the host's clock is behind.              *)
LeaseOutlivesRun ==
  \A w \in Workers : run[w].pc \in {"claimed", "log", "handler", "outcome"} =>
    lease[run[w].job].owner = w /\ lease[run[w].job].left >= 0

(* A lease that has run out is taken back within a poll of the reaper and  *)
(* the statements of two cycles, even when it runs out just after the      *)
(* transaction of the first SELECT began and every answer comes late.      *)
ReapedInTime == \A j \in Jobs : lease[j].left >= - MaxOverdue

(* The entries list_alive_workers returns to a reader whose clock is off   *)
(* by o.                                                                   *)
list_alive_workers(o) == {w \in DOMAIN seen : seen[w] <= Ttl - o}

(* GET /health lists a worker from its first beat until it stops or dies,  *)
(* to a reader on any host: neither a late renewal, nor a fast clock, nor  *)
(* the pruning by another worker drops it.                                 *)
ListedWhileUp ==
  \A w \in Workers, o \in -Skew..Skew :
    proc[w] = "up" /\ beat[w].pc # "first" => w \in list_alive_workers(o)

(* The entry of a worker that died does not stay in Redis while another    *)
(* worker beats.                                                           *)
DeadPruned ==
  (\E w \in Workers : proc[w] = "up") => \A v \in DOMAIN seen : seen[v] < MaxSeen
===============================================================================
