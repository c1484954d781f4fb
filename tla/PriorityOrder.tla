----------------------------- MODULE PriorityOrder -----------------------------
(***************************************************************************)
(* The order in which jobs are dispatched.  Postgres knows a job's         *)
(* priority and created_at; Redis sorts jobs:pending by one number made of *)
(* the two, a double.  The other modules number a job by its rank in that  *)
(* order; here the number is computed as the program computes it.          *)
(*                                                                         *)
(* An instant is counted in microseconds, as Postgres does, from the       *)
(* oldest job that may be waiting.  The double is exact up to MaxExact     *)
(* (2^53) and even beyond it.                                              *)
(***************************************************************************)
EXTENDS Integers, Sequences, FiniteSets

CONSTANTS
  Ids,            \* job ids; their order is that of the UUIDs as strings
  Requested,      \* priorities clients ask for
  MaxPriority,    \* JobCreate accepts -MaxPriority..MaxPriority
  Scale,          \* _PRIORITY_SCALE
  UsPerMs,        \* microseconds in a millisecond
  Window,         \* microseconds between the oldest and the newest job waiting
  MaxExact,       \* doubles are exact for integers up to this
  FeederBatch     \* _FEEDER_BATCH_SIZE

ASSUME OrderConstants ==
  /\ Ids \subseteq Nat /\ IsFiniteSet(Ids)
  /\ Requested \subseteq Int
  /\ {MaxPriority, Window} \subseteq Nat
  /\ {Scale, UsPerMs, MaxExact, FeederBatch} \subseteq Nat \ {0}

(* 10^12 ms, over 31 years, lie between no two jobs that wait together,    *)
(* and 1000 * 10^12 + 10^12 is below 2^53.                                 *)
ASSUME WindowFits == Window < Scale * UsPerMs
ASSUME ScoresExact == MaxPriority * Scale + Scale <= MaxExact

VARIABLES
  row,      \* row[i]: what the table says of job i
  queue,    \* jobs:pending, entries with their scores
  feeder    \* jobs the feeder has selected and not enqueued yet

vars == <<row, queue, feeder>>

NoRow == [status |-> "absent", priority |-> 0, created_at |-> 0]

Init ==
  /\ row = [i \in Ids |-> NoRow]
  /\ queue = {}
  /\ feeder = << >>

-------------------------------------------------------------------------------
(* A number as the double nearest to it, ties to the even one.             *)
Double(n) ==
  LET h == n \div 2 IN
  IF n \in -MaxExact..MaxExact \/ n % 2 = 0 THEN n
  ELSE IF h % 2 = 0 THEN 2 * h ELSE 2 * h + 2

priority_score(p, at) == Double(-p * Scale + at \div UsPerMs)

Score(i) == priority_score(row[i].priority, row[i].created_at)

(* Mutant: no bounds.                                                      *)
AcceptedAny(p) == TRUE

(* JobCreate.priority                                                      *)
Accepted(p) == p \in -MaxPriority..MaxPriority

-------------------------------------------------------------------------------
(* submit_job commits the row.  created_at is when the transaction began,  *)
(* so rows need not appear in the order of created_at.                     *)
Submit(i) ==
  /\ row[i].status = "absent"
  /\ \E p \in Requested, at \in 0..Window :
       /\ Accepted(p)
       /\ row' = [row EXCEPT ![i] = [status |-> "pending", priority |-> p, created_at |-> at]]
  /\ UNCHANGED <<queue, feeder>>

Queued(i) == \E e \in queue : e.id = i

(* The ZADD of the submission, or of the scheduler once a scheduled job is *)
(* due; it may come late, or never.                                        *)
Enqueue(i) ==
  /\ row[i].status # "absent"
  /\ queue' = {e \in queue : e.id # i} \cup {[id |-> i, score |-> Score(i)]}
  /\ UNCHANGED <<row, feeder>>

Pending == {i \in Ids : row[i].status = "pending"}

(* Mutant: ORDER BY created_at alone.                                      *)
OrderedByAge(i, k) == row[i].created_at <= row[k].created_at

(* ORDER BY priority DESC, created_at ASC                                  *)
Ordered(i, k) ==
  \/ row[i].priority > row[k].priority
  \/ row[i].priority = row[k].priority /\ row[i].created_at <= row[k].created_at

(* The lists the SELECT with LIMIT may return.                             *)
Selections ==
  LET size == IF Cardinality(Pending) < FeederBatch THEN Cardinality(Pending) ELSE FeederBatch
  IN {s \in [1..size -> Pending] :
        /\ \A m, n \in 1..size : m < n => s[m] # s[n] /\ Ordered(s[m], s[n])
        /\ \A k \in Pending : \/ \E n \in 1..size : s[n] = k
                              \/ \A n \in 1..size : Ordered(s[n], k)}

FeederSelect ==
  /\ feeder = << >>
  /\ feeder' \in Selections
  /\ UNCHANGED <<row, queue>>

(* ZADD NX of the next job in the list.                                    *)
FeederEnqueue ==
  /\ feeder # << >>
  /\ LET i == Head(feeder) IN
     queue' = IF Queued(i) THEN queue ELSE queue \cup {[id |-> i, score |-> Score(i)]}
  /\ feeder' = Tail(feeder)
  /\ UNCHANGED row

(* Redis sorts by score and, for equal scores, by member.                  *)
Precedes(e, f) == e.score < f.score \/ (e.score = f.score /\ e.id <= f.id)

(* ZPOPMIN; the claim that follows takes the job if it is still pending.   *)
Dequeue(i) ==
  /\ \E e \in queue :
       /\ e.id = i
       /\ \A f \in queue : Precedes(e, f)
       /\ queue' = queue \ {e}
  /\ row' = [row EXCEPT ![i].status = IF @ = "pending" THEN "processing" ELSE @]
  /\ UNCHANGED feeder

(* A failed attempt, the reaper or a manual retry makes the job pending    *)
(* again; the feeder will find it.                                         *)
BackToPending(i) ==
  /\ row[i].status = "processing"
  /\ row' = [row EXCEPT ![i].status = "pending"]
  /\ UNCHANGED <<queue, feeder>>

RedisRestart == queue # {} /\ queue' = {} /\ UNCHANGED <<row, feeder>>

Next ==
  \/ \E i \in Ids : Submit(i) \/ Enqueue(i) \/ Dequeue(i) \/ BackToPending(i)
  \/ FeederSelect
  \/ FeederEnqueue
  \/ RedisRestart

Spec == Init /\ [][Next]_vars

-------------------------------------------------------------------------------
(* What the documents mean by order: the higher priority first, and within *)
(* one priority the older job, as far as milliseconds tell.                *)
Before(i, k) ==
  \/ row[i].priority > row[k].priority
  \/ /\ row[i].priority = row[k].priority
     /\ row[i].created_at \div UsPerMs < row[k].created_at \div UsPerMs

(* dequeue never passes over a job in jobs:pending that comes before the   *)
(* one it takes, whoever enqueued the two and in whatever order: the score *)
(* loses neither the priority nor the millisecond, not at the greatest     *)
(* priorities nor for jobs created as far apart as possible.               *)
DispatchOrder ==
  [][\A i \in Ids : Dequeue(i) => \A e \in queue : ~ Before(e.id, i)]_vars

(* The feeder enqueues in the order dispatch would take: an executor that  *)
(* pops between two of its ZADDs, or a cycle that dies halfway, finds the  *)
(* jobs with the lowest scores in jobs:pending, and a job left out by      *)
(* LIMIT has no lower score than one taken.  The SQL order is finer than   *)
(* the score and never contradicts it.                                     *)
FeederOrder ==
  [][FeederSelect =>
       \A n \in 1..Len(feeder'), k \in Pending :
         (\A m \in 1..n : feeder'[m] # k) => Score(feeder'[n]) <= Score(k)]_vars
===============================================================================
