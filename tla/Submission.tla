------------------------------ MODULE Submission ------------------------------
(***************************************************************************)
(* POST /jobs with an Idempotency-Key: concurrent submissions that look    *)
(* for a job with their key, insert (flush), commit and enqueue, the       *)
(* partial unique index on jobs.idempotency_key that arbitrates between    *)
(* them, and the cleanup loop that frees keys older than 24 hours.         *)
(*                                                                         *)
(* A submission creates at most one job, so the job is named by it.  The   *)
(* index makes an insert wait while an uncommitted row holds the key, and  *)
(* fail once a committed one does.                                         *)
(***************************************************************************)
EXTENDS Naturals

CONSTANTS Submissions, Keys, NoKey

ASSUME NoKeyAssumption == NoKey \notin Keys

VARIABLES
  sub,          \* sub[s]: where submit_job stands, its key and the job it returns
  row,          \* row[s]: the row inserted by s
  queued        \* jobs in Redis

vars == <<sub, row, queued>>

None == "none"   \* no answer yet, and what a request that died leaves

Row == [state : {"none", "open", "committed"},   \* open: flushed, not committed
        key   : Keys \cup {NoKey},               \* the column idempotency_key
        age   : {"fresh", "edge", "old"}]        \* of created_at, see Expired

NoRow == [state |-> "none", key |-> NoKey, age |-> "fresh"]

Sub == [pc  : {"idle", "insert", "commit", "enqueue", "done", "error", "lost"},
        key : Keys \cup {NoKey},
        job : Submissions \cup {None}]

Init ==
  /\ sub = [s \in Submissions |-> [pc |-> "idle", key |-> NoKey, job |-> None]]
  /\ row = [s \in Submissions |-> NoRow]
  /\ queued = {}

(* The rows that hold key k in the index, in the given state.              *)
Holding(k, state) ==
  {t \in Submissions : row[t].state = state /\ row[t].key = k /\ k # NoKey}

-------------------------------------------------------------------------------
(* submit_job                                                              *)

(* find_job_by_idempotency_key sees committed rows; a hit is answered 200. *)
Find(s, k) ==
  /\ sub[s].pc = "idle"
  /\ IF Holding(k, "committed") = {}
       THEN sub' = [sub EXCEPT ![s] = [pc |-> "insert", key |-> k, job |-> None]]
       ELSE \E t \in Holding(k, "committed") :
              sub' = [sub EXCEPT ![s] = [pc |-> "done", key |-> k, job |-> t]]
  /\ UNCHANGED <<row, queued>>

(* session.flush(): waits on an open row with the key; on a committed one  *)
(* it raises IntegrityError, outside the try of the commit: 500.           *)
Insert(s) ==
  /\ sub[s].pc = "insert"
  /\ Holding(sub[s].key, "open") = {}
  /\ IF Holding(sub[s].key, "committed") = {}
       THEN /\ row' = [row EXCEPT ![s] = [state |-> "open", key |-> sub[s].key, age |-> "fresh"]]
            /\ sub' = [sub EXCEPT ![s].pc = "commit"]
       ELSE /\ sub' = [sub EXCEPT ![s].pc = "error"]
            /\ UNCHANGED row
  /\ UNCHANGED queued

(* Mutant: Redis first.                                                    *)
CommitAfterEnqueue(s) ==
  /\ sub[s].pc = "commit"
  /\ queued' = queued \cup {s}
  /\ sub' = [sub EXCEPT ![s].pc = "enqueue"]
  /\ UNCHANGED row

(* The index is not deferred, so the commit itself cannot violate it: the  *)
(* handler of IntegrityError around it is never entered.                   *)
Commit(s) ==
  /\ sub[s].pc = "commit"
  /\ row' = [row EXCEPT ![s].state = "committed"]
  /\ sub' = [sub EXCEPT ![s].pc = "enqueue"]
  /\ UNCHANGED queued

(* ZADD, then 201.                                                         *)
Enqueue(s) ==
  /\ sub[s].pc = "enqueue"
  /\ queued' = queued \cup {s}
  /\ sub' = [sub EXCEPT ![s].pc = "done", ![s].job = s]
  /\ UNCHANGED row

(* Mutant: the transaction of a dead request stays open.                   *)
LoseHoldingLock(s) ==
  /\ sub[s].pc \in {"insert", "commit", "enqueue"}
  /\ sub' = [sub EXCEPT ![s].pc = "lost"]
  /\ UNCHANGED <<row, queued>>

(* The request dies: an open transaction is rolled back, a committed row   *)
(* stays (the feeder finds it), and the client hears nothing.              *)
Lose(s) ==
  /\ sub[s].pc \in {"insert", "commit", "enqueue"}
  /\ sub' = [sub EXCEPT ![s].pc = "lost"]
  /\ row' = [row EXCEPT ![s] = IF @.state = "open" THEN NoRow ELSE @]
  /\ UNCHANGED queued

-------------------------------------------------------------------------------
(* Time goes by for a committed row: to within a clock's skew of 24 hours, *)
(* and past it.                                                            *)
Ages(s) ==
  /\ row[s].state = "committed"
  /\ row[s].age # "old"
  /\ row' = [row EXCEPT ![s].age = IF @ = "fresh" THEN "edge" ELSE "old"]
  /\ UNCHANGED <<sub, queued>>

(* The rows for which it depends on the clock of the maintenance host,     *)
(* against Postgres's created_at, whether they are past the cutoff.        *)
Edge == {s \in Submissions : row[s].age = "edge"}

(* Mutant: keys are freed whatever their age.                              *)
ExpiredAll(s, past) == row[s].state = "committed" /\ row[s].key # NoKey

(* Past the cutoff: older than 24 hours by any clock, or by this host's.   *)
Expired(s, past) ==
  /\ row[s].state = "committed" /\ row[s].key # NoKey
  /\ row[s].age = "old" \/ s \in past

(* Mutant: keys are blanked instead of set to NULL.                        *)
CleanupToEmptyString ==
  \E past \in SUBSET Edge :
    /\ \E s \in Submissions : Expired(s, past)
    /\ row' = [s \in Submissions |-> IF Expired(s, past) THEN [row[s] EXCEPT !.key = ""] ELSE row[s]]
    /\ UNCHANGED <<sub, queued>>

(* One UPDATE over all expired rows with a key.                            *)
Cleanup ==
  \E past \in SUBSET Edge :
    /\ \E s \in Submissions : Expired(s, past)
    /\ row' = [s \in Submissions |-> IF Expired(s, past) THEN [row[s] EXCEPT !.key = NoKey] ELSE row[s]]
    /\ UNCHANGED <<sub, queued>>

Progress(s) == Insert(s) \/ Commit(s) \/ Enqueue(s)

Next ==
  \/ \E s \in Submissions, k \in Keys \cup {NoKey} : Find(s, k)
  \/ \E s \in Submissions : Progress(s) \/ Lose(s) \/ Ages(s)
  \/ Cleanup

Spec == Init /\ [][Next]_vars

(* A request that has begun is driven on by its server.                    *)
FairSpec == Spec /\ \A s \in Submissions : WF_vars(Progress(s))

-------------------------------------------------------------------------------
TypeOK ==
  /\ sub \in [Submissions -> Sub]
  /\ row \in [Submissions -> Row]
  /\ queued \subseteq Submissions

(* PLAN.md, "Same key within 24h returns same job": two clients that sent  *)
(* the same key and were given a job (201 or 200) were given the same job, *)
(* unless one of the two jobs is older than 24 hours less the skew of the  *)
(* clocks; whatever searches, inserts, rollbacks and cleanups interleaved. *)
SameKeySameJob ==
  \A s, t \in Submissions :
    /\ sub[s].pc = "done" /\ sub[t].pc = "done"
    /\ sub[s].key = sub[t].key /\ sub[s].key # NoKey
    /\ row[sub[s].job].age = "fresh" /\ row[sub[t].job].age = "fresh"
    => sub[s].job = sub[t].job

(* No entry of Redis and no answer to a client names a job that Postgres   *)
(* does not hold durably: the commit comes before the ZADD and the answer, *)
(* so a request that dies in between leaves no ghost.                      *)
DispatchedIsDurable ==
  /\ \A s \in queued : row[s].state = "committed"
  /\ \A s \in Submissions : sub[s].pc = "done" => row[sub[s].job].state = "committed"

(* A submission that waits for another one's transaction gets its turn, to *)
(* insert or to be refused: no request is left hanging on the index.       *)
SubmissionEnds ==
  \A s \in Submissions : (sub[s].pc = "insert") ~> (sub[s].pc \in {"done", "error", "lost"})

-------------------------------------------------------------------------------
(* job_service.py: "Race condition: concurrent duplicate insert on the     *)
(* partial unique index" is answered with the existing job, not an error.  *)
NoServerError == \A s \in Submissions : sub[s].pc # "error"
===============================================================================
