----------------------------- MODULE JobLifecycle -----------------------------
(***************************************************************************)
(* What the job system promises of a job, with the queues, leases, polling *)
(* loops and crashes left out: a job waits, is executed by one worker at a *)
(* time, each time as a new attempt, and ends.  An outcome comes from its  *)
(* executor and from nobody else; a job whose executor died is handed out  *)
(* again; only a manual retry leaves failed.                               *)
(*                                                                         *)
(* Cancelling is best effort: it may come over a job that is being         *)
(* executed or has just ended, and does not stop the executor.             *)
(***************************************************************************)
EXTENDS Naturals

CONSTANTS Jobs, Workers, DefaultMaxAttempts

VARIABLES
  state,        \* state[j]: what a client sees
  attempts,     \* attempts[j]: executions begun
  limit,        \* limit[j]: executions a failure may lead to
  executor      \* executor[j]: the workers that execute j

vars == <<state, attempts, limit, executor>>

Init ==
  /\ state = [j \in Jobs |-> "absent"]
  /\ attempts = [j \in Jobs |-> 0]
  /\ limit = [j \in Jobs |-> 0]
  /\ executor = [j \in Jobs |-> {}]

Becomes(j, s) == state' = [state EXCEPT ![j] = s]

Submit(j) ==
  /\ state[j] = "absent"
  /\ Becomes(j, "waiting")
  /\ limit' = [limit EXCEPT ![j] = DefaultMaxAttempts]
  /\ UNCHANGED <<attempts, executor>>

Start(j, w) ==
  /\ state[j] = "waiting"
  /\ executor[j] = {}
  /\ Becomes(j, "processing")
  /\ attempts' = [attempts EXCEPT ![j] = @ + 1]
  /\ executor' = [executor EXCEPT ![j] = {w}]
  /\ UNCHANGED limit

(* The executor is done, with outcome s.                                   *)
Finish(j, s) ==
  /\ executor[j] # {}
  /\ s = "waiting" => attempts[j] < limit[j]
  /\ Becomes(j, s)
  /\ executor' = [executor EXCEPT ![j] = {}]
  /\ UNCHANGED <<attempts, limit>>

Die(j) ==
  /\ executor[j] # {}
  /\ executor' = [executor EXCEPT ![j] = {}]
  /\ UNCHANGED <<state, attempts, limit>>

Recover(j) ==
  /\ state[j] = "processing"
  /\ executor[j] = {}
  /\ Becomes(j, "waiting")
  /\ UNCHANGED <<attempts, limit, executor>>

Cancel(j) ==
  /\ state[j] # "absent"
  /\ Becomes(j, "cancelled")
  /\ UNCHANGED <<attempts, limit, executor>>

Reopen(j) ==
  /\ state[j] = "failed"
  /\ Becomes(j, "waiting")
  /\ limit' = [limit EXCEPT ![j] = @ + 1]
  /\ UNCHANGED <<attempts, executor>>

(* What the system does by itself.                                         *)
Progress(j) ==
  \/ \E w \in Workers : Start(j, w)
  \/ \E s \in {"completed", "waiting", "failed"} : Finish(j, s)
  \/ Recover(j)

Next == \E j \in Jobs : Progress(j) \/ Submit(j) \/ Die(j) \/ Cancel(j) \/ Reopen(j)

Spec == Init /\ [][Next]_vars

(* No job is left waiting, executing or orphaned for ever.                 *)
FairSpec == Spec /\ \A j \in Jobs : WF_vars(Progress(j))
===============================================================================
