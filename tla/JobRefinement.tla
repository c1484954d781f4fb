----------------------------- MODULE JobRefinement -----------------------------
(***************************************************************************)
(* JobSystem implements JobLifecycle, as long as no lease runs out under a *)
(* live worker and no two API requests on one job overlap.                 *)
(***************************************************************************)
EXTENDS JobSystem

ClientState(row) == IF row.status \in {"pending", "scheduled"} THEN "waiting" ELSE row.status

Life == INSTANCE JobLifecycle WITH
  state    <- [j \in Jobs |-> ClientState(db[j])],
  attempts <- [j \in Jobs |-> db[j].attempt_count],
  limit    <- [j \in Jobs |-> db[j].max_attempts],
  executor <- [j \in Jobs |-> {w \in Workers : Runs(w, j)}]

(* Every step of requests, workers, loops, clocks and failures is a step   *)
(* of JobLifecycle or changes nothing there: attempts are begun one at a   *)
(* time by claim_job, outcomes come from the executor that runs the        *)
(* current attempt, the reaper takes back only what nobody executes.       *)
LifecycleImplemented == Life!Spec

(* Moreover the polling loops bring every job on: what JobLifecycle        *)
(* promises to do by itself the system does, whatever single failure hits. *)
LifecycleLive == Life!FairSpec
===============================================================================
