----------------------------- MODULE TimingProofs -----------------------------
(***************************************************************************)
(* Proofs about Timing: the four promises of the intervals hold for every  *)
(* setting of them that satisfies LeaseFits and TtlFits, for any number of *)
(* workers and any finite set of leased jobs.                              *)
(***************************************************************************)
EXTENDS Timing, FiniteSetTheorems, TLAPS

RunPc == {"idle", "claim", "claimed", "log", "handler", "outcome", "release"}
BeatPc == {"first", "beat", "listed", "renew", "renewed", "missed", "sleep", "offline", "done"}
ReaperPc == {"select", "selected", "update", "updated", "sleep"}
Loop(pcs) == [pc : pcs, age : Nat, job : Jobs \cup {NoJob}]

Types ==
  /\ proc \in [Workers -> {"up", "stopping", "dead"}]
  /\ run \in [Workers -> Loop(RunPc)]
  /\ holder \in [Workers -> Jobs \cup {NoJob}]
  /\ beat \in [Workers -> Loop(BeatPc)]
  /\ lease \in [Jobs -> [owner : Workers \cup {NoWorker}, left : Int]]
  /\ DOMAIN seen \subseteq Workers
  /\ \A v \in DOMAIN seen : seen[v] \in Int
  /\ reaper \in [pc : ReaperPc, age : Nat, todo : SUBSET Jobs, lag : Nat \cup {NoTxn}]

(* A loop is never longer where it is than CanWait lets it, and the job it *)
(* works on is one.                                                        *)
InBounds ==
  /\ \A w \in Workers : run[w].pc # "idle" => run[w].job \in Jobs
  /\ \A w \in Workers : run[w].pc \notin Unbounded => run[w].age <= RunBound(w)
  /\ \A w \in Workers : beat[w].pc = "renew" => beat[w].job \in Jobs
  /\ \A w \in Workers : beat[w].age <= IF beat[w].pc = "sleep" THEN Interval ELSE Delay
  /\ reaper.age <= ReaperBound

(* The settings are natural numbers.                                       *)
LEMMA SettingsNat ==
  /\ Lease \in Nat /\ JobTimeout \in Nat /\ Interval \in Nat /\ Ttl \in Nat
  /\ ReaperPoll \in Nat /\ Delay \in Nat /\ Skew \in Nat
BY TimingConstants

(* Initially every variable has its type and no loop has waited.           *)
LEMMA InitTypes == Init => Types /\ InBounds
<1> SUFFICES ASSUME Init PROVE Types /\ InBounds
  OBVIOUS
<1>1. Types
  BY SettingsNat DEF Init, Types, Loop, RunPc, BeatPc, ReaperPc, At, NoLease
<1>2. InBounds
  BY SettingsNat DEF Init, InBounds, Unbounded, At, ReaperBound, ReaperPause
<1> QED BY <1>1, <1>2

(* A timestamp a host computes is a number.                                *)
LEMMA LeasedUntilInt ==
  ASSUME NEW w \in Workers, NEW a \in Nat
  PROVE  /\ Ahead(w, a) \in Int /\ - Skew - a <= Ahead(w, a) /\ Ahead(w, a) <= Skew - a
         /\ leased_until(w, a) \in Int
BY SettingsNat, TimingConstants DEF Ahead, leased_until

(* A transaction of the reaper began in the past.                          *)
LEMMA BegunNat ==
  ASSUME Types PROVE Begun \subseteq Nat
BY DEF Types, Begun

(* Every step keeps the types.                                             *)
LEMMA NextTypes ==
  ASSUME Types, InBounds, [Next]_vars
  PROVE  Types'
<1> USE SettingsNat
<1>1. ASSUME NEW w \in Workers, NEW j \in Jobs, IssueClaim(w, j) PROVE Types'
  BY <1>1 DEF IssueClaim, Rest, Types, Loop, RunPc, At
<1>2. ASSUME NEW w \in Workers, Claim(w) PROVE Types'
  <2>1. run[w].job \in Jobs /\ run[w].age \in Nat
    BY <1>2 DEF Claim, InBounds, Types, Loop
  <2>2. leased_until(w, run[w].age) \in Int
    BY <2>1, LeasedUntilInt
  <2>3. run' \in [Workers -> Loop(RunPc)]
    <3>1. /\ [run[w] EXCEPT !.pc = "claimed"] \in Loop(RunPc)
          /\ At("idle", NoJob) \in Loop(RunPc)
      BY DEF Types, Loop, RunPc, At
    <3>2. \/ run' = [run EXCEPT ![w] = [run[w] EXCEPT !.pc = "claimed"]]
          \/ run' = [run EXCEPT ![w] = At("idle", NoJob)]
      BY <1>2 DEF Claim
    <3> HIDE DEF Loop
    <3> QED BY <3>1, <3>2 DEF Types
  <2>4. lease' \in [Jobs -> [owner : Workers \cup {NoWorker}, left : Int]]
    BY <1>2, <2>1, <2>2 DEF Claim, Types
  <2> QED BY <1>2, <2>3, <2>4 DEF Claim, Rest, Types
<1>3. ASSUME NEW w \in Workers, LogStarted(w) PROVE Types'
  BY <1>3 DEF LogStarted, Rest, Goto, Types, Loop, RunPc, At
<1>4. ASSUME NEW w \in Workers, HandlerEnds(w) PROVE Types'
  BY <1>4 DEF HandlerEnds, Rest, Goto, Types, Loop, RunPc, At
<1>5. ASSUME NEW w \in Workers, Outcome(w) PROVE Types'
  <2>1. run' \in [Workers -> Loop(RunPc)]
    BY <1>5 DEF Outcome, Goto, Types, Loop, RunPc, At
  <2>2. lease' \in [Jobs -> [owner : Workers \cup {NoWorker}, left : Int]]
    <3>1. NoLease \in [owner : Workers \cup {NoWorker}, left : Int]
      BY DEF NoLease
    <3> QED BY <1>5, <3>1 DEF Outcome, Types
  <2> QED BY <1>5, <2>1, <2>2 DEF Outcome, Rest, Types
<1>6. ASSUME NEW w \in Workers, worker_heartbeat(w) PROVE Types'
  <2>1. beat[w].age \in Nat
    BY DEF Types, Loop
  <2>2. Ahead(w, beat[w].age) \in Int
    BY <2>1, LeasedUntilInt
  <2>3. DOMAIN seen' \subseteq Workers /\ \A v \in DOMAIN seen' : seen'[v] \in Int
    BY <1>6, <2>2 DEF worker_heartbeat, Types
  <2>4. beat' \in [Workers -> Loop(BeatPc)]
    BY <1>6 DEF worker_heartbeat, Types, Loop, BeatPc
  <2> QED BY <1>6, <2>3, <2>4 DEF worker_heartbeat, Types
<1>7. ASSUME NEW w \in Workers, renew_job_lease(w) PROVE Types'
  <2>1. beat[w].age \in Nat
    BY DEF Types, Loop
  <2>2. leased_until(w, beat[w].age) \in Int
    BY <2>1, LeasedUntilInt
  <2>3. beat' \in [Workers -> Loop(BeatPc)]
    <3>1. /\ [beat[w] EXCEPT !.pc = "renewed"] \in Loop(BeatPc)
          /\ [beat[w] EXCEPT !.pc = "missed"] \in Loop(BeatPc)
      BY DEF Types, Loop, BeatPc
    <3>2. \/ beat' = [beat EXCEPT ![w] = [beat[w] EXCEPT !.pc = "renewed"]]
          \/ beat' = [beat EXCEPT ![w] = [beat[w] EXCEPT !.pc = "missed"]]
      BY <1>7 DEF renew_job_lease
    <3> QED BY <3>1, <3>2 DEF Types
  <2> QED BY <1>7, <2>2, <2>3 DEF renew_job_lease, Types
<1>8. ASSUME NEW w \in Workers, Wake(w) PROVE Types'
  BY <1>8 DEF Wake, Types, Loop, BeatPc, At
<1>9. ASSUME NEW w \in Workers, worker_offline(w) PROVE Types'
  BY <1>9 DEF worker_offline, Types, Loop, BeatPc, At
<1>10. ASSUME NEW w \in Workers, Stop(w) PROVE Types'
  BY <1>10 DEF Stop, Types
<1>11. ASSUME NEW w \in Workers, Crash(w) PROVE Types'
  BY <1>11 DEF Crash, Types, Loop, RunPc, BeatPc, At
<1>12. CASE ReaperSelect
  <2>1. PICK lag \in Nat : reaper' = [reaper EXCEPT !.pc = "selected",
                                     !.todo = {j \in Jobs : Expired(j, lag)}, !.lag = lag]
    BY <1>12, BegunNat DEF ReaperSelect
  <2>2. {j \in Jobs : Expired(j, lag)} \in SUBSET Jobs
    OBVIOUS
  <2> QED BY <1>12, <2>1, <2>2 DEF ReaperSelect, ReaperPc, Types
<1>13. CASE ReaperWake
  BY <1>13 DEF ReaperWake, ReaperPc, Types
<1>14. ASSUME NEW j \in Jobs, Reap(j) PROVE Types'
  <2>1. lease' \in [Jobs -> [owner : Workers \cup {NoWorker}, left : Int]]
    BY <1>14 DEF Reap, NoLease, Types
  <2> QED BY <1>14, <2>1 DEF Reap, ReaperPc, Types
<1>15. CASE Tick
  <2>1. run' \in [Workers -> Loop(RunPc)]
    <3>1. \A w \in Workers : run[w] \in Loop(RunPc) /\ [run[w] EXCEPT !.age = @ + 1] \in Loop(RunPc)
      BY DEF Types, Loop
    <3> QED BY <1>15, <3>1 DEF Tick
  <2>2. beat' \in [Workers -> Loop(BeatPc)]
    BY <1>15 DEF Tick, Types, Loop, BeatPc
  <2>3. lease' \in [Jobs -> [owner : Workers \cup {NoWorker}, left : Int]]
    BY <1>15 DEF Tick, Types
  <2>4. DOMAIN seen' \subseteq Workers /\ \A v \in DOMAIN seen' : seen'[v] \in Int
    BY <1>15 DEF Tick, Types
  <2>5. reaper' \in [pc : ReaperPc, age : Nat, todo : SUBSET Jobs, lag : Nat \cup {NoTxn}]
    <3> DEFINE next == IF reaper.lag = NoTxn THEN reaper.lag ELSE reaper.lag + 1
    <3>1. next \in Nat \cup {NoTxn} /\ reaper.age + 1 \in Nat
      BY DEF Types
    <3>2. reaper' = [reaper EXCEPT !.age = reaper.age + 1, !.lag = next]
      BY <1>15 DEF Tick
    <3> HIDE DEF next
    <3> QED BY <3>1, <3>2 DEF Types
  <2> QED BY <1>15, <2>1, <2>2, <2>3, <2>4, <2>5 DEF Tick, Types
<1>16. CASE UNCHANGED vars
  BY <1>16 DEF vars, Types
<1>17. ASSUME NEW w \in Workers, ClaimAnswered(w) PROVE Types'
  BY <1>17 DEF ClaimAnswered, Rest, Goto, Types, Loop, RunPc, At
<1>18. ASSUME NEW w \in Workers, Release(w) PROVE Types'
  BY <1>18 DEF Release, Rest, Types, Loop, RunPc, At
<1>19. ASSUME NEW w \in Workers, HeartbeatAnswered(w) PROVE Types'
  BY <1>19 DEF HeartbeatAnswered, Types, Loop, BeatPc, At
<1>20. ASSUME NEW w \in Workers, RenewalAnswered(w) PROVE Types'
  BY <1>20 DEF RenewalAnswered, Types, Loop, BeatPc, At
<1>21. CASE ReaperAnswered
  BY <1>21 DEF ReaperAnswered, ReaperPc, Types
<1> QED
  BY <1>1, <1>2, <1>3, <1>4, <1>5, <1>6, <1>7, <1>8, <1>9, <1>10, <1>11, <1>12, <1>13, <1>14,
     <1>15, <1>16, <1>17, <1>18, <1>19, <1>20, <1>21 DEF Next

(* Every step keeps the bounds.                                            *)
LEMMA NextInBounds ==
  ASSUME Types, InBounds, [Next]_vars
  PROVE  InBounds'
<1> USE SettingsNat
<1> DEFINE RunIn(w) == /\ run[w].pc # "idle" => run[w].job \in Jobs
                       /\ run[w].pc \notin Unbounded => run[w].age <= RunBound(w)
           JobIn(w) == beat[w].pc = "renew" => beat[w].job \in Jobs
           BeatIn(w) == beat[w].age <= IF beat[w].pc = "sleep" THEN Interval ELSE Delay
<1>1. ASSUME NEW w \in Workers PROVE RunIn(w)'
  <2>1. CASE run'[w] = run[w]
    BY <2>1 DEF InBounds, RunBound
  <2>2. CASE run'[w].pc # "idle" /\ run'[w].job \in Jobs /\ run'[w].age = 0
    BY <2>2 DEF RunBound
  <2>3. CASE run'[w].pc = "idle"
    BY <2>3 DEF Unbounded
  <2>4. CASE Tick
    <3>1. CASE run[w].pc \in Unbounded
      BY <2>1, <2>4, <3>1 DEF Tick
    <3>2. CASE run[w].pc \notin Unbounded
      <4>1. run'[w] = [run[w] EXCEPT !.age = @ + 1]
        BY <2>4, <3>2 DEF Tick
      <4>2. run'[w].pc = run[w].pc /\ run'[w].job = run[w].job /\ run'[w].age = run[w].age + 1
        BY <4>1 DEF Types, Loop
      <4>3. run[w].job \in Jobs /\ run[w].age < RunBound(w) /\ run[w].age \in Nat
        BY <2>4, <3>2 DEF Tick, CanWait, InBounds, Unbounded, Types, Loop
      <4> QED BY <4>2, <4>3 DEF RunBound
    <3> QED BY <3>1, <3>2
  <2>5. CASE \E j \in Jobs : IssueClaim(w, j)
    BY <2>2, <2>5 DEF IssueClaim, At, Types, Loop
  <2>6. CASE Claim(w)
    <3>1. run'[w] = [run[w] EXCEPT !.pc = "claimed"] \/ run'[w] = At("idle", NoJob)
      BY <2>6 DEF Claim, Types
    <3>2. run[w].pc = "claim" /\ run[w].job \in Jobs /\ run[w].age <= Delay
      BY <2>6 DEF Claim, InBounds, RunBound, Unbounded
    <3> QED BY <2>3, <3>1, <3>2 DEF At, RunBound, Types, Loop
  <2>7. CASE LogStarted(w)
    BY <2>2, <2>7 DEF LogStarted, Goto, At, Types, Loop, InBounds
  <2>8. CASE HandlerEnds(w)
    BY <2>2, <2>8 DEF HandlerEnds, Goto, At, Types, Loop, InBounds
  <2>9. CASE Outcome(w)
    BY <2>2, <2>9 DEF Outcome, Goto, At, Types, Loop, InBounds
  <2>10. CASE Crash(w)
    BY <2>3, <2>10 DEF Crash, At, Types, Loop
  <2>11. CASE ClaimAnswered(w)
    BY <2>2, <2>11 DEF ClaimAnswered, Goto, At, Types, Loop, InBounds
  <2>12. CASE Release(w)
    BY <2>3, <2>12 DEF Release, At, Types, Loop
  <2> HIDE DEF RunIn
  <2> QED
    BY <2>1, <2>4, <2>5, <2>6, <2>7, <2>8, <2>9, <2>10, <2>11, <2>12
    DEF Next, vars, Types, IssueClaim, Claim, ClaimAnswered, LogStarted, HandlerEnds, Outcome,
        Release, Goto, Crash, Stop, worker_heartbeat, HeartbeatAnswered, renew_job_lease,
        RenewalAnswered, Wake, worker_offline, ReaperSelect, ReaperAnswered, ReaperWake, Reap
<1>2. ASSUME NEW w \in Workers PROVE JobIn(w)' /\ BeatIn(w)'
  <2>1. CASE beat'[w] = beat[w]
    BY <2>1 DEF InBounds
  <2>2. CASE /\ beat'[w].age = 0
             /\ beat'[w].pc = "renew" => beat'[w].job \in Jobs
    BY <2>2
  <2>3. CASE Tick
    <3>1. CASE beat[w].pc = "done"
      BY <2>1, <2>3, <3>1 DEF Tick
    <3>2. CASE beat[w].pc # "done"
      <4>1. beat'[w] = [beat[w] EXCEPT !.age = @ + 1]
        BY <2>3, <3>2 DEF Tick
      <4>2. beat'[w].pc = beat[w].pc /\ beat'[w].job = beat[w].job /\ beat'[w].age = beat[w].age + 1
        BY <4>1 DEF Types, Loop
      <4>3. beat[w].age < BeatBound(w) /\ beat[w].age \in Nat /\ JobIn(w)
        BY <2>3, <3>2 DEF Tick, CanWait, InBounds, Types, Loop
      <4>4. beat[w].age < IF beat[w].pc = "sleep" THEN Interval ELSE Delay
        BY <4>3 DEF BeatBound
      <4> QED BY <4>2, <4>3, <4>4
    <3> QED BY <3>1, <3>2
  <2>4. CASE worker_heartbeat(w)
    BY <2>4 DEF worker_heartbeat, InBounds, Types, Loop
  <2>5. CASE renew_job_lease(w)
    <3>1. beat[w].pc = "renew" /\ beat[w].age <= Delay
      BY <2>5 DEF renew_job_lease, InBounds
    <3>2. beat'[w].pc \in {"renewed", "missed"} /\ beat'[w].age = beat[w].age
      BY <2>5 DEF renew_job_lease, Types, Loop
    <3> QED BY <3>1, <3>2
  <2>6. CASE Wake(w)
    BY <2>2, <2>6 DEF Wake, At, Types
  <2>7. CASE worker_offline(w)
    BY <2>2, <2>7 DEF worker_offline, At, Types
  <2>8. CASE Crash(w)
    BY <2>2, <2>8 DEF Crash, At, Types
  <2>9. ASSUME NEW v \in Workers, v # w,
                \/ worker_heartbeat(v) \/ HeartbeatAnswered(v) \/ renew_job_lease(v)
                \/ RenewalAnswered(v) \/ Wake(v) \/ worker_offline(v) \/ Crash(v)
        PROVE  beat'[w] = beat[w]
    BY <2>9 DEF worker_heartbeat, HeartbeatAnswered, renew_job_lease, RenewalAnswered, Wake,
                worker_offline, Crash, Types
  <2>10. CASE HeartbeatAnswered(w)
    BY <2>2, <2>10 DEF HeartbeatAnswered, At, Types
  <2>11. CASE RenewalAnswered(w)
    BY <2>2, <2>11 DEF RenewalAnswered, At, Types
  <2> HIDE DEF JobIn, BeatIn
  <2> QED
    BY <2>1, <2>3, <2>4, <2>5, <2>6, <2>7, <2>8, <2>9, <2>10, <2>11
    DEF Next, vars, IssueClaim, Claim, ClaimAnswered, LogStarted, HandlerEnds, Outcome, Release,
        Rest, Stop, ReaperSelect, ReaperAnswered, ReaperWake, Reap
<1>3. reaper'.age <= ReaperBound'
  <2>1. CASE reaper' = reaper
    BY <2>1 DEF InBounds, ReaperBound, ReaperPause
  <2>2. CASE ReaperSelect \/ ReaperAnswered \/ ReaperWake \/ \E j \in Jobs : Reap(j)
    <3>1. CASE ReaperSelect \/ \E j \in Jobs : Reap(j)
      <4>1. reaper.age <= Delay
        BY <3>1 DEF ReaperSelect, Reap, InBounds, ReaperBound
      <4>2. reaper'.age = reaper.age /\ reaper'.pc \in {"selected", "updated"}
        <5>1. ASSUME NEW pc, NEW S, NEW n, reaper' = [reaper EXCEPT !.pc = pc, !.todo = S, !.lag = n]
              PROVE  reaper'.age = reaper.age /\ reaper'.pc = pc
          BY <5>1 DEF Types
        <5> QED BY <3>1, <5>1 DEF ReaperSelect, Reap
      <4> QED BY <4>1, <4>2 DEF ReaperBound
    <3>2. CASE ReaperAnswered \/ ReaperWake
      <4>1. reaper'.age = 0
        <5>1. CASE ReaperAnswered /\ reaper.todo = {}
          BY <5>1 DEF ReaperAnswered
        <5>2. CASE ReaperAnswered /\ reaper.todo # {}
          BY <5>2 DEF ReaperAnswered, Types
        <5>3. CASE ReaperWake
          BY <5>3 DEF ReaperWake, Types
        <5> QED BY <3>2, <5>1, <5>2, <5>3
      <4> QED BY <4>1 DEF ReaperBound, ReaperPause
    <3> QED BY <2>2, <3>1, <3>2
  <2>3. CASE Tick
    BY <2>3 DEF Tick, CanWait, InBounds, ReaperBound, ReaperPause, Types
  <2> QED
    BY <2>1, <2>2, <2>3
    DEF Next, vars, IssueClaim, Claim, ClaimAnswered, LogStarted, HandlerEnds, Outcome, Release,
        Rest, Crash, Stop, worker_heartbeat, HeartbeatAnswered, renew_job_lease, RenewalAnswered,
        Wake, worker_offline
<1> QED BY <1>1, <1>2, <1>3 DEF InBounds

-------------------------------------------------------------------------------
(***************************************************************************)
(* What makes LeaseOutlivesRun inductive: the lease lasts for what is left *)
(* of the attempt, each step of it taken as late as may be.                *)
(***************************************************************************)

Remaining(w) ==
  CASE run[w].pc = "claimed" -> 3 * Delay + JobTimeout - run[w].age
    [] run[w].pc = "log" -> 2 * Delay + JobTimeout - run[w].age
    [] run[w].pc = "handler" -> Delay + JobTimeout - run[w].age
    [] OTHER -> Delay - run[w].age

Running(w) == run[w].pc \in {"claimed", "log", "handler", "outcome"}

LeaseLasts ==
  \A w \in Workers : Running(w) =>
    lease[run[w].job].owner = w /\ lease[run[w].job].left >= Remaining(w)

(* A lease written by a host that has waited no longer than Delay covers a *)
(* whole attempt.                                                          *)
LEMMA FreshLeaseCovers ==
  ASSUME NEW w \in Workers, NEW a \in Nat, a <= Delay
  PROVE  leased_until(w, a) >= 3 * Delay + JobTimeout
BY SettingsNat, LeaseFits, TimingConstants DEF leased_until, Ahead

(* What is left of an attempt is a number of ticks, and never more than    *)
(* the whole.                                                              *)
LEMMA RemainingNat ==
  ASSUME Types, InBounds, NEW w \in Workers, Running(w)
  PROVE  Remaining(w) \in 0 .. 3 * Delay + JobTimeout
BY SettingsNat DEF Types, InBounds, Running, Remaining, RunBound, Unbounded, Loop

(* Every step keeps the leases of running attempts long enough.            *)
LEMMA LeaseLastsInductive ==
  ASSUME Types, InBounds, LeaseLasts, [Next]_vars
  PROVE  LeaseLasts'
<1> USE SettingsNat
<1> SUFFICES ASSUME NEW u \in Workers, Running(u)'
             PROVE  (lease[run[u].job].owner = u /\ lease[run[u].job].left >= Remaining(u))'
  BY DEF LeaseLasts
<1>0. NoWorker # u
  BY TimingConstants
<1>1. run[u] \in Loop(RunPc) /\ (Running(u) => run[u].job \in Jobs)
  BY DEF Types, InBounds, Running
<1>2. Running(u) => /\ lease[run[u].job].owner = u
                    /\ lease[run[u].job].left >= Remaining(u)
                    /\ Remaining(u) \in 0 .. 3 * Delay + JobTimeout
                    /\ lease[run[u].job].left \in Int
  BY <1>1, RemainingNat DEF LeaseLasts, Types
<1>3. CASE run'[u] = run[u] /\ lease'[run[u].job] = lease[run[u].job]
  BY <1>2, <1>3 DEF Running, Remaining
<1>4. ASSUME NEW w \in Workers, \E j \in Jobs : IssueClaim(w, j)
      PROVE  run'[u] = run[u] /\ lease' = lease
  BY <1>4 DEF IssueClaim, Running, At, Types
<1>5. ASSUME NEW w \in Workers, Claim(w)
      PROVE  (lease[run[u].job].owner = u /\ lease[run[u].job].left >= Remaining(u))'
  <2>1. run[w].job \in Jobs /\ run[w].age \in Nat /\ run[w].age <= Delay
    BY <1>5 DEF Claim, InBounds, RunBound, Unbounded, Types, Loop
  <2>2. leased_until(w, run[w].age) >= 3 * Delay + JobTimeout
    BY <2>1, FreshLeaseCovers
  <2>3. CASE w = u
    <3>1. /\ lease' = [lease EXCEPT ![run[w].job] = [owner |-> w, left |-> leased_until(w, run[w].age)]]
          /\ run'[u] = [run[u] EXCEPT !.pc = "claimed"]
      BY <1>5, <2>3 DEF Claim, At, Running, Types
    <3>2. run'[u].job = run[w].job /\ run'[u].age = run[w].age /\ run'[u].pc = "claimed"
      BY <1>1, <2>3, <3>1 DEF Loop
    <3>3. lease'[run[w].job] = [owner |-> w, left |-> leased_until(w, run[w].age)]
      BY <3>1, <2>1 DEF Types
    <3>4. Remaining(u)' <= 3 * Delay + JobTimeout /\ Remaining(u)' \in Int
      BY <2>1, <3>2 DEF Remaining
    <3>5. leased_until(w, run[w].age) \in Int
      BY <2>1, LeasedUntilInt
    <3> QED BY <3>2, <3>3, <3>4, <3>5, <2>2, <2>3
  <2>4. CASE w # u
    <3>1. run'[u] = run[u]
      BY <1>5, <2>4 DEF Claim, Types
    <3>2. Running(u)
      BY <3>1 DEF Running
    <3>3. lease'[run[u].job] = lease[run[u].job]
      BY <1>0, <1>1, <1>2, <1>5, <2>1, <3>2 DEF Claim, Types
    <3> QED BY <3>1, <3>3, <1>3
  <2> QED BY <2>3, <2>4
<1>6. ASSUME NEW w \in Workers, ClaimAnswered(w) \/ LogStarted(w) \/ HandlerEnds(w)
      PROVE  (lease[run[u].job].owner = u /\ lease[run[u].job].left >= Remaining(u))'
  <2>1. lease' = lease
    BY <1>6 DEF ClaimAnswered, LogStarted, HandlerEnds
  <2>2. CASE w = u
    <3>1. run'[u].job = run[u].job /\ run'[u].age = 0
      BY <1>6, <2>2 DEF ClaimAnswered, LogStarted, HandlerEnds, Goto, At, Types
    <3>2. \/ run[u].pc = "claimed" /\ run'[u].pc = "log"
          \/ run[u].pc = "log" /\ run'[u].pc = "handler"
          \/ run[u].pc = "handler" /\ run'[u].pc = "outcome"
      BY <1>6, <2>2 DEF ClaimAnswered, LogStarted, HandlerEnds, Goto, At, Types
    <3>3. Running(u)
      BY <3>2 DEF Running
    <3>4. Remaining(u)' <= Remaining(u) /\ Remaining(u)' \in Int
      BY <1>1, <3>1, <3>2 DEF Remaining, InBounds, RunBound, Unbounded, Loop
    <3> QED BY <1>2, <2>1, <3>1, <3>3, <3>4
  <2>3. CASE w # u
    BY <1>6, <2>1, <2>3, <1>3 DEF ClaimAnswered, LogStarted, HandlerEnds, Goto, Types
  <2> QED BY <2>2, <2>3
<1>7. ASSUME NEW w \in Workers, Outcome(w)
      PROVE  run'[u] = run[u] /\ lease'[run[u].job] = lease[run[u].job]
  <2>1. u # w
    BY <1>7 DEF Outcome, Goto, At, Running, Types
  <2>2. run'[u] = run[u]
    BY <1>7, <2>1 DEF Outcome, Goto, Types
  <2>3. Running(u) /\ Running(w)
    BY <1>7, <2>2 DEF Outcome, Running
  <2>4. run[u].job # run[w].job
    BY <2>1, <2>3 DEF LeaseLasts
  <2> QED BY <1>1, <1>7, <2>2, <2>3, <2>4 DEF Outcome, Types
<1>8. ASSUME NEW w \in Workers, renew_job_lease(w)
      PROVE  (lease[run[u].job].owner = u /\ lease[run[u].job].left >= Remaining(u))'
  <2>1. beat[w].job \in Jobs /\ beat[w].age \in Nat /\ beat[w].age <= Delay
    BY <1>8 DEF renew_job_lease, InBounds, Types, Loop
  <2>2. /\ leased_until(w, beat[w].age) >= 3 * Delay + JobTimeout
        /\ leased_until(w, beat[w].age) \in Int
    BY <2>1, FreshLeaseCovers, LeasedUntilInt
  <2>3. run' = run
    BY <1>8 DEF renew_job_lease
  <2>4. Running(u) /\ Remaining(u)' = Remaining(u)
    BY <2>3 DEF Running, Remaining
  <2>5. \/ lease'[run[u].job] = lease[run[u].job]
        \/ lease'[run[u].job] = [lease[run[u].job] EXCEPT !.left = leased_until(w, beat[w].age)]
    <3>1. \/ lease' = lease
          \/ lease' = [lease EXCEPT ![beat[w].job].left = leased_until(w, beat[w].age)]
      BY <1>8 DEF renew_job_lease
    <3> QED BY <1>1, <2>1, <2>4, <3>1 DEF Types
  <2>6. \/ lease'[run[u].job] = lease[run[u].job]
        \/ /\ lease'[run[u].job].owner = u
           /\ lease'[run[u].job].left = leased_until(w, beat[w].age)
    BY <1>1, <1>2, <2>4, <2>5 DEF Types
  <2> QED BY <1>2, <2>2, <2>3, <2>4, <2>6
<1>9. ASSUME NEW w \in Workers, Crash(w)
      PROVE  run'[u] = run[u] /\ lease' = lease
  BY <1>9 DEF Crash, At, Running, Types
<1>10. ASSUME NEW j \in Jobs, Reap(j)
      PROVE  run'[u] = run[u] /\ lease'[run[u].job] = lease[run[u].job]
  <2>1. run' = run
    BY <1>10 DEF Reap
  <2>2. Running(u)
    BY <2>1 DEF Running
  <2>3. \A lag \in Nat : ~ Expired(run[u].job, lag)
    BY <1>2, <2>2 DEF Expired
  <2> QED BY <1>1, <1>10, <2>1, <2>2, <2>3, BegunNat DEF Reap, Types
<1>11. CASE Tick
  <2>1. run'[u] = [run[u] EXCEPT !.age = @ + 1]
    BY <1>1, <1>11 DEF Tick, Running, Unbounded
  <2>2. run'[u].pc = run[u].pc /\ run'[u].job = run[u].job /\ run'[u].age = run[u].age + 1
    BY <1>1, <2>1 DEF Loop
  <2>3. Running(u)
    BY <2>2 DEF Running
  <2>4. /\ lease'[run[u].job].owner = u
        /\ lease'[run[u].job].left >= lease[run[u].job].left - 1
        /\ lease'[run[u].job].left \in Int
    BY <1>1, <1>2, <1>11, <2>3 DEF Tick, Types
  <2>5. Remaining(u)' = Remaining(u) - 1
    BY <1>1, <2>2 DEF Remaining, Loop
  <2> QED BY <1>2, <2>2, <2>3, <2>4, <2>5
<1>12. ASSUME NEW w \in Workers, Release(w)
      PROVE  run'[u] = run[u] /\ lease' = lease
  BY <1>12 DEF Release, At, Running, Types
<1> QED
  BY <1>3, <1>4, <1>5, <1>6, <1>7, <1>8, <1>9, <1>10, <1>11, <1>12
  DEF Next, vars, Stop, worker_heartbeat, HeartbeatAnswered, RenewalAnswered, Wake, worker_offline,
      ReaperSelect, ReaperAnswered, ReaperWake

LeaseInv == Types /\ InBounds /\ LeaseLasts

(* The bounds and the leases hold at every moment.                         *)
LEMMA LeaseHolds == Spec => []LeaseInv
<1>1. Init => LeaseInv
  BY InitTypes DEF Init, LeaseInv, LeaseLasts, Running, At
<1>2. LeaseInv /\ [Next]_vars => LeaseInv'
  BY NextTypes, NextInBounds, LeaseLastsInductive DEF LeaseInv
<1> QED BY <1>1, <1>2, PTL DEF Spec

(***************************************************************************)
(* Whatever the settings, as long as the lease exceeds the job timeout by  *)
(* four waits and the clock skew, the lease of an attempt is the worker's  *)
(* own and has not run out until its outcome is committed.                 *)
(***************************************************************************)
THEOREM LeaseIsLongEnough == Spec => []LeaseOutlivesRun
<1>1. LeaseInv => LeaseOutlivesRun
  <2> SUFFICES ASSUME LeaseInv, NEW w \in Workers, Running(w)
               PROVE  lease[run[w].job].owner = w /\ lease[run[w].job].left >= 0
    BY DEF LeaseOutlivesRun, Running
  <2>1. Remaining(w) \in 0 .. 3 * Delay + JobTimeout
    BY RemainingNat DEF LeaseInv
  <2>2. lease[run[w].job].owner = w /\ lease[run[w].job].left >= Remaining(w)
    BY DEF LeaseInv, LeaseLasts
  <2>3. lease[run[w].job].left \in Int
    BY DEF LeaseInv, Types, InBounds, Running
  <2> QED BY SettingsNat, <2>1, <2>2, <2>3
<1> QED BY <1>1, LeaseHolds, PTL

-------------------------------------------------------------------------------
(***************************************************************************)
(* What makes ListedWhileUp and DeadPruned inductive: the age of a         *)
(* worker's entry is at most what its heartbeat loop has spent since it    *)
(* read the clock, and no entry is older than the last pruning allows.     *)
(***************************************************************************)

Since(w) ==
  CASE beat[w].pc = "listed" -> Skew + beat[w].age
    [] beat[w].pc \in {"renew", "renewed", "missed"} -> Delay + Skew + beat[w].age
    [] beat[w].pc = "sleep" -> 2 * Delay + Skew + beat[w].age
    [] OTHER -> 2 * Delay + Skew + Interval + beat[w].age

(* Before a worker's first beat nothing in Redis is older than the worker. *)
Beginning(w) ==
  /\ \A v \in Workers : beat[v].pc # "done" => beat[v].age <= beat[w].age
  /\ \A v \in DOMAIN seen : seen[v] <= Skew + beat[w].age

Beating(w) ==
  /\ w \in DOMAIN seen
  /\ seen[w] <= Since(w)
  /\ \A v \in DOMAIN seen : seen[v] < Ttl + Since(w)

UpPc == {"first", "beat", "listed", "renew", "renewed", "missed", "sleep"}

Listed ==
  \A w \in Workers : proc[w] = "up" =>
    /\ beat[w].pc \in UpPc
    /\ IF beat[w].pc = "first" THEN Beginning(w) ELSE Beating(w)

(* The loop never spends so long between two beats that the entry reaches  *)
(* the time to live, even by the fastest clock.                            *)
LEMMA SinceBound ==
  ASSUME Types, InBounds, NEW w \in Workers
  PROVE  /\ Since(w) \in Int
         /\ Skew <= Since(w)
         /\ Since(w) <= Interval + 3 * Delay + Skew
         /\ Since(w) < Ttl - Skew
BY SettingsNat, TtlFits DEF Types, InBounds, Since, Loop

(* What a beat of w leaves in Redis: its own entry, fresh, and those of    *)
(* the others that are not older than the time to live by its clock.       *)
LEMMA HeartbeatEntries ==
  ASSUME Types, InBounds, NEW w \in Workers, worker_heartbeat(w)
  PROVE  /\ DOMAIN seen' \subseteq DOMAIN seen \cup {w} /\ w \in DOMAIN seen'
         /\ seen'[w] \in Int /\ seen'[w] <= Skew + beat[w].age
         /\ \A v \in DOMAIN seen' \ {w} : seen'[v] = seen[v] /\ seen[v] < Ttl + Skew + beat[w].age
         /\ \A v \in DOMAIN seen : seen[v] < Ttl - Skew => v \in DOMAIN seen'
<1> USE SettingsNat
<1> DEFINE a == Ahead(w, beat[w].age)
<1>1. beat[w].age \in Nat
  BY DEF Types, Loop
<1>2. a \in Int /\ - Skew - beat[w].age <= a /\ a <= Skew - beat[w].age
  BY <1>1, LeasedUntilInt
<1>3. /\ Pruned(w) = {v \in DOMAIN seen : seen[v] >= Ttl - a}
      /\ seen' = [v \in (DOMAIN seen \ Pruned(w)) \cup {w} |-> IF v = w THEN - a ELSE seen[v]]
  BY DEF worker_heartbeat, Pruned
<1>4. \A v \in DOMAIN seen : seen[v] \in Int
  BY DEF Types
<1> HIDE DEF a
<1> QED BY <1>1, <1>2, <1>3, <1>4

(* Every step keeps what is known of the entries in workers:heartbeat.     *)
LEMMA ListedInductive ==
  ASSUME Types, InBounds, Listed, [Next]_vars
  PROVE  Listed'
<1> USE SettingsNat
<1> SUFFICES ASSUME NEW u \in Workers, proc'[u] = "up"
             PROVE  /\ beat'[u].pc \in UpPc
                    /\ IF beat'[u].pc = "first" THEN Beginning(u)' ELSE Beating(u)'
  BY DEF Listed
<1>1. \A v \in Workers : beat[v].age \in Nat /\ beat[v] \in Loop(BeatPc)
  BY DEF Types, Loop
<1>2. \A v \in DOMAIN seen : v \in Workers /\ seen[v] \in Int
  BY DEF Types
<1>3. proc[u] = "up"
  BY DEF Next, vars, Types, IssueClaim, Claim, ClaimAnswered, LogStarted, HandlerEnds, Outcome,
         Release, Rest, Crash, Stop, worker_heartbeat, HeartbeatAnswered, renew_job_lease,
         RenewalAnswered, Wake, worker_offline, ReaperSelect, ReaperAnswered, ReaperWake, Reap, Tick
<1>4. /\ beat[u].pc \in UpPc
      /\ IF beat[u].pc = "first" THEN Beginning(u) ELSE Beating(u)
  BY <1>3 DEF Listed
<1>5. Since(u) \in Int /\ Skew <= Since(u) /\ Since(u) < Ttl - Skew
  BY SinceBound
<1>6. CASE beat' = beat /\ seen' = seen
  BY <1>4, <1>6 DEF Beginning, Beating, Since
<1>7. ASSUME NEW v \in Workers, v # u, beat'[u] = beat[u], seen' = seen,
             beat'[v].age = 0 \/ (beat'[v].age = beat[v].age /\ beat[v].pc # "done"),
             \A x \in Workers : x # v => beat'[x] = beat[x]
      PROVE  /\ beat'[u].pc \in UpPc
             /\ IF beat'[u].pc = "first" THEN Beginning(u)' ELSE Beating(u)'
  <2>1. Since(u)' = Since(u)
    BY <1>7 DEF Since
  <2>2. CASE beat[u].pc = "first"
    BY <1>1, <1>4, <1>7, <2>2 DEF Beginning
  <2>3. CASE beat[u].pc # "first"
    BY <1>4, <1>7, <2>1, <2>3 DEF Beating
  <2> QED BY <1>4, <1>7, <2>2, <2>3
<1>8. ASSUME NEW w \in Workers, worker_heartbeat(w)
      PROVE  /\ beat'[u].pc \in UpPc
             /\ IF beat'[u].pc = "first" THEN Beginning(u)' ELSE Beating(u)'
  <2>1. /\ DOMAIN seen' \subseteq DOMAIN seen \cup {w} /\ w \in DOMAIN seen'
        /\ seen'[w] \in Int /\ seen'[w] <= Skew + beat[w].age
        /\ \A v \in DOMAIN seen' \ {w} : seen'[v] = seen[v] /\ seen[v] < Ttl + Skew + beat[w].age
        /\ \A v \in DOMAIN seen : seen[v] < Ttl - Skew => v \in DOMAIN seen'
    BY <1>8, HeartbeatEntries
  <2>2. beat[w].pc \in {"first", "beat"} /\ beat[w].age <= Delay
    BY <1>8 DEF worker_heartbeat, InBounds
  <2>3. /\ beat'[w].pc = "listed" /\ beat'[w].age = beat[w].age
        /\ \A x \in Workers : x # w => beat'[x] = beat[x]
    BY <1>8 DEF worker_heartbeat, Types, Loop
  <2>4. Ttl > 0 /\ Ttl > Delay
    BY TtlFits
  <2>5. CASE w = u
    <3>1. Since(u)' = Skew + beat[w].age
      BY <2>3, <2>5 DEF Since
    <3>2. Beating(u)'
      BY <1>1, <1>2, <2>1, <2>2, <2>4, <2>5, <3>1 DEF Beating
    <3> QED BY <2>3, <2>5, <3>2 DEF UpPc
  <2>6. CASE w # u /\ beat[u].pc = "first"
    <3>1. beat'[u] = beat[u]
      BY <2>3, <2>6
    <3>2. \A v \in Workers : beat'[v].pc # "done" => beat'[v].age <= beat[u].age
      BY <1>1, <1>4, <2>2, <2>3, <2>6 DEF Beginning
    <3>3. beat[w].age <= beat[u].age
      BY <1>4, <2>2, <2>6 DEF Beginning
    <3>4. \A v \in DOMAIN seen' : seen'[v] <= Skew + beat[u].age
      <4> SUFFICES ASSUME NEW v \in DOMAIN seen' PROVE seen'[v] <= Skew + beat[u].age
        OBVIOUS
      <4>1. CASE v = w
        BY <1>1, <2>1, <3>3, <4>1
      <4>2. CASE v # w
        <5>1. v \in DOMAIN seen /\ seen'[v] = seen[v]
          BY <2>1, <4>2
        <5> QED BY <1>4, <2>6, <5>1 DEF Beginning
      <4> QED BY <4>1, <4>2
    <3> QED BY <1>4, <2>6, <3>1, <3>2, <3>4 DEF Beginning
  <2>7. CASE w # u /\ beat[u].pc # "first"
    <3>1. beat'[u] = beat[u]
      BY <2>3, <2>7
    <3>2. Since(u)' = Since(u)
      BY <3>1 DEF Since
    <3>3. u \in DOMAIN seen /\ seen[u] <= Since(u) /\ \A v \in DOMAIN seen : seen[v] < Ttl + Since(u)
      BY <1>4, <2>7 DEF Beating
    <3>4. u \in DOMAIN seen' /\ seen'[u] <= Since(u)
      BY <1>2, <1>5, <2>1, <2>7, <3>3
    <3>5. \A v \in DOMAIN seen' : seen'[v] < Ttl + Since(u)
      <4> SUFFICES ASSUME NEW v \in DOMAIN seen' PROVE seen'[v] < Ttl + Since(u)
        OBVIOUS
      <4>1. CASE v = w
        BY <1>1, <1>5, <2>1, <2>2, <2>4, <4>1
      <4>2. CASE v # w
        BY <2>1, <3>3, <4>2
      <4> QED BY <4>1, <4>2
    <3> QED BY <1>4, <2>7, <3>1, <3>2, <3>4, <3>5 DEF Beating
  <2> QED BY <2>5, <2>6, <2>7
<1>9. ASSUME NEW w \in Workers,
             HeartbeatAnswered(w) \/ renew_job_lease(w) \/ RenewalAnswered(w) \/ Wake(w)
      PROVE  /\ beat'[u].pc \in UpPc
             /\ IF beat'[u].pc = "first" THEN Beginning(u)' ELSE Beating(u)'
  <2>1. /\ seen' = seen
        /\ beat'[w].age = 0 \/ (beat'[w].age = beat[w].age /\ beat[w].pc # "done")
        /\ \A x \in Workers : x # w => beat'[x] = beat[x]
    BY <1>9 DEF HeartbeatAnswered, renew_job_lease, RenewalAnswered, Wake, At, Types, Loop
  <2>2. CASE w # u
    BY <1>7, <2>1, <2>2
  <2>3. CASE w = u
    <3>1. \/ beat[u].pc = "listed" /\ beat'[u].pc \in {"renew", "sleep"} /\ beat'[u].age = 0
          \/ /\ beat[u].pc = "renew" /\ beat'[u].pc \in {"renewed", "missed"}
             /\ beat'[u].age = beat[u].age
          \/ beat[u].pc \in {"renewed", "missed"} /\ beat'[u].pc = "sleep" /\ beat'[u].age = 0
          \/ /\ beat[u].pc = "sleep" /\ beat[u].age = Interval
             /\ beat'[u].pc = "beat" /\ beat'[u].age = 0
      <4>1. CASE HeartbeatAnswered(u)
        BY <4>1 DEF HeartbeatAnswered, At, Types
      <4>2. CASE renew_job_lease(u)
        BY <4>2 DEF renew_job_lease, Types, Loop
      <4>3. CASE RenewalAnswered(u)
        BY <4>3 DEF RenewalAnswered, At, Types
      <4>4. CASE Wake(u)
        BY <1>3, <4>4 DEF Wake, At, Types
      <4> QED BY <1>9, <2>3, <4>1, <4>2, <4>3, <4>4
    <3>2. beat[u].pc # "sleep" => beat[u].age <= Delay
      BY DEF InBounds
    <3>3. Since(u)' \in Int /\ Since(u) <= Since(u)'
      BY <1>1, <3>1, <3>2 DEF Since
    <3>4. Beating(u)
      BY <1>4, <3>1
    <3>5. Beating(u)'
      BY <1>2, <1>5, <2>1, <3>3, <3>4 DEF Beating
    <3> QED BY <3>1, <3>5 DEF UpPc
  <2> QED BY <2>2, <2>3
<1>10. ASSUME NEW w \in Workers, worker_offline(w)
      PROVE  /\ beat'[u].pc \in UpPc
             /\ IF beat'[u].pc = "first" THEN Beginning(u)' ELSE Beating(u)'
  <2>1. w # u
    BY <1>4, <1>10 DEF worker_offline, UpPc
  <2>2. /\ beat'[u] = beat[u] /\ beat'[w].age = 0 /\ beat'[w].pc = "done"
        /\ \A x \in Workers : x # w => beat'[x] = beat[x]
        /\ seen' = [v \in DOMAIN seen \ {w} |-> seen[v]]
    BY <1>10, <2>1 DEF worker_offline, At, Types
  <2>3. Since(u)' = Since(u)
    BY <2>2 DEF Since
  <2>4. CASE beat[u].pc = "first"
    BY <1>1, <1>4, <2>2, <2>4 DEF Beginning
  <2>5. CASE beat[u].pc # "first"
    BY <1>4, <2>1, <2>2, <2>3, <2>5 DEF Beating
  <2> QED BY <1>4, <2>2, <2>4, <2>5
<1>11. ASSUME NEW w \in Workers, Crash(w)
      PROVE  /\ beat'[u].pc \in UpPc
             /\ IF beat'[u].pc = "first" THEN Beginning(u)' ELSE Beating(u)'
  <2>1. w # u
    BY <1>11 DEF Crash, Types
  <2>2. /\ seen' = seen /\ beat'[w].age = 0
        /\ \A x \in Workers : x # w => beat'[x] = beat[x]
    BY <1>11 DEF Crash, At, Types
  <2> QED BY <1>7, <2>1, <2>2
<1>12. CASE Tick
  <2>1. \A v \in Workers : /\ beat'[v].pc = beat[v].pc
                           /\ beat'[v].age = IF beat[v].pc = "done" THEN beat[v].age ELSE beat[v].age + 1
    BY <1>1, <1>12 DEF Tick, Loop
  <2>2. /\ DOMAIN seen' = DOMAIN seen
        /\ \A v \in DOMAIN seen : seen'[v] \in Int /\ seen'[v] <= seen[v] + 1
    BY <1>2, <1>12 DEF Tick
  <2>3. beat'[u].age = beat[u].age + 1 /\ beat'[u].pc = beat[u].pc
    BY <1>4, <2>1 DEF UpPc
  <2>4. CASE beat[u].pc = "first"
    BY <1>1, <1>2, <1>4, <2>1, <2>2, <2>3, <2>4 DEF Beginning
  <2>5. CASE beat[u].pc # "first"
    <3>1. Since(u)' = Since(u) + 1
      BY <1>1, <2>3 DEF Since
    <3> QED BY <1>2, <1>4, <1>5, <2>2, <2>3, <2>5, <3>1 DEF Beating
  <2> QED BY <2>4, <2>5
<1> QED
  BY <1>6, <1>8, <1>9, <1>10, <1>11, <1>12
  DEF Next, vars, IssueClaim, Claim, ClaimAnswered, LogStarted, HandlerEnds, Outcome, Release, Rest,
      Stop, ReaperSelect, ReaperAnswered, ReaperWake, Reap

(* It holds at every moment.                                               *)
LEMMA ListedHolds == Spec => [](Types /\ InBounds /\ Listed)
<1>1. Init => Listed
  BY SettingsNat DEF Init, Listed, UpPc, Beginning, At
<1>2. Types /\ InBounds /\ Listed /\ [Next]_vars => Listed'
  BY ListedInductive
<1>3. LeaseInv => Types /\ InBounds
  BY DEF LeaseInv
<1> QED BY <1>1, <1>2, <1>3, LeaseHolds, PTL DEF Spec

(***************************************************************************)
(* Whatever the settings, as long as the time to live exceeds the interval *)
(* by three waits and twice the skew, GET /health lists every worker that  *)
(* is up from its first beat on.                                           *)
(***************************************************************************)
THEOREM UpIsListed == Spec => []ListedWhileUp
<1>1. Types /\ InBounds /\ Listed => ListedWhileUp
  <2> SUFFICES ASSUME Types, InBounds, Listed, NEW w \in Workers, NEW o \in -Skew..Skew,
                      proc[w] = "up", beat[w].pc # "first"
               PROVE  w \in DOMAIN seen /\ seen[w] <= Ttl - o
    BY DEF ListedWhileUp, list_alive_workers
  <2>1. w \in DOMAIN seen /\ seen[w] <= Since(w) /\ seen[w] \in Int
    BY DEF Listed, Beating, Types
  <2>2. Since(w) \in Int /\ Since(w) < Ttl - Skew
    BY SinceBound
  <2> QED BY SettingsNat, <2>1, <2>2
<1> QED BY <1>1, ListedHolds, PTL

(* While some worker is up, no entry in workers:heartbeat grows older than *)
(* MaxSeen: a dead worker's is pruned by then.                             *)
THEOREM DeadArePruned == Spec => []DeadPruned
<1>1. Types /\ InBounds /\ Listed => DeadPruned
  <2> SUFFICES ASSUME Types, InBounds, Listed, NEW w \in Workers, proc[w] = "up", NEW v \in DOMAIN seen
               PROVE  seen[v] < MaxSeen
    BY DEF DeadPruned
  <2>1. seen[v] \in Int /\ Ttl > 0 /\ beat[w].age \in Nat
    BY SettingsNat, TtlFits DEF Types, Loop
  <2>2. Since(w) \in Int /\ Since(w) <= Interval + 3 * Delay + Skew
    BY SinceBound
  <2>3. CASE beat[w].pc = "first"
    <3>1. seen[v] <= Skew + beat[w].age /\ beat[w].age <= Delay
      BY <2>3 DEF Listed, Beginning, InBounds
    <3> QED BY SettingsNat, <2>1, <3>1 DEF MaxSeen
  <2>4. CASE beat[w].pc # "first"
    <3>1. seen[v] < Ttl + Since(w)
      BY <2>4 DEF Listed, Beating
    <3> QED BY SettingsNat, <2>1, <2>2, <3>1 DEF MaxSeen
  <2> QED BY <2>3, <2>4
<1> QED BY <1>1, ListedHolds, PTL

-------------------------------------------------------------------------------
(***************************************************************************)
(* What makes ReapedInTime inductive: how overdue a lease can be, by where *)
(* the reaper is.  A lease that runs out just after a SELECT's transaction *)
(* began waits for the rest of that cycle, the poll and the next cycle.    *)
(***************************************************************************)

(* The time the statements for the jobs of S may take.                     *)
Work(S) == Delay * Cardinality(S)

(* For a job of todo: the SELECT saw it run out, the cycle before had not. *)
OverdueTodo ==
  CASE reaper.pc = "selected" -> Work(Jobs) + ReaperPoll + reaper.age
    [] reaper.pc = "update" -> 2 * Work(Jobs) + ReaperPoll + Delay - Work(reaper.todo) + reaper.age
    [] OTHER -> 2 * Work(Jobs) + ReaperPoll - Work(reaper.todo) + reaper.age

(* For a job the cycle under way is done with.                             *)
OverdueDone ==
  CASE reaper.pc = "selected" -> reaper.age
    [] reaper.pc = "update" -> Work(Jobs) - Work(reaper.todo) + reaper.age
    [] OTHER -> Work(Jobs) - Work(reaper.todo) - Delay + reaper.age

Overdue(j) ==
  CASE reaper.pc = "sleep" -> Work(Jobs) + reaper.age
    [] reaper.pc = "select" -> Work(Jobs) + ReaperPoll + reaper.age
    [] OTHER -> IF j \in reaper.todo THEN OverdueTodo ELSE OverdueDone

(* The SELECT's transaction is open from its effect to the first UPDATE's. *)
TxnOpen ==
  /\ reaper.pc = "selected" => reaper.lag \in Nat /\ reaper.lag <= reaper.age
  /\ reaper.pc = "update" => reaper.lag = NoTxn \/ reaper.lag <= Delay + reaper.age
  /\ reaper.pc \in {"select", "updated", "sleep"} => reaper.lag = NoTxn

(* An id the open transaction selected has run out by its now(), or has    *)
(* been released, or released and leased anew.                             *)
Chosen(j) ==
  reaper.lag # NoTxn /\ j \in reaper.todo =>
    \/ lease[j].owner = NoWorker
    \/ lease[j].left + reaper.lag < 0
    \/ lease[j].left + reaper.lag >= 3 * Delay + JobTimeout

InTime(j) ==
  /\ lease[j].owner = NoWorker => lease[j].left >= 0
  /\ - lease[j].left <= Overdue(j)
  /\ Chosen(j)

Reaps == TxnOpen /\ \A j \in Jobs : InTime(j)

(* Work counts statements.                                                 *)
LEMMA WorkNat ==
  ASSUME NEW S \in SUBSET Jobs
  PROVE  IsFiniteSet(S) /\ Cardinality(S) \in Nat /\ Work(S) \in Nat
<1>1. IsFiniteSet(S) /\ Cardinality(S) \in Nat
  BY FS_Subset, FS_CardinalityType, TimingConstants
<1> QED BY <1>1, SettingsNat DEF Work

(* One statement less takes Delay less.                                    *)
LEMMA WorkRemove ==
  ASSUME NEW S \in SUBSET Jobs, NEW j \in S
  PROVE  Work(S \ {j}) = Work(S) - Delay
<1>1. Cardinality(S \ {j}) = Cardinality(S) - 1 /\ Cardinality(S) \in Nat
  BY FS_RemoveElement, WorkNat
<1> QED BY <1>1, SettingsNat DEF Work

(* Fewer jobs take no longer.                                              *)
LEMMA WorkMonotone ==
  ASSUME NEW S \in SUBSET Jobs, NEW R \in SUBSET S
  PROVE  Work(R) <= Work(S)
<1>1. Cardinality(R) <= Cardinality(S) /\ Cardinality(R) \in Nat /\ Cardinality(S) \in Nat
  BY FS_Subset, WorkNat
<1>2. ASSUME NEW m \in Nat, NEW n \in Nat, m <= n PROVE Delay * m <= Delay * n
  BY <1>2, SettingsNat
<1> QED BY <1>1, <1>2 DEF Work

(* No statements take no time.                                             *)
LEMMA WorkNothing == Work({}) = 0
BY FS_EmptySet, SettingsNat DEF Work

(* The statements for other jobs leave time for the one for j.             *)
LEMMA WorkOthers ==
  ASSUME NEW S \in SUBSET Jobs, NEW j \in Jobs \ S
  PROVE  Work(S) <= Work(Jobs) - Delay
<1>1. Work(Jobs \ {j}) = Work(Jobs) - Delay
  BY WorkRemove
<1>2. Work(S) <= Work(Jobs \ {j})
  BY WorkMonotone
<1> QED BY <1>1, <1>2

(* What the statements still to come may take.                             *)
LEMMA WorkTodo ==
  ASSUME Types, InBounds, NEW j \in Jobs
  PROVE  /\ reaper.todo \in SUBSET Jobs /\ reaper.age \in Nat /\ reaper.pc \in ReaperPc
         /\ reaper.lag \in Nat \cup {NoTxn}
         /\ reaper.age <= IF reaper.pc = "sleep" THEN ReaperPoll ELSE Delay
         /\ Work(Jobs) \in Nat /\ Work(reaper.todo) \in Nat
         /\ Delay <= Work(Jobs) /\ Work(reaper.todo) <= Work(Jobs)
         /\ j \in reaper.todo => Delay <= Work(reaper.todo)
         /\ j \notin reaper.todo => Work(reaper.todo) <= Work(Jobs) - Delay
         /\ MaxOverdue = ReaperPoll + Delay + 2 * Work(Jobs)
<1> USE SettingsNat
<1>1. /\ reaper.todo \in SUBSET Jobs /\ reaper.age \in Nat /\ reaper.pc \in ReaperPc
      /\ reaper.lag \in Nat \cup {NoTxn}
      /\ reaper.age <= IF reaper.pc = "sleep" THEN ReaperPoll ELSE Delay
  BY DEF Types, InBounds, ReaperBound, ReaperPause
<1>2. Work(Jobs) \in Nat /\ Work(reaper.todo) \in Nat /\ Work(reaper.todo) <= Work(Jobs)
  BY <1>1, WorkNat, WorkMonotone
<1>3. Delay <= Work(Jobs)
  BY <1>2, WorkOthers, WorkNothing
<1>4. j \in reaper.todo => Delay <= Work(reaper.todo)
  <2>1. SUFFICES ASSUME j \in reaper.todo PROVE Delay <= Work(reaper.todo)
    OBVIOUS
  <2>2. Work(reaper.todo \ {j}) = Work(reaper.todo) - Delay
    BY <1>1, <2>1, WorkRemove
  <2>3. Work(reaper.todo \ {j}) \in Nat
    BY <1>1, WorkNat
  <2> QED BY <1>2, <2>2, <2>3
<1>5. j \notin reaper.todo => Work(reaper.todo) <= Work(Jobs) - Delay
  BY <1>1, WorkOthers
<1>6. MaxOverdue = ReaperPoll + Delay + 2 * Work(Jobs)
  BY WorkNat DEF MaxOverdue, Work
<1> QED BY <1>1, <1>2, <1>3, <1>4, <1>5, <1>6

(* The bound is between nothing and MaxOverdue.                            *)
LEMMA OverdueBound ==
  ASSUME Types, InBounds, NEW j \in Jobs
  PROVE  Overdue(j) \in 0 .. MaxOverdue
<1>1. CASE reaper.pc \in {"select", "sleep"}
  BY <1>1, SettingsNat, WorkTodo DEF Overdue
<1>2. CASE reaper.pc \notin {"select", "sleep"} /\ j \in reaper.todo
  <2>1. Overdue(j) = OverdueTodo
    BY <1>2 DEF Overdue
  <2>2. OverdueTodo \in 0 .. MaxOverdue
    BY <1>2, SettingsNat, WorkTodo DEF OverdueTodo, ReaperPc
  <2> QED BY <2>1, <2>2
<1>3. CASE reaper.pc \notin {"select", "sleep"} /\ j \notin reaper.todo
  <2>1. Overdue(j) = OverdueDone
    BY <1>3 DEF Overdue
  <2>2. OverdueDone \in 0 .. MaxOverdue
    BY <1>3, SettingsNat, WorkTodo DEF OverdueDone, ReaperPc
  <2> QED BY <2>1, <2>2
<1> QED BY <1>1, <1>2, <1>3

(* What a step leaves of the leases: as they were, released, or new.       *)
Leased(j) ==
  \/ lease'[j] = lease[j]
  \/ lease'[j] = NoLease
  \/ lease'[j].left \in Int /\ lease'[j].left >= 3 * Delay + JobTimeout

(* Every step keeps the leases within the bound.                           *)
LEMMA ReapsInductive ==
  ASSUME Types, InBounds, Reaps, [Next]_vars
  PROVE  Reaps'
<1> USE SettingsNat
<1> DEFINE age == reaper.age
           todo == reaper.todo
<1>1. /\ todo \in SUBSET Jobs /\ age \in Nat /\ reaper.pc \in ReaperPc
      /\ reaper.lag \in Nat \cup {NoTxn}
      /\ age <= IF reaper.pc = "sleep" THEN ReaperPoll ELSE Delay
      /\ TxnOpen
  BY DEF Types, Reaps, InBounds, ReaperBound, ReaperPause
<1>2. \A j \in Jobs : /\ InTime(j) /\ lease[j].left \in Int
                      /\ Overdue(j) \in 0 .. MaxOverdue
                      /\ lease[j] \in [owner : Workers \cup {NoWorker}, left : Int]
  BY OverdueBound DEF Reaps, Types
<1>3. MaxOverdue \in Nat
  <2>1. Cardinality(Jobs) \in Nat
    BY WorkNat
  <2> QED BY <2>1 DEF MaxOverdue
<1>4. ASSUME reaper' = reaper, \A j \in Jobs : Leased(j)
      PROVE  Reaps'
  <2>1. TxnOpen'
    BY <1>1, <1>4 DEF TxnOpen
  <2>2. ASSUME NEW j \in Jobs PROVE InTime(j)'
    <3>1. Overdue(j)' = Overdue(j)
      BY <1>4 DEF Overdue, OverdueTodo, OverdueDone
    <3>2. CASE lease'[j] = lease[j]
      BY <1>2, <1>4, <3>1, <3>2 DEF InTime, Chosen
    <3>3. CASE lease'[j] = NoLease
      BY <1>2, <1>3, <1>4, <3>1, <3>3 DEF InTime, Chosen, NoLease
    <3>4. CASE lease'[j].left \in Int /\ lease'[j].left >= 3 * Delay + JobTimeout
      <4>1. reaper.lag # NoTxn => lease'[j].left + reaper.lag >= 3 * Delay + JobTimeout
        BY <1>1, <3>4
      <4> QED BY <1>2, <1>3, <1>4, <3>1, <3>4, <4>1 DEF InTime, Chosen
    <3> QED BY <1>4, <3>2, <3>3, <3>4 DEF Leased
  <2> QED BY <2>1, <2>2 DEF Reaps
<1>5. ASSUME NEW w \in Workers, Claim(w) PROVE Reaps'
  <2>1. run[w].job \in Jobs /\ run[w].age \in Nat /\ run[w].age <= Delay
    BY <1>5 DEF Claim, InBounds, RunBound, Unbounded, Types, Loop
  <2>2. leased_until(w, run[w].age) \in Int /\ leased_until(w, run[w].age) >= 3 * Delay + JobTimeout
    BY <2>1, FreshLeaseCovers, LeasedUntilInt
  <2>3. lease' = lease \/ lease' = [lease EXCEPT ![run[w].job] = [owner |-> w, left |-> leased_until(w, run[w].age)]]
    BY <1>5 DEF Claim
  <2>4. reaper' = reaper
    BY <1>5 DEF Claim, Rest
  <2>5. \A j \in Jobs : Leased(j)
    BY <2>1, <2>2, <2>3 DEF Leased, Types
  <2> QED BY <1>4, <2>4, <2>5
<1>6. ASSUME NEW w \in Workers, Outcome(w) PROVE Reaps'
  <2>1. reaper' = reaper /\ \A j \in Jobs : Leased(j)
    BY <1>6 DEF Outcome, Rest, Leased, Types
  <2> QED BY <1>4, <2>1
<1>7. ASSUME NEW w \in Workers, renew_job_lease(w) PROVE Reaps'
  <2>1. beat[w].job \in Jobs /\ beat[w].age \in Nat /\ beat[w].age <= Delay
    BY <1>7 DEF renew_job_lease, InBounds, Types, Loop
  <2>2. leased_until(w, beat[w].age) \in Int /\ leased_until(w, beat[w].age) >= 3 * Delay + JobTimeout
    BY <2>1, FreshLeaseCovers, LeasedUntilInt
  <2>3. lease' = lease \/ lease' = [lease EXCEPT ![beat[w].job].left = leased_until(w, beat[w].age)]
    BY <1>7 DEF renew_job_lease
  <2>4. reaper' = reaper
    BY <1>7 DEF renew_job_lease
  <2>5. \A j \in Jobs : Leased(j)
    BY <2>1, <2>2, <2>3 DEF Leased, Types
  <2> QED BY <1>4, <2>4, <2>5
<1>8. CASE ReaperSelect
  <2>1. PICK lag \in Begun : reaper' = [reaper EXCEPT !.pc = "selected",
                                       !.todo = {j \in Jobs : Expired(j, lag)}, !.lag = lag]
    BY <1>8 DEF ReaperSelect
  <2>2. reaper.pc = "select" /\ lease' = lease
    BY <1>8 DEF ReaperSelect
  <2>3. lag \in Nat /\ lag <= age /\ lag # NoTxn
    BY <1>1, <2>1, <2>2 DEF Begun, TxnOpen, NoTxn
  <2>4. /\ reaper'.pc = "selected" /\ reaper'.age = age /\ reaper'.lag = lag
        /\ reaper'.todo = {j \in Jobs : Expired(j, lag)}
    <3>1. ASSUME NEW pc, NEW S, NEW n, reaper' = [reaper EXCEPT !.pc = pc, !.todo = S, !.lag = n]
          PROVE  reaper'.pc = pc /\ reaper'.age = age /\ reaper'.lag = n /\ reaper'.todo = S
      BY <3>1 DEF Types
    <3> QED BY <2>1, <3>1
  <2>5. TxnOpen'
    BY <2>3, <2>4 DEF TxnOpen
  <2>6. ASSUME NEW j \in Jobs PROVE InTime(j)'
    <3>1. CASE Expired(j, lag)
      <4>1. Overdue(j)' = Overdue(j)
        BY <2>2, <2>4, <3>1 DEF Overdue, OverdueTodo
      <4> QED BY <1>2, <2>2, <2>4, <3>1, <4>1 DEF InTime, Chosen, Expired
    <3>2. CASE ~ Expired(j, lag)
      <4>1. Overdue(j)' = age
        BY <2>4, <3>2 DEF Overdue, OverdueDone
      <4>2. - lease[j].left <= age
        BY <1>1, <1>2, <2>3, <3>2 DEF InTime, Expired
      <4> QED BY <1>2, <2>2, <2>4, <3>2, <4>1, <4>2 DEF InTime, Chosen
    <3> QED BY <3>1, <3>2
  <2> QED BY <2>5, <2>6 DEF Reaps
<1>9. CASE ReaperWake
  <2>1. reaper.pc = "sleep" /\ age = ReaperPoll /\ lease' = lease
    BY <1>9 DEF ReaperWake, ReaperPause
  <2>2. reaper'.pc = "select" /\ reaper'.age = 0 /\ reaper'.lag = NoTxn
    BY <1>1, <1>9 DEF ReaperWake, TxnOpen, Types
  <2>3. \A j \in Jobs : Overdue(j)' = Overdue(j)
    BY <2>1, <2>2, WorkTodo DEF Overdue
  <2> QED BY <1>2, <2>1, <2>2, <2>3 DEF Reaps, TxnOpen, InTime, Chosen
<1>10. ASSUME NEW k \in Jobs, Reap(k) PROVE Reaps'
  <2>1. PICK lag \in Begun : lease' = IF Expired(k, lag) THEN [lease EXCEPT ![k] = NoLease] ELSE lease
    BY <1>10 DEF Reap
  <2>2. reaper.pc = "update" /\ k \in todo /\ age <= Delay
    BY <1>1, <1>10 DEF Reap
  <2>3. /\ reaper'.pc = "updated" /\ reaper'.age = age /\ reaper'.lag = NoTxn
        /\ reaper'.todo = todo \ {k}
    BY <1>10 DEF Reap, Types
  <2>4. Work(todo \ {k}) = Work(todo) - Delay
    BY <1>1, <2>2, WorkRemove
  <2>5. TxnOpen'
    BY <2>3 DEF TxnOpen
  <2>6. ASSUME NEW j \in Jobs PROVE InTime(j)'
    <3>1. /\ Work(Jobs) \in Nat /\ Work(todo) \in Nat /\ Work(todo) <= Work(Jobs)
          /\ lease[j].left \in Int
      BY <1>2, WorkTodo
    <3>2. CASE j # k /\ j \in todo
      <4>1. Overdue(j)' = Overdue(j)
        BY <1>1, <2>2, <2>3, <2>4, <3>1, <3>2 DEF Overdue, OverdueTodo
      <4>2. lease'[j] = lease[j]
        BY <2>1, <3>2 DEF Types
      <4> QED BY <1>2, <2>3, <4>1, <4>2 DEF InTime, Chosen
    <3>3. CASE j \notin todo
      <4>1. Overdue(j)' = Overdue(j)
        BY <1>1, <2>2, <2>3, <2>4, <3>1, <3>3 DEF Overdue, OverdueDone
      <4>2. lease'[j] = lease[j]
        BY <2>1, <2>2, <3>3 DEF Types
      <4> QED BY <1>2, <2>3, <4>1, <4>2 DEF InTime, Chosen
    <3>4. CASE j = k
      <4>1. Overdue(j)' = Work(Jobs) - Work(todo) + age
        BY <1>1, <2>3, <2>4, <3>1, <3>4 DEF Overdue, OverdueDone
      <4>2. CASE Expired(k, lag)
        <5>1. lease'[j] = NoLease
          BY <2>1, <3>4, <4>2 DEF Types
        <5> QED BY <1>1, <2>3, <3>1, <4>1, <5>1 DEF InTime, Chosen, NoLease
      <4>3. CASE ~ Expired(k, lag)
        <5>1. - lease[j].left <= age
          <6>1. CASE lease[j].owner = NoWorker
            BY <1>1, <1>2, <3>1, <6>1 DEF InTime
          <6>2. CASE lease[j].owner # NoWorker /\ reaper.lag = NoTxn
            <7>1. lag \in Nat /\ lag <= age
              BY <1>1, <2>1, <6>2 DEF Begun
            <7> QED BY <1>1, <3>1, <3>4, <4>3, <6>2, <7>1 DEF Expired
          <6>3. CASE lease[j].owner # NoWorker /\ reaper.lag # NoTxn
            <7>1. lag = reaper.lag /\ lag \in Nat /\ lag <= Delay + age
              BY <1>1, <2>1, <2>2, <6>3 DEF Begun, TxnOpen
            <7>2. lease[j].left + lag >= 3 * Delay + JobTimeout
              BY <1>2, <2>2, <3>4, <4>3, <6>3, <7>1 DEF InTime, Chosen, Expired
            <7> QED BY <1>1, <2>2, <3>1, <7>1, <7>2
          <6> QED BY <6>1, <6>2, <6>3
        <5>2. lease'[j] = lease[j]
          BY <2>1, <4>3
        <5> QED BY <1>1, <1>2, <2>3, <3>1, <4>1, <5>1, <5>2 DEF InTime, Chosen
      <4> QED BY <4>2, <4>3
    <3> QED BY <3>2, <3>3, <3>4
  <2> QED BY <2>5, <2>6 DEF Reaps
<1>11. CASE ReaperAnswered
  <2>1. reaper.pc \in {"selected", "updated"} /\ lease' = lease /\ age <= Delay
    BY <1>1, <1>11 DEF ReaperAnswered
  <2>2. CASE todo = {}
    <3>1. reaper'.pc = "sleep" /\ reaper'.age = 0 /\ reaper'.lag = NoTxn
      BY <1>11, <2>2 DEF ReaperAnswered
    <3>2. ASSUME NEW j \in Jobs PROVE InTime(j)'
      <4>1. Overdue(j) = OverdueDone
        BY <2>1, <2>2 DEF Overdue
      <4>2. OverdueDone <= Work(Jobs) /\ OverdueDone \in Int
        BY <1>1, <2>1, <2>2, WorkTodo, WorkNothing DEF OverdueDone
      <4>3. Overdue(j)' = Work(Jobs) /\ Work(Jobs) \in Nat
        BY <3>1, WorkTodo DEF Overdue
      <4> QED BY <1>2, <2>1, <3>1, <4>1, <4>2, <4>3 DEF InTime, Chosen
    <3> QED BY <3>1, <3>2 DEF Reaps, TxnOpen
  <2>3. CASE todo # {}
    <3>1. reaper'.pc = "update" /\ reaper'.age = 0 /\ reaper'.lag = reaper.lag /\ reaper'.todo = todo
      BY <1>11, <2>3 DEF ReaperAnswered, Types
    <3>2. TxnOpen'
      BY <1>1, <2>1, <3>1 DEF TxnOpen
    <3>3. ASSUME NEW j \in Jobs PROVE InTime(j)'
      <4>1. Overdue(j) <= Overdue(j)' /\ Overdue(j)' \in Int
        <5>1. CASE j \in todo
          BY <1>1, <2>1, <3>1, <5>1, WorkTodo DEF Overdue, OverdueTodo
        <5>2. CASE j \notin todo
          BY <1>1, <2>1, <3>1, <5>2, WorkTodo DEF Overdue, OverdueDone
        <5> QED BY <5>1, <5>2
      <4> QED BY <1>2, <2>1, <3>1, <4>1 DEF InTime, Chosen
    <3> QED BY <3>2, <3>3 DEF Reaps
  <2> QED BY <2>2, <2>3
<1>12. CASE Tick
  <2>1. /\ reaper'.pc = reaper.pc /\ reaper'.todo = todo /\ reaper'.age = age + 1
        /\ reaper'.lag = IF reaper.lag = NoTxn THEN NoTxn ELSE reaper.lag + 1
    <3> DEFINE n == IF reaper.lag = NoTxn THEN reaper.lag ELSE reaper.lag + 1
    <3>1. reaper' = [reaper EXCEPT !.age = reaper.age + 1, !.lag = n]
      BY <1>12 DEF Tick
    <3>2. /\ reaper'.pc = reaper.pc /\ reaper'.todo = todo /\ reaper'.age = age + 1
          /\ reaper'.lag = n
      <4> HIDE DEF n
      <4> QED BY <3>1 DEF Types
    <3> QED BY <3>2
  <2>2. TxnOpen'
    BY <1>1, <2>1 DEF TxnOpen, NoTxn
  <2>3. ASSUME NEW j \in Jobs PROVE InTime(j)'
    <3>1. Overdue(j)' = Overdue(j) + 1
      BY <1>1, <2>1, WorkTodo DEF Overdue, OverdueTodo, OverdueDone, ReaperPc
    <3>2. CASE lease[j].owner = NoWorker
      <4>1. lease'[j] = lease[j]
        BY <1>12, <3>2 DEF Tick
      <4> QED BY <1>2, <1>3, <3>1, <3>2, <4>1 DEF InTime, Chosen
    <3>3. CASE lease[j].owner # NoWorker
      <4>1. lease[j].left >= - MaxOverdue
        BY <1>2, <1>3 DEF InTime
      <4>2. lease'[j] = [lease[j] EXCEPT !.left = @ - 1]
        BY <1>2, <1>3, <1>12, <3>3, <4>1 DEF Tick
      <4>3. lease'[j].owner = lease[j].owner /\ lease'[j].left = lease[j].left - 1
        BY <1>2, <4>2
      <4>4. Chosen(j)'
        <5>1. reaper.lag # NoTxn => lease'[j].left + reaper'.lag = lease[j].left + reaper.lag
          BY <1>1, <1>2, <2>1, <4>3
        <5>2. reaper'.lag # NoTxn => reaper.lag # NoTxn
          BY <2>1
        <5> QED BY <1>2, <2>1, <4>3, <5>1, <5>2 DEF InTime, Chosen
      <4> QED BY <1>2, <1>3, <3>1, <3>3, <4>3, <4>4 DEF InTime
    <3> QED BY <3>2, <3>3
  <2> QED BY <2>2, <2>3 DEF Reaps
<1>13. CASE reaper' = reaper /\ lease' = lease
  BY <1>4, <1>13 DEF Leased
<1> QED
  BY <1>5, <1>6, <1>7, <1>8, <1>9, <1>10, <1>11, <1>12, <1>13
  DEF Next, vars, IssueClaim, ClaimAnswered, LogStarted, HandlerEnds, Release, Rest, Stop, Crash,
      worker_heartbeat, HeartbeatAnswered, RenewalAnswered, Wake, worker_offline

(***************************************************************************)
(* Whatever the settings and however many jobs are leased, a lease that    *)
(* ran out is taken back within a poll, one SELECT and two statements a    *)
(* job, even by a reaper whose transaction had just begun, with every      *)
(* statement and every answer as slow as may be.                           *)
(***************************************************************************)
THEOREM ReaperIsInTime == Spec => []ReapedInTime
<1>1. Init => Reaps
  <2> SUFFICES ASSUME Init PROVE Reaps
    OBVIOUS
  <2>1. Types /\ InBounds
    BY InitTypes
  <2>2. /\ reaper = [pc |-> "select", age |-> 0, todo |-> {}, lag |-> NoTxn]
        /\ \A j \in Jobs : lease[j].left = 0
    BY DEF Init, NoLease
  <2>3. \A j \in Jobs : Overdue(j) \in Nat
    BY <2>1, OverdueBound
  <2> QED BY <2>2, <2>3 DEF Reaps, TxnOpen, InTime, Chosen
<1>2. Types /\ InBounds /\ Reaps /\ [Next]_vars => Reaps'
  BY ReapsInductive
<1>3. LeaseInv => Types /\ InBounds
  BY DEF LeaseInv
<1>4. Types /\ InBounds /\ Reaps => ReapedInTime
  <2> SUFFICES ASSUME Types, InBounds, Reaps, NEW j \in Jobs PROVE lease[j].left >= - MaxOverdue
    BY DEF ReapedInTime
  <2>1. lease[j].left \in Int /\ - lease[j].left <= Overdue(j)
    BY DEF Types, Reaps, InTime
  <2>2. Overdue(j) \in 0 .. MaxOverdue
    BY OverdueBound
  <2>3. MaxOverdue \in Nat
    <3>1. Cardinality(Jobs) \in Nat
      BY WorkNat
    <3> QED BY <3>1, SettingsNat DEF MaxOverdue
  <2> QED BY <2>1, <2>2, <2>3
<1> QED BY <1>1, <1>2, <1>3, <1>4, LeaseHolds, PTL DEF Spec
===============================================================================
