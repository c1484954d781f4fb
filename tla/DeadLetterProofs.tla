---------------------------- MODULE DeadLetterProofs ----------------------------
(***************************************************************************)
(* The dead-letter list is the index of the failed jobs, up to its length  *)
(* limit, for any number of jobs, workers and overlapping submissions,     *)
(* with graceful stops, maintenance restarts and lost requests.  The       *)
(* failing commit and the LPUSH are two steps, so a crash between them     *)
(* loses an entry, and so does a Redis restart; a cancel or a manual retry *)
(* that comes between the two leaves an entry for a job that has not       *)
(* failed (see README), and a stalled worker fails a job that is somebody  *)
(* else's.  The theorem is for the system without these.                   *)
(***************************************************************************)
EXTENDS ExclusiveProofs, SequenceTheorems

OnlySubmissions == ApiOps \subseteq {"submit", "schedule"}
NoLosses == FaultKinds \subseteq {"stop", "restart", "drop"}

NoCalls == \A r \in Requests : req[r].pc \in {"idle", "enqueue", "schedule"}

Failed(j) == db[j].status = "failed"

(* The worker has committed the failure of j and goes on to list it.       *)
Pushing(w, j) == task[w].pc = "dead_letter" /\ task[w].job = j

Indexed(j) == \E n \in 1..Len(deadLetter) : deadLetter[n] = j

ListSound ==
  /\ deadLetter \in Seq(Jobs)
  /\ Len(deadLetter) <= DeadLetterMaxLen
  /\ \A m, n \in 1..Len(deadLetter) : deadLetter[m] = deadLetter[n] => m = n
  /\ \A n \in 1..Len(deadLetter) : Failed(deadLetter[n])

(* An entry about to be made is not there yet, and one worker makes it.    *)
PushSound ==
  \A w \in Workers : \A j \in Jobs : Pushing(w, j) =>
    /\ Failed(j)
    /\ ~ Indexed(j)
    /\ \A v \in Workers : Pushing(v, j) => v = w

FailedIndexed ==
  \A j \in Jobs : Failed(j) =>
    \/ Indexed(j)
    \/ \E w \in Workers : Pushing(w, j)
    \/ Len(deadLetter) = DeadLetterMaxLen

IndexInv == ExclusiveInv /\ NoCalls /\ ListSound /\ PushSound /\ FailedIndexed

-------------------------------------------------------------------------------
(* What a step does to the list, the failures and the entries to be made:  *)
(* nothing ...                                                             *)
IndexKept ==
  /\ deadLetter' = deadLetter
  /\ \A j \in Jobs : Failed(j)' <=> Failed(j)
  /\ \A w \in Workers : \A j \in Jobs : Pushing(w, j)' <=> Pushing(w, j)

(* ... worker w fails j for good ...                                       *)
Fails(w, j) ==
  /\ deadLetter' = deadLetter
  /\ ~ Failed(j)
  /\ \A i \in Jobs : Failed(i)' <=> Failed(i) \/ i = j
  /\ \A v \in Workers : \A i \in Jobs : Pushing(v, i)' <=> Pushing(v, i) \/ (v = w /\ i = j)

(* ... or lists it.                                                        *)
Lists(w, j) ==
  /\ deadLetter' = Trimmed(<<j>> \o deadLetter)
  /\ Pushing(w, j)
  /\ \A i \in Jobs : Failed(i)' <=> Failed(i)
  /\ \A v \in Workers : \A i \in Jobs : Pushing(v, i)' <=> Pushing(v, i) /\ v # w

IndexEffects ==
  IndexKept \/ \E w \in Workers : \E j \in Jobs : Fails(w, j) \/ Lists(w, j)

-------------------------------------------------------------------------------
(* t is s after LPUSH of j and LTRIM: the new entry comes first, the       *)
(* others move by one, and one is lost only when the list is full.         *)
IsPush(s, j, t) ==
  /\ t \in Seq(Jobs)
  /\ Len(t) <= DeadLetterMaxLen
  /\ Len(t) = Len(s) + 1 \/ (Len(t) = Len(s) /\ Len(t) = DeadLetterMaxLen)
  /\ t[1] = j
  /\ \A k \in 2..Len(t) : t[k] = s[k - 1]
  /\ Len(t) >= 1

(* That is what dead_letter does.                                          *)
LEMMA Pushed ==
  ASSUME NEW s \in Seq(Jobs), Len(s) <= DeadLetterMaxLen, NEW j \in Jobs
  PROVE  IsPush(s, j, Trimmed(<<j>> \o s))
<1> DEFINE t == Trimmed(<<j>> \o s)
<1>0. DeadLetterMaxLen \in Nat /\ DeadLetterMaxLen >= 1 /\ Len(s) \in Nat
  BY DeadLetterAssumption
<1>1. PICK u : u = <<j>> \o s
  OBVIOUS
<1>2. u \in Seq(Jobs) /\ Len(u) = Len(s) + 1 /\ u[1] = j /\ \A k \in 2..Len(u) : u[k] = s[k - 1]
  <2>1. <<j>> \in Seq(Jobs) /\ Len(<<j>>) = 1 /\ <<j>>[1] = j
    OBVIOUS
  <2>2. /\ <<j>> \o s \in Seq(Jobs)
        /\ Len(<<j>> \o s) = 1 + Len(s)
        /\ \A i \in 1..1 + Len(s) : (<<j>> \o s)[i] = IF i <= 1 THEN <<j>>[i] ELSE s[i - 1]
    BY <2>1, ConcatProperties
  <2> QED BY <1>0, <1>1, <2>1, <2>2
<1> DEFINE m == IF Len(u) < DeadLetterMaxLen THEN Len(u) ELSE DeadLetterMaxLen
<1>3. m \in 1..Len(u) /\ (m = Len(u) \/ m = DeadLetterMaxLen) /\ m <= DeadLetterMaxLen
  BY <1>0, <1>2
<1>4. t = SubSeq(u, 1, m)
  BY <1>1 DEF Trimmed
<1> HIDE DEF m, t
<1>5. /\ SubSeq(u, 1, m) \in Seq(Jobs)
      /\ Len(SubSeq(u, 1, m)) = m
      /\ \A k \in 1..m : SubSeq(u, 1, m)[k] = u[k]
  <2>1. \A k \in 1..m : u[k] \in Jobs
    BY <1>2, <1>3, ElementOfSeq
  <2>2. m \in Int /\ m >= 1
    BY <1>2, <1>3
  <2>3. /\ SubSeq(u, 1, m) \in Seq(Jobs)
        /\ Len(SubSeq(u, 1, m)) = IF 1 <= m THEN m - 1 + 1 ELSE 0
        /\ \A k \in 1..m - 1 + 1 : SubSeq(u, 1, m)[k] = u[1 + k - 1]
    BY <2>1, <2>2, SubSeqProperties
  <2>4. \A k \in 1..m : 1 + k - 1 = k
    OBVIOUS
  <2>5. m - 1 + 1 = m
    BY <2>2
  <2> QED BY <2>2, <2>3, <2>4, <2>5
<1>6. t \in Seq(Jobs) /\ Len(t) = m /\ \A k \in 1..m : t[k] = u[k]
  BY <1>4, <1>5
<1>7. \A k \in 2..m : u[k] = s[k - 1]
  BY <1>2, <1>3
<1>8. m = Len(s) + 1 \/ (m = Len(s) /\ m = DeadLetterMaxLen)
  BY <1>0, <1>2, <1>3
<1>9. t[1] = j /\ \A k \in 2..m : t[k] = s[k - 1]
  <2>1. 1 \in 1..m /\ \A k \in 2..m : k \in 1..m
    BY <1>2, <1>3
  <2> QED BY <1>2, <1>6, <1>7, <2>1
<1>10. m >= 1
  BY <1>3
<1>11. IsPush(s, j, t)
  BY <1>3, <1>6, <1>8, <1>9, <1>10 DEF IsPush
<1> QED BY <1>11 DEF t

(* The three effects keep the index.                                       *)
LEMMA IndexStands ==
  ASSUME ListSound, PushSound, FailedIndexed, IndexEffects
  PROVE  ListSound' /\ PushSound' /\ FailedIndexed'
<1>1. CASE IndexKept
  <2>1. \A j \in Jobs : Indexed(j)' <=> Indexed(j)
    BY <1>1 DEF IndexKept, Indexed
  <2>2. ListSound'
    <3>1. \A n \in 1..Len(deadLetter) : deadLetter[n] \in Jobs
      BY DEF ListSound
    <3>2. \A n \in 1..Len(deadLetter) : Failed(deadLetter[n])'
      BY <1>1, <3>1 DEF IndexKept, ListSound, Failed
    <3> QED BY <1>1, <3>2 DEF IndexKept, ListSound, Failed
  <2>3. PushSound'
    BY <1>1, <2>1 DEF IndexKept, PushSound
  <2>4. FailedIndexed'
    BY <1>1, <2>1 DEF IndexKept, FailedIndexed
  <2> QED BY <2>2, <2>3, <2>4
<1>2. ASSUME NEW w \in Workers, NEW j \in Jobs, Fails(w, j)
      PROVE  ListSound' /\ PushSound' /\ FailedIndexed'
  <2>1. \A i \in Jobs : Indexed(i)' <=> Indexed(i)
    BY <1>2 DEF Fails, Indexed
  <2>2. ~ Indexed(j) /\ \A v \in Workers : ~ Pushing(v, j)
    BY <1>2 DEF Fails, ListSound, PushSound, Indexed
  <2>3. ListSound'
    <3>1. \A n \in 1..Len(deadLetter) : deadLetter[n] \in Jobs
      BY DEF ListSound
    <3>2. \A n \in 1..Len(deadLetter) : Failed(deadLetter[n])'
      BY <1>2, <3>1 DEF Fails, ListSound, Failed
    <3> QED BY <1>2, <3>2 DEF Fails, ListSound, Failed
  <2>4. PushSound'
    BY <1>2, <2>1, <2>2 DEF Fails, PushSound
  <2>5. FailedIndexed'
    BY <1>2, <2>1 DEF Fails, FailedIndexed
  <2> QED BY <2>3, <2>4, <2>5
<1>3. ASSUME NEW w \in Workers, NEW j \in Jobs, Lists(w, j)
      PROVE  ListSound' /\ PushSound' /\ FailedIndexed'
  <2>1. PICK s \in Seq(Jobs) : s = deadLetter
    BY DEF ListSound
  <2>2. PICK t : t = deadLetter'
    OBVIOUS
  <2>3. /\ t \in Seq(Jobs)
        /\ Len(t) <= DeadLetterMaxLen
        /\ Len(t) = Len(s) + 1 \/ (Len(t) = Len(s) /\ Len(t) = DeadLetterMaxLen)
        /\ t[1] = j
        /\ \A k \in 2..Len(t) : t[k] = s[k - 1]
        /\ Len(t) >= 1
    <3>1. t = Trimmed(<<j>> \o s) /\ Len(s) <= DeadLetterMaxLen
      BY <1>3, <2>1, <2>2 DEF Lists, ListSound
    <3>2. IsPush(s, j, t)
      BY <3>1, Pushed
    <3> QED BY <3>2 DEF IsPush
  <2>4. Len(s) \in Nat /\ Len(t) \in Nat
    BY <2>1, <2>3
  <2>5. /\ \A n \in 1..Len(s) : s[n] \in Jobs /\ s[n] # j /\ Failed(s[n])
        /\ \A m, n \in 1..Len(s) : s[m] = s[n] => m = n
    BY <1>3, <2>1 DEF Lists, PushSound, Indexed, ListSound
  <2>6. \A m, n \in 1..Len(t) : t[m] = t[n] => m = n
    <3> SUFFICES ASSUME NEW m \in 1..Len(t), NEW n \in 1..Len(t), t[m] = t[n], m < n PROVE FALSE
      BY <2>4
    <3>1. n \in 2..Len(t) /\ n - 1 \in 1..Len(s) /\ t[n] = s[n - 1]
      BY <2>3, <2>4
    <3>2. CASE m = 1
      BY <2>3, <2>5, <3>1, <3>2
    <3>3. CASE m # 1
      <4>1. m - 1 \in 1..Len(s) /\ t[m] = s[m - 1]
        BY <2>3, <2>4, <3>3
      <4> QED BY <2>5, <3>1, <4>1
    <3> QED BY <3>2, <3>3
  <2>7. \A n \in 1..Len(t) : t[n] \in Jobs /\ Failed(t[n])
    <3> SUFFICES ASSUME NEW n \in 1..Len(t) PROVE t[n] \in Jobs /\ Failed(t[n])
      OBVIOUS
    <3>1. CASE n = 1
      BY <1>3, <2>3, <3>1 DEF Lists, PushSound
    <3>2. CASE n # 1
      <4>1. n - 1 \in 1..Len(s) /\ t[n] = s[n - 1]
        BY <2>3, <2>4, <3>2
      <4> QED BY <2>5, <4>1
    <3> QED BY <3>1, <3>2
  <2>8. ListSound'
    <3>1. \A n \in 1..Len(t) : Failed(t[n])'
      BY <1>3, <2>7 DEF Lists, Failed
    <3> QED BY <2>2, <2>3, <2>6, <3>1 DEF ListSound, Failed
  <2>9. ASSUME NEW i \in Jobs PROVE Indexed(i)' => Indexed(i) \/ i = j
    <3> SUFFICES ASSUME NEW n \in 1..Len(t), t[n] = i, n # 1 PROVE Indexed(i)
      BY <2>2, <2>3 DEF Indexed
    <3>1. n - 1 \in 1..Len(s) /\ s[n - 1] = i
      BY <2>3, <2>4
    <3> QED BY <2>1, <3>1 DEF Indexed
  <2>10. ASSUME NEW i \in Jobs, Indexed(i) PROVE Indexed(i)' \/ Len(t) = DeadLetterMaxLen
    <3>1. PICK n \in 1..Len(s) : s[n] = i
      BY <2>1, <2>10 DEF Indexed
    <3>2. CASE Len(t) = Len(s) + 1
      <4>1. n + 1 \in 2..Len(t) /\ t[n + 1] = s[(n + 1) - 1] /\ (n + 1) - 1 = n
        BY <2>3, <2>4, <3>2
      <4> QED BY <2>2, <2>4, <3>1, <4>1 DEF Indexed
    <3> QED BY <2>3, <3>2
  <2>11. Indexed(j)'
    BY <2>2, <2>3, <2>4 DEF Indexed
  <2>12. PushSound'
    BY <1>3, <2>9 DEF Lists, PushSound
  <2>13. FailedIndexed'
    <3> SUFFICES ASSUME NEW i \in Jobs, Failed(i)'
                 PROVE  \/ Indexed(i)'
                        \/ \E v \in Workers : Pushing(v, i)'
                        \/ Len(t) = DeadLetterMaxLen
      BY <2>2 DEF FailedIndexed
    <3>1. \/ Indexed(i)
          \/ \E v \in Workers : Pushing(v, i)
          \/ Len(s) = DeadLetterMaxLen
      BY <1>3, <2>1 DEF Lists, FailedIndexed
    <3>2. CASE Len(s) = DeadLetterMaxLen
      BY <2>3, <2>4, <3>2
    <3>3. ASSUME NEW v \in Workers, Pushing(v, i), i # j PROVE Pushing(v, i)'
      BY <1>3, <3>3 DEF Lists, Pushing
    <3> QED BY <2>10, <2>11, <3>1, <3>2, <3>3
  <2> QED BY <2>8, <2>12, <2>13
<1> QED BY <1>1, <1>2, <1>3 DEF IndexEffects

-------------------------------------------------------------------------------
(* The steps.                                                              *)

(* A row is written that has not failed before or after.                   *)
LEMMA FailuresKept ==
  ASSUME TypeOK, NEW j \in Jobs, NEW row, db' = [db EXCEPT ![j] = row],
         row.status = "failed" <=> Failed(j)
  PROVE  \A i \in Jobs : Failed(i)' <=> Failed(i)
<1>1. db'[j] = row /\ \A i \in Jobs : i # j => db'[i] = db[i]
  BY DEF TypeOK
<1> QED BY <1>1 DEF Failed

(* A step of a request, when all requests are submissions.                 *)
LEMMA RequestIndex ==
  ASSUME IndexInv, OnlySubmissions, NEW r \in Requests, Request(r)
  PROVE  IndexKept /\ NoCalls' /\ RunnersCurrent' /\ RetrySeesFailed'
<1> USE DEF IndexInv
<1>t. TypeOK /\ RunnersCurrent
  BY DEF ExclusiveInv, OwnershipInv
<1>0. PICK j \in Jobs :
        \/ Submit(r, j) \/ SubmitScheduled(r, j) \/ SubmitEnqueue(r, j)
        \/ SubmitSchedule(r, j) \/ CancelRead(r, j) \/ CancelCommit(r, j)
        \/ CancelZremPending(r, j) \/ CancelZremScheduled(r, j)
        \/ RetryRead(r, j) \/ RetryCommit(r, j) \/ RetryLrem(r, j)
  BY DEF Request, ApiStep
<1>1. Submit(r, j) \/ SubmitScheduled(r, j) \/ SubmitEnqueue(r, j) \/ SubmitSchedule(r, j)
  BY <1>0 DEF NoCalls, OnlySubmissions, CancelRead, CancelCommit, CancelZremPending,
              CancelZremScheduled, RetryRead, RetryCommit, RetryLrem, At
<1>2. UNCHANGED <<task, proc, deadLetter>>
  BY <1>1 DEF Request, workerVars, Submit, SubmitScheduled, SubmitEnqueue, SubmitSchedule,
              queueVars, enqueue, schedule
<1>3. NoCalls'
  <2>1. ASSUME NEW q, req' = [req EXCEPT ![r] = q], q.pc \in {"idle", "enqueue", "schedule"}
        PROVE  NoCalls'
    BY <1>t, <2>1 DEF NoCalls, TypeOK
  <2>2. IdleReq.pc = "idle"
    BY DEF IdleReq
  <2> QED BY <1>1, <2>1, <2>2 DEF Submit, SubmitScheduled, SubmitEnqueue, SubmitSchedule, Answer
<1>4. RetrySeesFailed'
  BY <1>3 DEF NoCalls, RetrySeesFailed, At
<1>5. CASE UNCHANGED db
  <2>1. RunnersCurrent'
    BY <1>2, <1>5, <1>t DEF RunnersCurrent, Runs, Alive
  <2> QED BY <1>2, <1>3, <1>4, <1>5, <2>1 DEF IndexKept, Failed, Pushing
<1>6. CASE Submit(r, j) \/ SubmitScheduled(r, j)
  <2>1. PICK at \in {"null", "future"} : ~ Exists(j) /\ db' = [db EXCEPT ![j] = NewRow(at)]
    BY <1>6 DEF Submit, SubmitScheduled
  <2>2. NewRow(at).status \in {"pending", "scheduled"}
    BY DEF NewRow, NoRow
  <2>3. ~ Failed(j) /\ \A w \in Workers : ~ Runs(w, j)
    BY <1>t, <2>1, NotRun DEF Exists, Failed
  <2>4. \A i \in Jobs : Failed(i)' <=> Failed(i)
    BY <1>t, <2>1, <2>2, <2>3, FailuresKept
  <2>5. \A i \in Jobs : i # j => db'[i] = db[i]
    BY <1>t, <2>1 DEF TypeOK
  <2>6. RunnersCurrent'
    BY <1>2, <1>t, <2>3, <2>5 DEF RunnersCurrent, Runs, Alive
  <2> QED BY <1>2, <1>3, <1>4, <2>4, <2>6 DEF IndexKept, Pushing
<1> QED BY <1>1, <1>5, <1>6 DEF SubmitEnqueue, SubmitSchedule

(* A step of a worker's executor loop.                                     *)
LEMMA WorkerIndex ==
  ASSUME IndexInv, NEW w \in Workers, Worker(w)
  PROVE  IndexEffects
<1> USE DEF IndexInv
<1>t. TypeOK /\ RunnersCurrent /\ RunningLoaded
  BY DEF ExclusiveInv, OwnershipInv, Ownership
<1>a. ASSUME UNCHANGED deadLetter, \A i \in Jobs : Failed(i)' <=> Failed(i),
             \A v \in Workers : v # w => task'[v] = task[v],
             task[w].pc # "dead_letter", task'[w].pc # "dead_letter"
      PROVE  IndexKept
  BY <1>a DEF IndexKept, Pushing
<1>b. UNCHANGED db => \A i \in Jobs : Failed(i)' <=> Failed(i)
  BY DEF Failed
<1>r. ASSUME task[w].pc = "running"
      PROVE  /\ task[w].job \in Jobs /\ db[task[w].job] \in Row
             /\ Memory(w) \in Row /\ Memory(w).status = "processing"
             /\ ~ Failed(task[w].job)
  <2>1. task[w].job \in Jobs /\ db[task[w].job] \in Row /\ Runs(w, task[w].job)
    BY <1>r, <1>t DEF TypeOK, Runs
  <2>2. Memory(w) \in Row /\ Memory(w).status = "processing"
    BY <1>r, <1>t, MemoryRow DEF RunningLoaded
  <2> QED BY <1>t, <2>1, <2>2 DEF RunnersCurrent, Failed
<1>f. ASSUME NEW row, NEW pc, Finalize(w, row, pc), task[w].pc = "running"
      PROVE  /\ db' = [db EXCEPT ![task[w].job] = row] /\ UNCHANGED deadLetter
             /\ task'[w].pc = pc /\ task'[w].job = task[w].job
             /\ \A v \in Workers : v # w => task'[v] = task[v]
  BY <1>f, <1>t DEF Finalize, queueVars, TypeOK, Task
<1>1. ASSUME NEW j \in Jobs, Dequeue(w, j) PROVE IndexKept
  <2>1. /\ UNCHANGED <<db, deadLetter>> /\ task[w].pc # "dead_letter" /\ task'[w].pc # "dead_letter"
        /\ \A v \in Workers : v # w => task'[v] = task[v]
    BY <1>1, <1>t DEF Dequeue, dequeue, TypeOK
  <2> QED BY <1>a, <1>b, <2>1
<1>2. CASE Claim(w)
  <2>0. PICK j \in Jobs : j = task[w].job
    BY <1>2, <1>t DEF Claim, TypeOK
  <2>1. PICK row : row = ClaimSet(db[j], w)
    OBVIOUS
  <2>2. /\ db' = [db EXCEPT ![j] = row] /\ UNCHANGED deadLetter /\ task[w].pc # "dead_letter"
        /\ task' = [task EXCEPT ![w].pc = "running", ![w].row = row]
        /\ ~ Failed(j)
    BY <1>2, <2>0, <2>1 DEF Claim, ClaimWhere, Ready, Failed, queueVars
  <2>3. row.status = "processing"
    BY <1>t, <2>1 DEF ClaimSet, TypeOK, Row
  <2>4. task'[w].pc = "running" /\ \A v \in Workers : v # w => task'[v] = task[v]
    BY <1>t, <2>2 DEF TypeOK, Task
  <2>5. \A i \in Jobs : Failed(i)' <=> Failed(i)
    BY <1>t, <2>2, <2>3, FailuresKept
  <2>6. IndexKept
    BY <1>a, <2>2, <2>4, <2>5
  <2> QED BY <2>6 DEF IndexEffects
<1>3. CASE ClaimSkipped(w)
  <2>1. /\ UNCHANGED <<db, deadLetter>> /\ task[w].pc # "dead_letter" /\ task'[w].pc # "dead_letter"
        /\ \A v \in Workers : v # w => task'[v] = task[v]
    BY <1>3, <1>t DEF ClaimSkipped, IdleTask, queueVars, TypeOK
  <2> QED BY <1>a, <1>b, <2>1 DEF IndexEffects
<1>4. CASE FinishCompleted(w) \/ FinishRetry(w)
  <2>1. PICK row : /\ row \in {Complete(db[task[w].job], Memory(w)), RetryLater(db[task[w].job], Memory(w))}
                   /\ task[w].pc = "running" /\ Finalize(w, row, "release")
    BY <1>4 DEF FinishCompleted, FinishRetry
  <2>2. row.status \in {"completed", "pending"}
    BY <1>r, <2>1, ObjectWrites
  <2>3. \A i \in Jobs : Failed(i)' <=> Failed(i)
    BY <1>f, <1>r, <1>t, <2>1, <2>2, FailuresKept
  <2>4. IndexKept
    BY <1>a, <1>f, <2>1, <2>3
  <2> QED BY <2>4 DEF IndexEffects
<1>5. CASE FinishFailed(w)
  <2>0. PICK j \in Jobs : j = task[w].job
    BY <1>5, <1>r DEF FinishFailed
  <2>1. PICK row : /\ row = FailPermanently(db[j], Memory(w))
                   /\ task[w].pc = "running" /\ Finalize(w, row, "dead_letter")
    BY <1>5, <2>0 DEF FinishFailed
  <2>2. row.status = "failed" /\ ~ Failed(j)
    BY <1>r, <2>0, <2>1, ObjectWrites
  <2>3. db'[j] = row /\ \A i \in Jobs : i # j => db'[i] = db[i]
    BY <1>f, <1>t, <2>0, <2>1 DEF TypeOK
  <2>4. \A i \in Jobs : Failed(i)' <=> Failed(i) \/ i = j
    BY <2>2, <2>3 DEF Failed
  <2>5. \A v \in Workers : \A i \in Jobs : Pushing(v, i)' <=> Pushing(v, i) \/ (v = w /\ i = j)
    BY <1>f, <2>0, <2>1 DEF Pushing
  <2>6. Fails(w, j)
    BY <1>f, <2>1, <2>2, <2>4, <2>5 DEF Fails
  <2> QED BY <2>6 DEF IndexEffects
<1>6. CASE DeadLetter(w)
  <2>0. PICK j \in Jobs : j = task[w].job
    BY <1>6, <1>t DEF DeadLetter, TypeOK
  <2>1. /\ deadLetter' = Trimmed(<<j>> \o deadLetter) /\ UNCHANGED db
        /\ task[w].pc = "dead_letter" /\ task'[w].pc = "release"
        /\ \A v \in Workers : v # w => task'[v] = task[v]
    BY <1>6, <1>t, <2>0 DEF DeadLetter, dead_letter, TypeOK, Task
  <2>2. \A v \in Workers : \A i \in Jobs : Pushing(v, i)' <=> Pushing(v, i) /\ v # w
    BY <2>1 DEF Pushing
  <2>3. Lists(w, j)
    BY <1>b, <2>0, <2>1, <2>2 DEF Lists, Pushing
  <2> QED BY <2>3 DEF IndexEffects
<1>7. CASE Release(w)
  <2>1. /\ UNCHANGED <<db, deadLetter>> /\ task[w].pc # "dead_letter" /\ task'[w].pc # "dead_letter"
        /\ \A v \in Workers : v # w => task'[v] = task[v]
    BY <1>7, <1>t DEF Release, IdleTask, queueVars, TypeOK
  <2> QED BY <1>a, <1>b, <2>1 DEF IndexEffects
<1>8. CASE Exit(w)
  BY <1>8, <1>b DEF Exit, queueVars, IndexEffects, IndexKept, Pushing
<1>9. CASE Report(w)
  <2>0. PICK j \in Jobs : j = task[w].job
    BY <1>9, <1>r DEF Report
  <2>1. PICK row : /\ row = ReportProgress(db[j], Memory(w), Percent(reports[w] + 1))
                   /\ db' = [db EXCEPT ![j] = row] /\ UNCHANGED <<task, deadLetter>>
                   /\ task[w].pc = "running"
    BY <1>9, <2>0 DEF Report, queueVars
  <2>2. row.status = db[j].status
    BY <1>r, <2>0, <2>1, ProgressWrites
  <2>3. \A i \in Jobs : Failed(i)' <=> Failed(i)
    <3>1. row.status = "failed" <=> Failed(j)
      BY <2>2 DEF Failed
    <3> QED BY <1>t, <2>1, <3>1, FailuresKept
  <2> QED BY <2>1, <2>3 DEF IndexEffects, IndexKept, Pushing
<1> QED
  BY <1>1, <1>2, <1>3, <1>4, <1>5, <1>6, <1>7, <1>8, <1>9 DEF Worker, ExecutorStep, IndexEffects

(* The heartbeat, the maintenance loops and the passing of time.           *)
LEMMA BackgroundIndex ==
  ASSUME IndexInv,
         \/ \E w \in Workers : Heartbeat(w)
         \/ Feeder \/ Reaper \/ Scheduler
         \/ \E j \in Jobs : Tick(j)
  PROVE  IndexKept
<1>t. TypeOK
  BY DEF IndexInv, ExclusiveInv, OwnershipInv
<1>1. UNCHANGED <<task, deadLetter>>
  BY DEF Heartbeat, HeartbeatStep, HeartbeatRead, RenewLease, ClearHolder,
         Feeder, FeederStep, FeederSelect, FeederEnqueue, enqueue,
         Reaper, ReaperStep, ReaperSelect, Reap,
         Scheduler, SchedulerStep, SchedulerReadRedis, SchedulerReadDb, Promote, SchedulerDrop,
         SchedulerMove, SchedulerEnqueue, remove_scheduled,
         Tick, ScheduleDue, BackoffOver, LeaseExpires, LeaseOver, Elapse, workerVars, queueVars
<1>a. (\A i \in Jobs : Failed(i)' <=> Failed(i)) => IndexKept
  BY <1>1 DEF IndexKept, Pushing
<1>b. UNCHANGED db => IndexKept
  BY <1>a DEF Failed
<1>c. ASSUME NEW j \in Jobs, NEW row, db' = [db EXCEPT ![j] = row],
             row.status = "failed" <=> Failed(j)
      PROVE  IndexKept
  BY <1>a, <1>c, <1>t, FailuresKept
<1>d. \A j \in Jobs : db[j] \in Row
  BY <1>t DEF TypeOK
<1>2. ASSUME NEW w \in Workers, Heartbeat(w) PROVE IndexKept
  <2>1. CASE RenewLease(w) /\ RenewWhere(db[beat[w].job], w)
    <3>0. PICK j \in Jobs : j = beat[w].job
      BY <1>t, <2>1 DEF RenewLease, TypeOK
    <3>1. PICK row : row = RenewSet(db[j])
      OBVIOUS
    <3>2. row.status = "failed" <=> Failed(j)
      BY <1>d, <3>1 DEF RenewSet, Row, Failed
    <3>3. db' = [db EXCEPT ![j] = row]
      BY <2>1, <3>0, <3>1 DEF RenewLease
    <3> QED BY <1>c, <3>2, <3>3
  <2> QED BY <1>2, <1>b, <2>1 DEF Heartbeat, HeartbeatStep, HeartbeatRead, RenewLease, ClearHolder
<1>3. ASSUME NEW j \in Jobs,
             \/ ReapWhere(db[j]) /\ db' = [db EXCEPT ![j] = ReapSet(@)]
             \/ PromoteWhere(db[j]) /\ db' = [db EXCEPT ![j] = PromoteSet(@)]
      PROVE  IndexKept
  <2>1. PICK row : row \in {ReapSet(db[j]), PromoteSet(db[j])} /\ db' = [db EXCEPT ![j] = row]
    BY <1>3
  <2>2. row.status = "pending"
    BY <1>d, <2>1 DEF ReapSet, PromoteSet, Row
  <2>3. ~ Failed(j)
    BY <1>3 DEF ReapWhere, PromoteWhere, Failed
  <2> QED BY <1>c, <2>1, <2>2, <2>3
<1>4. ASSUME Feeder \/ Reaper \/ Scheduler
      PROVE \/ UNCHANGED db
            \/ \E j \in Jobs : \/ ReapWhere(db[j]) /\ db' = [db EXCEPT ![j] = ReapSet(@)]
                               \/ PromoteWhere(db[j]) /\ db' = [db EXCEPT ![j] = PromoteSet(@)]
  BY <1>4 DEF Feeder, Reaper, Scheduler, FeederStep, ReaperStep, SchedulerStep, FeederSelect,
     FeederEnqueue, ReaperSelect, Reap, SchedulerReadRedis, SchedulerReadDb, Promote,
     SchedulerDrop, SchedulerMove, SchedulerEnqueue
<1>5. ASSUME NEW j \in Jobs, Tick(j) PROVE IndexKept
  <2>1. \E row : db' = [db EXCEPT ![j] = row] /\ row.status = db[j].status
    <3>1. /\ [db[j] EXCEPT !.scheduled_at = "past",
                           !.next_run_at = IF @ = "future" THEN "past" ELSE @].status = db[j].status
          /\ [db[j] EXCEPT !.next_run_at = "past"].status = db[j].status
          /\ [db[j] EXCEPT !.leased_until = "past"].status = db[j].status
      BY <1>d DEF Row
    <3> QED BY <1>5, <3>1 DEF Tick, ScheduleDue, BackoffOver, LeaseExpires, LeaseOver, Elapse
  <2> QED BY <1>c, <2>1 DEF Failed
<1> QED BY <1>b, <1>2, <1>3, <1>4, <1>5

(* The failures that lose no entry.                                        *)
LEMMA FailureIndex ==
  ASSUME IndexInv, NoLosses, Failures
  PROVE  IndexKept /\ NoCalls'
<1>t. TypeOK /\ NoCalls
  BY DEF IndexInv, ExclusiveInv, OwnershipInv
<1>1. \/ \E w \in Workers : WorkerStop(w)
      \/ \E r \in Requests : RequestFails(r)
      \/ MaintenanceFails
  BY DEF Failures, WorkerCrash, WorkerStall, RedisRestart, Fault, NoLosses
<1>2. UNCHANGED <<db, task, deadLetter>>
  BY <1>1 DEF WorkerStop, Stop, RequestFails, Drop, MaintenanceFails, MaintenanceRestart,
              workerVars, queueVars
<1>3. ASSUME NEW r \in Requests, RequestFails(r) PROVE NoCalls'
  BY <1>3, <1>t DEF RequestFails, Drop, Answer, IdleReq, NoCalls, TypeOK
<1>4. (\E r \in Requests : RequestFails(r)) \/ UNCHANGED req
  BY <1>1 DEF WorkerStop, MaintenanceFails, apiVars
<1> QED BY <1>2, <1>3, <1>4, <1>t DEF IndexKept, Failed, Pushing, NoCalls

(* IndexInv is inductive on the two conditions.                            *)
LEMMA IndexInductive ==
  ASSUME OnlySubmissions, NoLosses, IndexInv, [Next]_vars
  PROVE  IndexInv'
<1>0. OwnershipInv'
  BY OwnershipInductive DEF IndexInv, ExclusiveInv
<1>s. NoStall
  BY DEF NoLosses, NoStall
<1>a. IndexKept => IndexEffects
  BY DEF IndexEffects
<1>b. UNCHANGED req => NoCalls'
  BY DEF IndexInv, NoCalls
<1>1. ASSUME NEW r \in Requests, Request(r)
      PROVE  IndexEffects /\ NoCalls' /\ RunnersCurrent' /\ RetrySeesFailed'
  BY <1>1, <1>a, RequestIndex
<1>2. ASSUME NEW w \in Workers, Worker(w)
      PROVE  IndexEffects /\ NoCalls' /\ RunnersCurrent' /\ RetrySeesFailed'
  BY <1>2, <1>b, WorkerIndex, WorkerExclusive DEF Worker, Others, apiVars, IndexInv
<1>3. ASSUME NEW w \in Workers, Heartbeat(w)
      PROVE  IndexEffects /\ NoCalls' /\ RunnersCurrent' /\ RetrySeesFailed'
  BY <1>3, <1>a, <1>b, BackgroundIndex, HeartbeatExclusive DEF Heartbeat, Others, apiVars, IndexInv
<1>4. ASSUME Feeder \/ Reaper \/ Scheduler
      PROVE  IndexEffects /\ NoCalls' /\ RunnersCurrent' /\ RetrySeesFailed'
  BY <1>4, <1>a, <1>b, BackgroundIndex, MaintenanceExclusive
     DEF Feeder, Reaper, Scheduler, apiVars, IndexInv
<1>5. ASSUME NEW j \in Jobs, Tick(j)
      PROVE  IndexEffects /\ NoCalls' /\ RunnersCurrent' /\ RetrySeesFailed'
  <2>1. UNCHANGED req
    BY <1>5 DEF Tick, ScheduleDue, BackoffOver, LeaseExpires, LeaseOver, Elapse, apiVars
  <2> QED BY <1>5, <1>a, <1>b, <2>1, BackgroundIndex, TickExclusive DEF IndexInv
<1>6. ASSUME Failures
      PROVE  IndexEffects /\ NoCalls' /\ RunnersCurrent' /\ RetrySeesFailed'
  BY <1>6, <1>a, <1>s, FailureIndex, FailureExclusive DEF IndexInv
<1>7. ASSUME UNCHANGED vars
      PROVE  IndexEffects /\ NoCalls' /\ RunnersCurrent' /\ RetrySeesFailed'
  <2>1. UNCHANGED <<db, task, proc, req, deadLetter>>
    BY <1>7 DEF vars, workerVars, apiVars, queueVars
  <2>2. IndexKept
    BY <2>1 DEF IndexKept, Failed, Pushing
  <2> QED BY <1>a, <1>b, <2>1, <2>2, NothingExclusive DEF IndexInv
<1>8. IndexEffects /\ NoCalls' /\ RunnersCurrent' /\ RetrySeesFailed'
  BY <1>1, <1>2, <1>3, <1>4, <1>5, <1>6, <1>7 DEF Next
<1>9. ListSound' /\ PushSound' /\ FailedIndexed'
  BY <1>8, IndexStands DEF IndexInv
<1> QED BY <1>0, <1>8, <1>9 DEF IndexInv, ExclusiveInv

(* Without crashes, Redis restarts, stalls, cancels and manual retries the *)
(* dead-letter list holds every failed job once and no other, until it is  *)
(* full.                                                                   *)
THEOREM DeadLetterIsIndex ==
  ASSUME OnlySubmissions, NoLosses
  PROVE  Spec => []DeadLetterIndex
<1>1. Init => IndexInv
  <2> SUFFICES ASSUME Init PROVE IndexInv
    OBVIOUS
  <2>1. ExclusiveInv
    BY InitType, InitOwnership, InitExclusive DEF ExclusiveInv, OwnershipInv
  <2>2. NoCalls
    BY DEF Init, ApiInit, IdleReq, NoCalls
  <2>3. ListSound
    <3>1. deadLetter = << >>
      BY DEF Init, QueuesEmpty
    <3>2. deadLetter \in Seq(Jobs) /\ Len(deadLetter) = 0
      BY <3>1, EmptySeq
    <3> QED BY <3>2, DeadLetterAssumption DEF ListSound
  <2>4. PushSound
    BY DEF Init, WorkerInit, IdleTask, PushSound, Pushing
  <2>5. FailedIndexed
    BY DEF Init, NoRow, FailedIndexed, Failed
  <2> QED BY <2>1, <2>2, <2>3, <2>4, <2>5 DEF IndexInv
<1>2. IndexInv /\ [Next]_vars => IndexInv'
  BY IndexInductive
<1>3. IndexInv => DeadLetterIndex
  BY DEF IndexInv, ListSound, FailedIndexed, Failed, Indexed, Pushing, DeadLetterIndex
<1> QED BY <1>1, <1>2, <1>3, PTL DEF Spec
===============================================================================
