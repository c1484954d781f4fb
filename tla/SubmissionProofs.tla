--------------------------- MODULE SubmissionProofs ---------------------------
(***************************************************************************)
(* Proofs about Submission, for any number of concurrent submissions and   *)
(* keys.                                                                   *)
(***************************************************************************)
EXTENDS Submission, TLAPS

(* Initially every variable has its type.                                  *)
LEMMA InitType == Init => TypeOK
BY DEF Init, TypeOK, Sub, Row, NoRow

(* Every step keeps the types.                                             *)
LEMMA NextType ==
  ASSUME TypeOK, [Next]_vars
  PROVE  TypeOK'
<1> USE DEF TypeOK
<1>1. ASSUME NEW s \in Submissions, NEW k \in Keys \cup {NoKey}, Find(s, k) PROVE TypeOK'
  BY <1>1 DEF Find, Holding, Sub
<1>2. ASSUME NEW s \in Submissions, Insert(s) PROVE TypeOK'
  <2>1. sub[s].key \in Keys \cup {NoKey}
    BY DEF Sub
  <2>2. row' \in [Submissions -> Row]
    <3> DEFINE r == [state |-> "open", key |-> sub[s].key, age |-> "fresh"]
    <3>1. r \in Row
      BY <2>1 DEF Row
    <3>2. row' = row \/ row' = [row EXCEPT ![s] = r]
      BY <1>2 DEF Insert
    <3> HIDE DEF r
    <3> QED BY <3>1, <3>2
  <2>3. sub' \in [Submissions -> Sub]
    BY <1>2 DEF Insert, Sub
  <2> QED BY <1>2, <2>2, <2>3 DEF Insert
<1>3. ASSUME NEW s \in Submissions, Commit(s) PROVE TypeOK'
  <2>1. [row[s] EXCEPT !.state = "committed"] \in Row /\ [sub[s] EXCEPT !.pc = "enqueue"] \in Sub
    BY DEF Sub, Row
  <2> QED BY <1>3, <2>1 DEF Commit
<1>4. ASSUME NEW s \in Submissions, Enqueue(s) PROVE TypeOK'
  BY <1>4 DEF Enqueue, Sub
<1>5. ASSUME NEW s \in Submissions, Lose(s) PROVE TypeOK'
  BY <1>5 DEF Lose, NoRow, Sub, Row
<1>6. ASSUME NEW s \in Submissions, Ages(s) PROVE TypeOK'
  BY <1>6 DEF Ages, Row
<1>7. CASE Cleanup
  <2>1. \A t \in Submissions : [row[t] EXCEPT !.key = NoKey] \in Row
    BY DEF Row
  <2> QED BY <1>7, <2>1 DEF Cleanup
<1>8. CASE UNCHANGED vars
  BY <1>8 DEF vars
<1> QED
  BY <1>1, <1>2, <1>3, <1>4, <1>5, <1>6, <1>7, <1>8 DEF Next, Progress

(***************************************************************************)
(* What makes SameKeySameJob and DispatchedIsDurable inductive.            *)
(***************************************************************************)

(* The partial unique index: no two rows, committed or not, hold one key.  *)
KeysUnique ==
  \A s, t \in Submissions :
    row[s].key = row[t].key /\ row[s].key # NoKey => s = t

(* A row is there from the insert on, uncommitted until the commit, and    *)
(* keeps the key it was sent with for as long as it is young.              *)
RowFollows ==
  \A s \in Submissions :
    /\ sub[s].pc \in {"idle", "insert", "error"} => row[s] = NoRow
    /\ sub[s].pc = "commit" => row[s].state = "open"
    /\ sub[s].pc = "enqueue" => row[s].state = "committed"
    /\ row[s].state = "none" => row[s].key = NoKey
    /\ row[s].state # "none" /\ row[s].age = "fresh" => row[s].key = sub[s].key

(* The job a client is given is committed, and while it is young holds the *)
(* key the client sent.                                                    *)
AnswerHolds ==
  \A s \in Submissions : sub[s].pc = "done" =>
    /\ sub[s].job \in Submissions
    /\ row[sub[s].job].state = "committed"
    /\ row[sub[s].job].age = "fresh" => row[sub[s].job].key = sub[s].key

QueuedCommitted == \A s \in queued : row[s].state = "committed"

SubmissionInv == TypeOK /\ KeysUnique /\ RowFollows /\ AnswerHolds /\ QueuedCommitted

(* Initially there is no row.                                              *)
LEMMA InitSubmission == Init => SubmissionInv
BY InitType
   DEF Init, SubmissionInv, KeysUnique, RowFollows, AnswerHolds, QueuedCommitted, NoRow

(* The search changes no row; what it answers is a committed row with the  *)
(* key.                                                                    *)
LEMMA FindKeeps ==
  ASSUME SubmissionInv, NEW s \in Submissions, NEW k \in Keys \cup {NoKey}, Find(s, k)
  PROVE  KeysUnique' /\ RowFollows' /\ AnswerHolds' /\ QueuedCommitted'
<1> USE DEF SubmissionInv
<1>1. UNCHANGED <<row, queued>> /\ sub[s].pc = "idle" /\ row[s] = NoRow
  BY DEF Find, RowFollows
<1>2. \/ sub' = [sub EXCEPT ![s] = [pc |-> "insert", key |-> k, job |-> None]]
      \/ \E t \in Submissions :
           /\ row[t].state = "committed" /\ row[t].key = k
           /\ sub' = [sub EXCEPT ![s] = [pc |-> "done", key |-> k, job |-> t]]
  BY DEF Find, Holding
<1>3. KeysUnique' /\ QueuedCommitted'
  BY <1>1 DEF KeysUnique, QueuedCommitted
<1>4. row[s].state = "none"
  BY <1>1 DEF NoRow
<1>5. CASE sub' = [sub EXCEPT ![s] = [pc |-> "insert", key |-> k, job |-> None]]
  <2>1. RowFollows'
    BY <1>1, <1>4, <1>5 DEF RowFollows, TypeOK
  <2>2. AnswerHolds'
    BY <1>1, <1>5 DEF AnswerHolds, TypeOK
  <2> QED BY <1>3, <2>1, <2>2
<1>6. ASSUME NEW t \in Submissions, row[t].state = "committed", row[t].key = k,
             sub' = [sub EXCEPT ![s] = [pc |-> "done", key |-> k, job |-> t]]
      PROVE  RowFollows' /\ AnswerHolds'
  <2>1. RowFollows'
    BY <1>1, <1>4, <1>6 DEF RowFollows, TypeOK
  <2>2. AnswerHolds'
    BY <1>1, <1>6 DEF AnswerHolds, TypeOK
  <2> QED BY <2>1, <2>2
<1> QED BY <1>2, <1>3, <1>5, <1>6

(* The insert takes a key nobody holds.                                    *)
LEMMA InsertKeeps ==
  ASSUME SubmissionInv, NEW s \in Submissions, Insert(s)
  PROVE  KeysUnique' /\ RowFollows' /\ AnswerHolds' /\ QueuedCommitted'
<1> USE DEF SubmissionInv
<1>1. sub[s].pc = "insert" /\ row[s] = NoRow /\ UNCHANGED queued
  BY DEF Insert, RowFollows
<1>2. CASE UNCHANGED row /\ sub' = [sub EXCEPT ![s].pc = "error"]
  <2>1. RowFollows'
    BY <1>1, <1>2 DEF RowFollows, TypeOK, Sub
  <2>2. AnswerHolds'
    BY <1>1, <1>2 DEF AnswerHolds, TypeOK, Sub
  <2> QED BY <1>1, <1>2, <2>1, <2>2 DEF KeysUnique, QueuedCommitted
<1>3. CASE /\ Holding(sub[s].key, "open") = {} /\ Holding(sub[s].key, "committed") = {}
           /\ row' = [row EXCEPT ![s] = [state |-> "open", key |-> sub[s].key, age |-> "fresh"]]
           /\ sub' = [sub EXCEPT ![s].pc = "commit"]
  <2>0. /\ row'[s] = [state |-> "open", key |-> sub[s].key, age |-> "fresh"]
        /\ \A t \in Submissions : t # s => row'[t] = row[t] /\ sub'[t] = sub[t]
        /\ sub'[s].pc = "commit" /\ sub'[s].key = sub[s].key
        /\ row[s].state = "none"
    BY <1>1, <1>3 DEF TypeOK, Sub, NoRow
  <2>1. \A t \in Submissions : row[t].key = sub[s].key => sub[s].key = NoKey
    <3> SUFFICES ASSUME NEW t \in Submissions, row[t].key = sub[s].key, sub[s].key # NoKey
                 PROVE  FALSE
      OBVIOUS
    <3>1. row[t].state \in {"open", "committed"}
      BY DEF RowFollows, TypeOK, Row
    <3> QED BY <1>3, <3>1 DEF Holding
  <2>2. KeysUnique'
    BY <2>0, <2>1 DEF KeysUnique
  <2>3. RowFollows'
    BY <2>0 DEF RowFollows
  <2>4. AnswerHolds'
    BY <2>0 DEF AnswerHolds
  <2>5. QueuedCommitted'
    BY <1>1, <2>0 DEF QueuedCommitted, TypeOK
  <2> QED BY <2>2, <2>3, <2>4, <2>5
<1> QED BY <1>2, <1>3 DEF Insert

(* Commit, ZADD and answer come in this order.                             *)
LEMMA CommitKeeps ==
  ASSUME SubmissionInv, NEW s \in Submissions, Commit(s) \/ Enqueue(s)
  PROVE  KeysUnique' /\ RowFollows' /\ AnswerHolds' /\ QueuedCommitted'
<1> USE DEF SubmissionInv
<1>1. CASE Commit(s)
  <2>0. /\ row'[s].state = "committed" /\ row'[s].key = row[s].key /\ row'[s].age = row[s].age
        /\ \A t \in Submissions : t # s => row'[t] = row[t] /\ sub'[t] = sub[t]
        /\ sub'[s].pc = "enqueue" /\ sub'[s].key = sub[s].key
        /\ row[s].state = "open" /\ UNCHANGED queued
    BY <1>1 DEF Commit, TypeOK, Sub, Row, RowFollows
  <2> QED BY <2>0 DEF KeysUnique, RowFollows, AnswerHolds, QueuedCommitted, TypeOK
<1>2. CASE Enqueue(s)
  <2>0. /\ UNCHANGED row /\ row[s].state = "committed" /\ queued' = queued \cup {s}
        /\ \A t \in Submissions : t # s => sub'[t] = sub[t]
        /\ sub'[s].pc = "done" /\ sub'[s].key = sub[s].key /\ sub'[s].job = s
    BY <1>2 DEF Enqueue, TypeOK, Sub, RowFollows
  <2> QED BY <2>0 DEF KeysUnique, RowFollows, AnswerHolds, QueuedCommitted, TypeOK
<1> QED BY <1>1, <1>2

(* A request that dies takes only an uncommitted row with it.              *)
LEMMA LoseKeeps ==
  ASSUME SubmissionInv, NEW s \in Submissions, Lose(s)
  PROVE  KeysUnique' /\ RowFollows' /\ AnswerHolds' /\ QueuedCommitted'
<1> USE DEF SubmissionInv
<1>0. /\ row'[s] = IF row[s].state = "open" THEN NoRow ELSE row[s]
      /\ \A t \in Submissions : t # s => row'[t] = row[t] /\ sub'[t] = sub[t]
      /\ sub'[s].pc = "lost" /\ sub'[s].key = sub[s].key
      /\ UNCHANGED queued
  BY DEF Lose, TypeOK, Sub
<1>1. CASE row[s].state = "open"
  <2>1. row'[s] = NoRow /\ row'[s].state = "none" /\ row'[s].key = NoKey
    BY <1>0, <1>1 DEF NoRow
  <2> QED BY <1>0, <1>1, <2>1 DEF KeysUnique, RowFollows, AnswerHolds, QueuedCommitted, TypeOK
<1>2. CASE row[s].state # "open"
  <2>1. \A t \in Submissions : row'[t] = row[t]
    BY <1>0, <1>2
  <2> QED BY <1>0, <2>1 DEF KeysUnique, RowFollows, AnswerHolds, QueuedCommitted, TypeOK
<1> QED BY <1>1, <1>2

(* A day that passes and the cleanup touch neither the state of a row nor  *)
(* the key of a young one.                                                 *)
LEMMA CleanupKeeps ==
  ASSUME SubmissionInv, (\E s \in Submissions : Ages(s)) \/ Cleanup
  PROVE  KeysUnique' /\ RowFollows' /\ AnswerHolds' /\ QueuedCommitted'
<1> USE DEF SubmissionInv
<1>1. /\ UNCHANGED <<sub, queued>>
      /\ \A t \in Submissions :
           \/ row'[t] = row[t]
           \/ /\ row'[t].state = row[t].state /\ row[t].state = "committed"
              /\ row'[t].age # "fresh"
              /\ row'[t].key \in {row[t].key, NoKey}
  <2>1. ASSUME NEW s \in Submissions, Ages(s)
        PROVE  /\ row'[s].state = "committed" /\ row[s].state = "committed"
               /\ row'[s].age # "fresh" /\ row'[s].key = row[s].key
               /\ \A t \in Submissions : t # s => row'[t] = row[t]
               /\ UNCHANGED <<sub, queued>>
    BY <2>1 DEF Ages, TypeOK, Row
  <2>2. CASE Cleanup
    <3>1. PICK past \in SUBSET Edge :
            /\ row' = [t \in Submissions |->
                        IF Expired(t, past) THEN [row[t] EXCEPT !.key = NoKey] ELSE row[t]]
            /\ UNCHANGED <<sub, queued>>
      BY <2>2 DEF Cleanup
    <3>2. ASSUME NEW t \in Submissions
          PROVE  row'[t] = IF Expired(t, past) THEN [row[t] EXCEPT !.key = NoKey] ELSE row[t]
      BY <3>1
    <3>3. ASSUME NEW t \in Submissions, Expired(t, past)
          PROVE  /\ row'[t].state = row[t].state /\ row[t].state = "committed"
                 /\ row'[t].age # "fresh" /\ row'[t].key = NoKey
      BY <3>1, <3>2, <3>3 DEF Expired, Edge, TypeOK, Row
    <3> QED BY <3>1, <3>2, <3>3
  <2> QED BY <2>1, <2>2
<1>2. KeysUnique'
  BY <1>1 DEF KeysUnique
<1>3. RowFollows'
  <2>1. NoRow.state = "none"
    BY DEF NoRow
  <2>2. \A t \in Submissions : row[t] = NoRow => row'[t] = row[t]
    BY <1>1, <2>1
  <2> QED BY <1>1, <2>2 DEF RowFollows
<1>4. AnswerHolds'
  BY <1>1 DEF AnswerHolds
<1>5. QueuedCommitted'
  BY <1>1 DEF QueuedCommitted, TypeOK
<1> QED BY <1>2, <1>3, <1>4, <1>5

(* SubmissionInv is inductive.                                             *)
LEMMA SubmissionInductive ==
  ASSUME SubmissionInv, [Next]_vars
  PROVE  SubmissionInv'
<1>1. TypeOK'
  BY NextType DEF SubmissionInv
<1>2. CASE UNCHANGED vars
  BY <1>2 DEF vars, SubmissionInv, TypeOK, KeysUnique, RowFollows, AnswerHolds, QueuedCommitted
<1>3. CASE Next
  <2>1. KeysUnique' /\ RowFollows' /\ AnswerHolds' /\ QueuedCommitted'
    BY <1>3, FindKeeps, InsertKeeps, CommitKeeps, LoseKeeps, CleanupKeeps DEF Next, Progress
  <2> QED BY <1>1, <2>1 DEF SubmissionInv
<1> QED BY <1>2, <1>3

(* The invariant holds in every reachable state.                           *)
LEMMA SubmissionHolds == Spec => []SubmissionInv
<1>1. Init => SubmissionInv
  BY InitSubmission
<1>2. SubmissionInv /\ [Next]_vars => SubmissionInv'
  BY SubmissionInductive
<1> QED BY <1>1, <1>2, PTL DEF Spec

-------------------------------------------------------------------------------
(* Every variable keeps its type, whatever submissions, deaths, days and   *)
(* cleanups interleave.                                                    *)
THEOREM SubmissionTypeCorrect == Spec => []TypeOK
<1>1. SubmissionInv => TypeOK
  BY DEF SubmissionInv
<1> QED BY <1>1, SubmissionHolds, PTL

(* One job per key and day: clients that sent one key are given one job,   *)
(* as long as the jobs they were given are younger than a day less the     *)
(* skew of the clocks.  It rests on the unique index, not on the search    *)
(* that submit_job makes first.                                            *)
THEOREM OneJobPerKey == Spec => []SameKeySameJob
<1>1. SubmissionInv => SameKeySameJob
  BY DEF SubmissionInv, KeysUnique, AnswerHolds, SameKeySameJob
<1> QED BY <1>1, SubmissionHolds, PTL

(* Nothing is dispatched or answered that is not committed, wherever a     *)
(* request dies.                                                           *)
THEOREM DispatchDurable == Spec => []DispatchedIsDurable
<1>1. SubmissionInv => DispatchedIsDurable
  BY DEF SubmissionInv, QueuedCommitted, AnswerHolds, DispatchedIsDurable
<1> QED BY <1>1, SubmissionHolds, PTL
===============================================================================
