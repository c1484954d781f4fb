---------------------------- MODULE PriorityProofs ----------------------------
(***************************************************************************)
(* Proofs about PriorityOrder: the score that Redis sorts by keeps the     *)
(* order of the table, for any number of jobs and any scale and window     *)
(* that satisfy WindowFits and ScoresExact.                                *)
(***************************************************************************)
EXTENDS PriorityOrder, FiniteSetTheorems, SequenceTheorems, TLAPS

Row == [status : {"absent", "pending", "processing"},
        priority : -MaxPriority..MaxPriority, created_at : 0..Window]

Types ==
  /\ row \in [Ids -> Row]
  /\ queue \subseteq [id : Ids, score : Int]
  /\ feeder \in Seq(Ids)

(* The numbers that tune the score.                                        *)
LEMMA TuningNat ==
  /\ MaxPriority \in Nat /\ Window \in Nat
  /\ Scale \in Nat \ {0} /\ UsPerMs \in Nat \ {0} /\ MaxExact \in Nat \ {0}
  /\ FeederBatch \in Nat \ {0}
BY OrderConstants

(* Milliseconds since the oldest job fit under the scale.                  *)
LEMMA MillisFit ==
  ASSUME NEW at \in 0..Window
  PROVE  at \div UsPerMs \in 0 .. Scale - 1
<1>1. ASSUME NEW b \in Int, b > 0, NEW c \in Int, NEW a \in Int, a >= 0, a < c * b
      PROVE  a \div b < c /\ a \div b >= 0 /\ a \div b \in Int
  BY <1>1, Z3
<1> QED BY <1>1, TuningNat, WindowFits

(* Of two instants the earlier has no more milliseconds.                   *)
LEMMA MillisMonotone ==
  ASSUME NEW a \in 0..Window, NEW b \in 0..Window, a <= b
  PROVE  a \div UsPerMs <= b \div UsPerMs
<1>1. ASSUME NEW n \in Int, n > 0, NEW x \in Int, NEW y \in Int, x <= y
      PROVE  x \div n <= y \div n
  BY <1>1, Z3
<1> QED BY <1>1, TuningNat

(* Every score of an accepted job is exact as a double.                    *)
LEMMA ScoreExact ==
  ASSUME NEW p \in -MaxPriority..MaxPriority, NEW at \in 0..Window
  PROVE  priority_score(p, at) = -(p * Scale) + at \div UsPerMs /\ priority_score(p, at) \in Int
<1> USE TuningNat
<1> DEFINE ms == at \div UsPerMs
           n == -(p * Scale) + ms
<1>1. ms \in 0 .. Scale - 1
  BY MillisFit
<1>2. -(MaxPriority * Scale) <= p * Scale /\ p * Scale <= MaxPriority * Scale
  OBVIOUS
<1>3. p * Scale \in Int /\ MaxPriority * Scale \in Int
  OBVIOUS
<1>4. n \in -MaxExact..MaxExact
  BY <1>1, <1>2, <1>3, ScoresExact
<1>5. priority_score(p, at) = Double(n)
  BY DEF priority_score
<1> HIDE DEF n
<1>6. Double(n) = n
  BY <1>4 DEF Double
<1> QED BY <1>4, <1>5, <1>6 DEF n

(* A job of a higher priority, or of the same and an earlier millisecond,  *)
(* has the lower score.                                                    *)
LEMMA BeforeScores ==
  ASSUME Types, NEW i \in Ids, NEW k \in Ids, Before(i, k)
  PROVE  Score(i) < Score(k)
<1> USE TuningNat
<1> DEFINE p == row[i].priority
           q == row[k].priority
           a == row[i].created_at \div UsPerMs
           b == row[k].created_at \div UsPerMs
<1>1. /\ p \in -MaxPriority..MaxPriority /\ q \in -MaxPriority..MaxPriority
      /\ row[i].created_at \in 0..Window /\ row[k].created_at \in 0..Window
  BY DEF Types, Row
<1>2. a \in 0 .. Scale - 1 /\ b \in 0 .. Scale - 1
  BY <1>1, MillisFit
<1>3. Score(i) = -(p * Scale) + a /\ Score(k) = -(q * Scale) + b
  BY <1>1, ScoreExact DEF Score
<1>4. p > q \/ (p = q /\ a < b)
  BY DEF Before
<1> HIDE DEF p, q, a, b
<1>5. p \in Int /\ q \in Int /\ p * Scale \in Int /\ q * Scale \in Int
  BY <1>1
<1>6. p > q => p * Scale >= q * Scale + Scale
  BY <1>5
<1> QED BY <1>2, <1>3, <1>4, <1>5, <1>6

(* The order of the SELECT never contradicts the score.                    *)
LEMMA OrderedScores ==
  ASSUME Types, NEW i \in Ids, NEW k \in Ids, Ordered(i, k)
  PROVE  Score(i) <= Score(k)
<1> USE TuningNat
<1>1. /\ row[i].priority \in -MaxPriority..MaxPriority /\ row[k].priority \in -MaxPriority..MaxPriority
      /\ row[i].created_at \in 0..Window /\ row[k].created_at \in 0..Window
  BY DEF Types, Row
<1>2. /\ Score(i) = -(row[i].priority * Scale) + row[i].created_at \div UsPerMs /\ Score(i) \in Int
      /\ Score(k) = -(row[k].priority * Scale) + row[k].created_at \div UsPerMs /\ Score(k) \in Int
  BY <1>1, ScoreExact DEF Score
<1>3. CASE Before(i, k)
  BY <1>2, <1>3, BeforeScores
<1>4. CASE ~ Before(i, k)
  <2>1. row[i].priority = row[k].priority /\ row[i].created_at <= row[k].created_at
    BY <1>4 DEF Ordered, Before
  <2>2. row[i].created_at \div UsPerMs <= row[k].created_at \div UsPerMs
    BY <1>1, <2>1, MillisMonotone
  <2>3. row[i].created_at \div UsPerMs \in Int /\ row[k].created_at \div UsPerMs \in Int
    BY <1>1, MillisFit
  <2>4. row[k].priority * Scale \in Int
    BY <1>1
  <2> QED BY <1>2, <2>1, <2>2, <2>3, <2>4
<1> QED BY <1>3, <1>4

-------------------------------------------------------------------------------
(***************************************************************************)
(* The invariant: an entry of jobs:pending carries the score its row has   *)
(* now, which a row keeps once it is there.                                *)
(***************************************************************************)

ScoresCurrent ==
  /\ \A e \in queue : row[e.id].status # "absent" /\ e.score = Score(e.id)
  /\ \A n \in 1..Len(feeder) : row[feeder[n]].status # "absent"

OrderInv == Types /\ ScoresCurrent

(* A job's score is an integer.                                            *)
LEMMA ScoreInt ==
  ASSUME Types, NEW i \in Ids
  PROVE  Score(i) \in Int
<1>1. row[i].priority \in -MaxPriority..MaxPriority /\ row[i].created_at \in 0..Window
  BY DEF Types, Row
<1> QED BY <1>1, ScoreExact DEF Score

(* The queue is empty to begin with.                                       *)
LEMMA InitOrder == Init => OrderInv
BY TuningNat DEF Init, OrderInv, Types, ScoresCurrent, Row, NoRow

(* What the feeder selects is a list of pending jobs.                      *)
LEMMA SelectionsLists ==
  ASSUME NEW s \in Selections
  PROVE  /\ s \in Seq(Pending)
         /\ \A m, n \in 1..Len(s) : m < n => Ordered(s[m], s[n])
         /\ \A k \in Pending : \/ \E n \in 1..Len(s) : s[n] = k
                               \/ \A n \in 1..Len(s) : Ordered(s[n], k)
<1> DEFINE size == IF Cardinality(Pending) < FeederBatch THEN Cardinality(Pending) ELSE FeederBatch
<1>1. Cardinality(Pending) \in Nat
  BY OrderConstants, FS_Subset, FS_CardinalityType DEF Pending
<1>2. size \in Nat
  BY <1>1, TuningNat
<1>3. /\ s \in [1..size -> Pending]
      /\ \A m, n \in 1..size : m < n => Ordered(s[m], s[n])
      /\ \A k \in Pending : \/ \E n \in 1..size : s[n] = k
                            \/ \A n \in 1..size : Ordered(s[n], k)
  BY DEF Selections
<1> HIDE DEF size
<1>4. s \in Seq(Pending) /\ Len(s) = size
  BY <1>2, <1>3
<1> QED BY <1>3, <1>4

(* Every step keeps the invariant.                                         *)
LEMMA OrderInductive ==
  ASSUME OrderInv, [Next]_vars
  PROVE  OrderInv'
<1> USE TuningNat
<1>0. Types /\ ScoresCurrent
  BY DEF OrderInv
<1>1. ASSUME row' \in [Ids -> Row],
             \A i \in Ids : row[i].status # "absent" =>
               /\ row'[i].status # "absent"
               /\ row'[i].priority = row[i].priority /\ row'[i].created_at = row[i].created_at,
             queue' \subseteq queue, feeder' = feeder
      PROVE  OrderInv'
  <2>1. \A i \in Ids : row[i].status # "absent" => row'[i].status # "absent" /\ Score(i)' = Score(i)
    BY <1>1 DEF Score
  <2>2. Types'
    BY <1>0, <1>1 DEF Types
  <2>3. ScoresCurrent'
    BY <1>0, <1>1, <2>1 DEF Types, ScoresCurrent
  <2> QED BY <2>2, <2>3 DEF OrderInv
<1>2. ASSUME NEW i \in Ids, row[i].status # "absent", row' = row,
             NEW new, new = [id |-> i, score |-> Score(i)], queue' \subseteq queue \cup {new},
             feeder' = feeder \/ (feeder' = Tail(feeder) /\ feeder # << >>)
      PROVE  OrderInv'
  <2>1. \A k \in Ids : Score(k)' = Score(k)
    BY <1>2 DEF Score
  <2>2. new \in [id : Ids, score : Int] /\ new.id = i /\ new.score = Score(i)
    BY <1>0, <1>2, ScoreInt
  <2>3. queue' \subseteq [id : Ids, score : Int]
    BY <1>0, <1>2, <2>2 DEF Types
  <2>4. feeder' \in Seq(Ids) /\ \A n \in 1..Len(feeder') : row[feeder'[n]].status # "absent"
    <3>1. CASE feeder' = feeder
      BY <1>0, <3>1 DEF Types, ScoresCurrent
    <3>2. CASE feeder' = Tail(feeder) /\ feeder # << >>
      <4>1. /\ feeder' \in Seq(Ids) /\ Len(feeder') = Len(feeder) - 1 /\ Len(feeder) \in Nat
            /\ \A n \in 1..Len(feeder') : feeder'[n] = feeder[n + 1]
        BY <1>0, <3>2, HeadTailProperties DEF Types
      <4> QED BY <1>0, <4>1 DEF ScoresCurrent
    <3> QED BY <1>2, <3>1, <3>2
  <2>5. \A e \in queue' : row[e.id].status # "absent" /\ e.score = Score(e.id)
    BY <1>0, <1>2, <2>2 DEF ScoresCurrent
  <2>6. Types'
    BY <1>0, <1>2, <2>3, <2>4 DEF Types
  <2>7. ScoresCurrent'
    BY <1>2, <2>1, <2>3, <2>4, <2>5 DEF ScoresCurrent
  <2> QED BY <2>6, <2>7 DEF OrderInv
<1>3. ASSUME NEW i \in Ids, Submit(i) PROVE OrderInv'
  <2>1. PICK p \in Requested, at \in 0..Window :
           /\ Accepted(p)
           /\ row' = [row EXCEPT ![i] = [status |-> "pending", priority |-> p, created_at |-> at]]
    BY <1>3 DEF Submit
  <2>2. p \in -MaxPriority..MaxPriority
    BY <2>1 DEF Accepted
  <2>3. row' \in [Ids -> Row]
    BY <1>0, <2>1, <2>2 DEF Types, Row
  <2> QED BY <1>0, <1>1, <1>3, <2>1, <2>3 DEF Submit, Types
<1>4. ASSUME NEW i \in Ids, Enqueue(i) PROVE OrderInv'
  <2>1. PICK new : /\ new = [id |-> i, score |-> Score(i)]
                   /\ queue' \subseteq queue \cup {new}
    BY <1>4 DEF Enqueue
  <2>2. row[i].status # "absent" /\ row' = row /\ feeder' = feeder
    BY <1>4 DEF Enqueue
  <2> QED BY <1>2, <2>1, <2>2
<1>5. ASSUME NEW i \in Ids, Dequeue(i) PROVE OrderInv'
  <2>1. /\ row' = [row EXCEPT ![i].status = IF @ = "pending" THEN "processing" ELSE @]
        /\ queue' \subseteq queue /\ feeder' = feeder
    BY <1>5 DEF Dequeue
  <2> QED BY <1>0, <1>1, <2>1 DEF Types, Row
<1>6. ASSUME NEW i \in Ids, BackToPending(i) PROVE OrderInv'
  BY <1>0, <1>1, <1>6 DEF BackToPending, Types, Row
<1>7. CASE FeederSelect
  <2>1. feeder' \in Selections /\ row' = row /\ queue' = queue
    BY <1>7 DEF FeederSelect
  <2>2. feeder' \in Seq(Pending)
    BY <2>1, SelectionsLists
  <2>3. feeder' \in Seq(Ids) /\ \A n \in 1..Len(feeder') : row[feeder'[n]].status # "absent"
    <3>1. Pending \subseteq Ids /\ \A i \in Pending : row[i].status # "absent"
      BY DEF Pending
    <3>2. \A n \in 1..Len(feeder') : feeder'[n] \in Pending
      BY <2>2
    <3>3. feeder' \in Seq(Ids)
      BY <2>2, <3>1, SeqMonotonic
    <3> QED BY <3>1, <3>2, <3>3
  <2>4. \A k \in Ids : Score(k)' = Score(k)
    BY <2>1 DEF Score
  <2> QED BY <1>0, <2>1, <2>3, <2>4 DEF OrderInv, Types, ScoresCurrent
<1>8. CASE FeederEnqueue
  <2> DEFINE i == Head(feeder)
  <2>1. feeder # << >> /\ feeder \in Seq(Ids)
    BY <1>0, <1>8 DEF FeederEnqueue, Types
  <2>2. i = feeder[1] /\ 1 \in 1..Len(feeder) /\ i \in Ids
    BY <2>1
  <2>3. row[i].status # "absent"
    BY <1>0, <2>2 DEF ScoresCurrent
  <2>4. feeder' = Tail(feeder) /\ row' = row
    BY <1>8 DEF FeederEnqueue
  <2>5. PICK new : new = [id |-> i, score |-> Score(i)] /\ queue' \subseteq queue \cup {new}
    BY <1>8 DEF FeederEnqueue
  <2> HIDE DEF i
  <2> QED BY <1>2, <2>1, <2>2, <2>3, <2>4, <2>5
<1>9. CASE RedisRestart
  BY <1>0, <1>1, <1>9 DEF RedisRestart, Types
<1>10. CASE UNCHANGED vars
  BY <1>0, <1>1, <1>10 DEF vars, Types
<1> QED BY <1>3, <1>4, <1>5, <1>6, <1>7, <1>8, <1>9, <1>10 DEF Next

(* It holds at every moment.                                               *)
LEMMA OrderHolds == Spec => []OrderInv
BY InitOrder, OrderInductive, PTL DEF Spec

(***************************************************************************)
(* For every scale that leaves room for the window and every range of      *)
(* priorities whose scores a double holds, ZPOPMIN takes no job while one  *)
(* of a higher priority, or of the same and an earlier millisecond, is in  *)
(* jobs:pending.                                                           *)
(***************************************************************************)
THEOREM DispatchKeepsOrder == Spec => DispatchOrder
<1>1. ASSUME OrderInv, NEW i \in Ids, Dequeue(i), NEW f \in queue PROVE ~ Before(f.id, i)
  <2>1. PICK e \in queue : e.id = i /\ Precedes(e, f)
    BY <1>1 DEF Dequeue
  <2>2. /\ f.id \in Ids /\ e.score = Score(i) /\ f.score = Score(f.id)
        /\ Score(i) \in Int /\ Score(f.id) \in Int
    BY <1>1, <2>1, ScoreInt DEF OrderInv, Types, ScoresCurrent
  <2>3. Before(f.id, i) => Score(f.id) < Score(i)
    BY <1>1, <2>2, BeforeScores DEF OrderInv
  <2> QED BY <2>1, <2>2, <2>3 DEF Precedes
<1>2. OrderInv /\ [Next]_vars => [\A i \in Ids : Dequeue(i) => \A e \in queue : ~ Before(e.id, i)]_vars
  BY <1>1
<1> QED BY <1>2, OrderHolds, PTL DEF Spec, DispatchOrder

(***************************************************************************)
(* The list of a feeder cycle is in the order of the scores, and what      *)
(* LIMIT left out has no lower score than what it took, for every batch.   *)
(***************************************************************************)
THEOREM FeederKeepsOrder == Spec => FeederOrder
<1>1. ASSUME OrderInv, FeederSelect, NEW n \in 1..Len(feeder'), NEW k \in Pending,
             \A m \in 1..n : feeder'[m] # k
      PROVE  Score(feeder'[n]) <= Score(k)
  <2>1. /\ feeder' \in Seq(Pending)
        /\ \A m, x \in 1..Len(feeder') : m < x => Ordered(feeder'[m], feeder'[x])
        /\ \/ \E x \in 1..Len(feeder') : feeder'[x] = k
           \/ \A x \in 1..Len(feeder') : Ordered(feeder'[x], k)
    BY <1>1, SelectionsLists DEF FeederSelect
  <2>2. Ordered(feeder'[n], k)
    <3>1. CASE \E x \in 1..Len(feeder') : feeder'[x] = k
      <4>1. PICK x \in 1..Len(feeder') : feeder'[x] = k
        BY <3>1
      <4>2. n < x
        BY <1>1, <2>1, <4>1
      <4> QED BY <2>1, <4>1, <4>2
    <3>2. CASE \A x \in 1..Len(feeder') : Ordered(feeder'[x], k)
      BY <3>2
    <3> QED BY <2>1, <3>1, <3>2
  <2>3. feeder'[n] \in Ids /\ k \in Ids
    BY <2>1 DEF Pending
  <2> QED BY <1>1, <2>2, <2>3, OrderedScores DEF OrderInv
<1>2. OrderInv /\ [Next]_vars =>
        [FeederSelect =>
           \A n \in 1..Len(feeder'), k \in Pending :
             (\A m \in 1..n : feeder'[m] # k) => Score(feeder'[n]) <= Score(k)]_vars
  BY <1>1
<1> QED BY <1>2, OrderHolds, PTL DEF Spec, FeederOrder
===============================================================================
