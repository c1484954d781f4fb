------------------------------- MODULE Dispatch -------------------------------
(***************************************************************************)
(* Redis as the program uses it through QueueClient: the sorted sets       *)
(* jobs:pending and jobs:scheduled and the list jobs:dead_letter.  Redis   *)
(* only dispatches; it may lose everything at any time, and an entry may   *)
(* be there for a job that must not run.                                   *)
(*                                                                         *)
(* A member of a sorted set has one score, fixed by the job: a job number  *)
(* is its rank in priority_score, and the score in jobs:scheduled is       *)
(* scheduled_at.  So both are sets here.                                   *)
(***************************************************************************)
EXTENDS Integers, Sequences

CONSTANT DeadLetterMaxLen      \* DEAD_LETTER_MAX_LEN

ASSUME DeadLetterAssumption == DeadLetterMaxLen \in Nat \ {0}

VARIABLES pendingQ, scheduledQ, deadLetter

queueVars == <<pendingQ, scheduledQ, deadLetter>>

QueuesEmpty == pendingQ = {} /\ scheduledQ = {} /\ deadLetter = << >>

(* ZADD jobs:pending; with or without NX, since the score never changes.   *)
enqueue(j) == pendingQ' = pendingQ \cup {j} /\ UNCHANGED <<scheduledQ, deadLetter>>

(* ZADD jobs:scheduled.                                                    *)
schedule(j) == scheduledQ' = scheduledQ \cup {j} /\ UNCHANGED <<pendingQ, deadLetter>>

(* Mutant: the entry is read and not removed.                              *)
dequeuePeeking(j) ==
  /\ j \in pendingQ
  /\ \A i \in pendingQ : j <= i
  /\ UNCHANGED <<pendingQ, scheduledQ, deadLetter>>

(* ZPOPMIN jobs:pending gives the member with the lowest score.            *)
dequeue(j) ==
  /\ j \in pendingQ
  /\ \A i \in pendingQ : j <= i
  /\ pendingQ' = pendingQ \ {j}
  /\ UNCHANGED <<scheduledQ, deadLetter>>

(* ZREM, one command each: remove() sends the two in this order.           *)
remove_pending(j) == pendingQ' = pendingQ \ {j} /\ UNCHANGED <<scheduledQ, deadLetter>>

remove_scheduled(j) == scheduledQ' = scheduledQ \ {j} /\ UNCHANGED <<pendingQ, deadLetter>>

(* Mutant: LTRIM 0 MAX keeps one entry too many.                           *)
TrimmedTooLong(s) ==
  SubSeq(s, 1, IF Len(s) <= DeadLetterMaxLen THEN Len(s) ELSE DeadLetterMaxLen + 1)

(* LPUSH and LTRIM in one pipeline.                                        *)
Trimmed(s) == SubSeq(s, 1, IF Len(s) < DeadLetterMaxLen THEN Len(s) ELSE DeadLetterMaxLen)

dead_letter(j) == deadLetter' = Trimmed(<<j>> \o deadLetter) /\ UNCHANGED <<pendingQ, scheduledQ>>

(* LREM 0: every occurrence.                                               *)
remove_dead_letter(j) ==
  /\ deadLetter' = SelectSeq(deadLetter, LAMBDA i : i # j)
  /\ UNCHANGED <<pendingQ, scheduledQ>>

(* A Redis restart: the compose service keeps no volume.                   *)
RedisRestarted == pendingQ' = {} /\ scheduledQ' = {} /\ deadLetter' = << >>
===============================================================================
