---------------------------- MODULE JobQueueProofs ----------------------------
(***************************************************************************)
(* Theorems about ThreadSafeJobQueue, for any producers, consumers,        *)
(* batches and capacity.  The invariants the runs check are inductive with *)
(* the type invariant: a thread goes to sleep only over a queue that has   *)
(* nothing for it, and the step that changes this leaves its thread in     *)
(* front of a notification.                                                *)
(***************************************************************************)
EXTENDS JobQueue, SequenceTheorems, TLAPS

(* A producer that waits has a batch to add: its push fills the queue.     *)
HasBatch == \A p \in Producer : producer_pc[p] \in {"testing", "asleep"} => adding[p] \in Batch

(* The warning is triggered while the last push left the queue long, and   *)
(* the queue can only have become shorter since.                           *)
LatchInv ==
  /\ Len(queue_) <= last_push.after
  /\ warn_triggered_ <=> warn_size_ > 0 /\ Long(last_push.after)

IInv ==
  /\ TypeOK
  /\ HasBatch
  /\ LatchInv
  /\ CapacityKept
  /\ JobsInOrder
  /\ ConsumersWoken
  /\ ProducersWoken
  /\ RisesWarned

-------------------------------------------------------------------------------
(* Lemmas about the helpers.                                               *)

(* notify_one wakes one sleeping thread if there is one, and no other.     *)
LEMMA NotifyOneWakes ==
  ASSUME NEW T, NEW pc \in [T -> ThreadPc], NEW woken \in NotifyOne(pc)
  PROVE  /\ woken \in [T -> ThreadPc]
         /\ \A t \in T : /\ woken[t] \in {pc[t], "testing"}
                         /\ pc[t] # "asleep" => woken[t] = pc[t]
         /\ (\E t \in T : pc[t] = "asleep") => \E t \in T : woken[t] = "testing"
<1>1. DOMAIN pc = T
  OBVIOUS
<1>2. CASE Sleeping(pc) = {}
  BY <1>1, <1>2 DEF NotifyOne, Sleeping
<1>3. CASE Sleeping(pc) # {}
  <2>1. PICK t \in T : pc[t] = "asleep" /\ woken = [pc EXCEPT ![t] = "testing"]
    BY <1>1, <1>3 DEF NotifyOne, Sleeping
  <2> QED BY <2>1 DEF ThreadPc
<1> QED BY <1>2, <1>3

LEMMA ConsumersNotified ==
  ASSUME TypeOK, consumer_pc' \in NotifyOne(consumer_pc)
  PROVE  /\ consumer_pc' \in [Consumer -> ThreadPc]
         /\ \A c \in Consumer : /\ consumer_pc'[c] \in {consumer_pc[c], "testing"}
                                /\ consumer_pc[c] # "asleep" => consumer_pc'[c] = consumer_pc[c]
         /\ (\E c \in Consumer : consumer_pc[c] = "asleep") =>
               \E c \in Consumer : consumer_pc'[c] = "testing"
<1>1. consumer_pc \in [Consumer -> ThreadPc]
  BY DEF TypeOK
<1> QED BY <1>1, NotifyOneWakes

LEMMA ProducersNotified ==
  ASSUME TypeOK, producer_pc' \in NotifyOne(producer_pc)
  PROVE  /\ producer_pc' \in [Producer -> ThreadPc]
         /\ \A p \in Producer : /\ producer_pc'[p] \in {producer_pc[p], "testing"}
                                /\ producer_pc[p] # "asleep" => producer_pc'[p] = producer_pc[p]
         /\ (\E p \in Producer : producer_pc[p] = "asleep") =>
               \E p \in Producer : producer_pc'[p] = "testing"
<1>1. producer_pc \in [Producer -> ThreadPc]
  BY DEF TypeOK
<1> QED BY <1>1, NotifyOneWakes

(* notify_all leaves nobody asleep.                                        *)
LEMMA NotifyAllWakes ==
  ASSUME NEW T, NEW pc \in [T -> ThreadPc]
  PROVE  /\ NotifyAll(pc) \in [T -> ThreadPc]
         /\ \A t \in T : /\ NotifyAll(pc)[t] # "asleep"
                         /\ pc[t] # "asleep" => NotifyAll(pc)[t] = pc[t]
                         /\ pc[t] = "asleep" => NotifyAll(pc)[t] = "testing"
  BY DEF NotifyAll, ThreadPc

(* A removal splits the queue: what goes and what stays make up the whole. *)
LEMMA RemoveSplits ==
  ASSUME TypeOK, NEW n \in 0..Len(queue_), Remove(n)
  PROVE  /\ queue_' \in Seq(Job) /\ removed' \in Seq(Job)
         /\ Len(queue_') = Len(queue_) - n
         /\ removed' \o queue_' = removed \o queue_
<1> DEFINE q == queue_
           front == SubSeq(q, 1, n)
           rest == SubSeq(q, n + 1, Len(q))
<1>1. q \in Seq(Job) /\ removed \in Seq(Job) /\ Len(q) \in Nat
  BY DEF TypeOK
<1>2. front \in Seq(Job) /\ rest \in Seq(Job) /\ Len(rest) = Len(q) - n
  BY <1>1, SubSeqProperties
<1>3. front \o rest = q
  <2> HIDE DEF q
  <2>0. 1 \in 1..Len(q) + 1 /\ n \in 1 - 1..Len(q) /\ Len(q) \in n..Len(q)
    BY <1>1 DEF q
  <2> HIDE DEF front, rest
  <2>1. front \o rest = SubSeq(q, 1, Len(q))
    BY <1>1, <2>0, ConcatAdjacentSubSeq DEF front, rest
  <2> QED BY <1>1, <2>1, SubSeqFull
<1>4. queue_' = rest /\ removed' = removed \o front
  BY DEF Remove
<1> HIDE DEF q, front, rest
<1>5. (removed \o front) \o rest = removed \o (front \o rest)
  BY <1>1, <1>2, ConcatAssociative, SMTT(30)
<1>6. removed \o front \in Seq(Job)
  BY <1>1, <1>2
<1> QED BY <1>1, <1>2, <1>3, <1>4, <1>5, <1>6 DEF q

(* A batch is pushed as a whole.                                           *)
LEMMA PushAppends ==
  ASSUME TypeOK, NEW p \in Producer, ProducerPushes(p)
  PROVE  /\ queue_' \in Seq(Job) /\ added' \in Seq(Job)
         /\ Len(queue_') = Len(queue_) + Len(adding[p])
         /\ JobsInOrder => added' = removed \o queue_'
<1> DEFINE js == adding[p]
<1>1. queue_ \in Seq(Job) /\ removed \in Seq(Job) /\ added \in Seq(Job) /\ js \in Seq(Job)
  <2>1. js \in Batch \cup {<<>>} /\ <<>> \in Seq(Job)
    BY EmptySeq DEF TypeOK
  <2>2. js \in Seq(Job)
    BY <2>1, JobQueueAssumption
  <2> QED BY <2>2 DEF TypeOK
<1>2. queue_' = queue_ \o js /\ added' = added \o js
  BY DEF ProducerPushes
<1>0. Len(queue_') = Len(queue_) + Len(adding[p]) <=> Len(queue_') = Len(queue_) + Len(js)
  OBVIOUS
<1> HIDE DEF js
<1>3. (removed \o queue_) \o js = removed \o (queue_ \o js)
  BY <1>1, ConcatAssociative, SMTT(30)
<1>4. queue_ \o js \in Seq(Job) /\ added \o js \in Seq(Job)
  BY <1>1
<1>5. Len(queue_ \o js) = Len(queue_) + Len(js)
  BY <1>1, ConcatProperties
<1> QED BY <1>0, <1>2, <1>3, <1>4, <1>5 DEF JobsInOrder

(* check_queue_length after a push that leaves n jobs.                     *)
LEMMA LengthChecked ==
  ASSUME TypeOK, LatchInv, NEW n \in Nat, CheckQueueLength(n), Len(queue_') = n
  PROVE  /\ last_push' \in [earlier : Nat, before : Nat, after : Nat, warned : BOOLEAN]
         /\ warn_triggered_' \in BOOLEAN
         /\ LatchInv' /\ RisesWarned'
<1>1. /\ last_push' = [earlier |-> last_push.after, before |-> Len(queue_), after |-> n,
                       warned |-> Warns(n)]
      /\ warn_triggered_' = (n >= warn_size_ /\ (warn_triggered_ \/ Warns(n)))
  BY DEF CheckQueueLength, NotePush
<1>2. /\ Len(queue_) \in Nat /\ last_push.after \in Nat /\ warn_size_ \in Nat
      /\ Warns(n) \in BOOLEAN /\ warn_triggered_ \in BOOLEAN
  BY JobQueueAssumption DEF TypeOK, Warns
<1>3. /\ Len(queue_) <= last_push.after
      /\ warn_triggered_ <=> warn_size_ > 0 /\ last_push.after >= warn_size_
  BY DEF LatchInv, Long
<1>4. last_push' \in [earlier : Nat, before : Nat, after : Nat, warned : BOOLEAN]
  BY <1>1, <1>2
<1>5. LatchInv'
  <2>1. warn_triggered_' <=> warn_size_ > 0 /\ n >= warn_size_
    BY <1>1, <1>2, <1>3 DEF Warns
  <2>2. last_push'.after = n
    BY <1>1
  <2> QED BY <2>1, <2>2 DEF LatchInv, Long
<1>6. RisesWarned'
  <2>1. Warns(n) <=> ~(Len(queue_) >= warn_size_) /\ n >= warn_size_
                     /\ ~(last_push.after >= warn_size_)
    BY <1>2, <1>3 DEF Warns
  <2>2. /\ last_push'.warned = Warns(n) /\ last_push'.before = Len(queue_)
        /\ last_push'.after = n /\ last_push'.earlier = last_push.after
    BY <1>1
  <2> QED BY <2>1, <2>2 DEF RisesWarned, Long
<1> QED BY <1>1, <1>4, <1>5, <1>6

-------------------------------------------------------------------------------
(* One lemma per kind of thread: none of its steps disturbs the invariant. *)

LEMMA ProducerStep ==
  ASSUME IInv, NEW p \in Producer,
         Produce(p) \/ ProducerWakes(p) \/ \E js \in Batch : Emplace(p, js)
  PROVE  IInv'
<1> USE JobQueueAssumption DEF IInv, TypeOK, HasBatch, CapacityKept, JobsInOrder, ConsumersWoken,
                               ProducersWoken, LatchInv, RisesWarned, Long, ThreadPc, queueVars
<1>1. CASE \E js \in Batch : Emplace(p, js)
  BY <1>1 DEF Emplace
<1>2. CASE ProducerWakes(p)
  BY <1>2 DEF ProducerWakes
<1>3. CASE ProducerSleeps(p)
  BY <1>3 DEF ProducerSleeps, Fits, BatchesFit
<1>4. CASE ProducerGivesUp(p)
  BY <1>4 DEF ProducerGivesUp
<1>5. CASE ProducerPushes(p)
  <2> DEFINE n == Len(queue_) + Len(adding[p])
  <2> USE <1>5, PushAppends DEF ProducerPushes
  <2>1. adding[p] \in Seq(Job) /\ Len(adding[p]) > 0
    OBVIOUS
  <2>9. n \in Nat /\ Len(queue_') = n /\ CheckQueueLength(n)
    OBVIOUS
  <2>10. /\ last_push' \in [earlier : Nat, before : Nat, after : Nat, warned : BOOLEAN]
         /\ warn_triggered_' \in BOOLEAN
         /\ LatchInv' /\ RisesWarned'
    BY <2>9, LengthChecked
  <2>2. TypeOK'
    BY <2>10
  <2>3. HasBatch' OBVIOUS
  <2>4. CapacityKept' BY DEF Fits
  <2>5. JobsInOrder' OBVIOUS
  <2>6. ConsumersWoken' OBVIOUS
  <2>7. ProducersWoken'
    <3>1. queue_' # <<>>
      BY <2>1
    <3> QED BY <3>1
  <2> QED BY <2>2, <2>3, <2>4, <2>5, <2>6, <2>7, <2>10
<1>6. CASE ProducerNotifies(p)
  <2>1. /\ consumer_pc' \in NotifyOne(consumer_pc)
        /\ UNCHANGED <<queueVars, run_, adding, owner_pc, submitted>>
    BY <1>6 DEF ProducerNotifies
  <2>2. /\ consumer_pc' \in [Consumer -> ThreadPc]
        /\ \A c \in Consumer : /\ consumer_pc'[c] \in {consumer_pc[c], "testing"}
                               /\ consumer_pc[c] # "asleep" => consumer_pc'[c] = consumer_pc[c]
        /\ (\E c \in Consumer : consumer_pc[c] = "asleep") =>
              \E c \in Consumer : consumer_pc'[c] = "testing"
    BY <2>1, ConsumersNotified
  <2>3. producer_pc' = [producer_pc EXCEPT ![p] = "idle"] /\ producer_pc[p] = "notify"
    BY <1>6 DEF ProducerNotifies
  <2>4. ConsumersWoken'
    BY <2>2
  <2>5. ProducersWoken'
    BY <2>1, <2>2, <2>3
  <2> QED BY <2>1, <2>2, <2>3, <2>4, <2>5
<1> QED BY <1>1, <1>2, <1>3, <1>4, <1>5, <1>6 DEF Produce

LEMMA ConsumerStep ==
  ASSUME IInv, NEW c \in Consumer, Consume(c) \/ ConsumerWakes(c) \/ GetJobs(c)
  PROVE  IInv'
<1>9. ASSUME NEW n \in 0..Len(queue_), Remove(n)
      PROVE  /\ queue_' \in Seq(Job) /\ removed' \in Seq(Job)
             /\ Len(queue_') \in 0..Len(queue_)
             /\ removed' \o queue_' = removed \o queue_
  <2>1. Len(queue_) \in Nat /\ TypeOK
    BY DEF IInv, TypeOK
  <2>2. /\ queue_' \in Seq(Job) /\ removed' \in Seq(Job)
        /\ Len(queue_') = Len(queue_) - n
        /\ removed' \o queue_' = removed \o queue_
    BY <1>9, <2>1, RemoveSplits, Zenon
  <2>3. Len(queue_) - n \in 0..Len(queue_)
    BY <2>1
  <2> QED BY <2>2, <2>3
<1> USE JobQueueAssumption DEF IInv, TypeOK, HasBatch, CapacityKept, JobsInOrder, ConsumersWoken,
                               ProducersWoken, LatchInv, RisesWarned, Long, ThreadPc, queueVars
<1>1. CASE GetJobs(c)
  BY <1>1 DEF GetJobs
<1>2. CASE ConsumerWakes(c)
  BY <1>2 DEF ConsumerWakes
<1>3. CASE ConsumerSleeps(c)
  BY <1>3 DEF ConsumerSleeps
<1>4. CASE ConsumerGivesUp(c)
  BY <1>4 DEF ConsumerGivesUp
<1>5. ASSUME NEW max_size \in FetchSize, ConsumerFetches(c, max_size)
      PROVE  IInv'
  <2> DEFINE n == IF max_size < Len(queue_) THEN max_size ELSE Len(queue_)
  <2> USE <1>5 DEF ConsumerFetches
  <2>1. n \in 0..Len(queue_) /\ Remove(n)
    OBVIOUS
  <2>2. /\ queue_' \in Seq(Job) /\ removed' \in Seq(Job)
        /\ Len(queue_') \in 0..Len(queue_)
        /\ removed' \o queue_' = removed \o queue_
    BY <2>1, <1>9
  <2>3. TypeOK'
    BY <2>2
  <2>4. CapacityKept' /\ JobsInOrder' /\ LatchInv' /\ RisesWarned' /\ HasBatch'
    BY <2>2
  <2>5. ConsumersWoken'
    OBVIOUS
  <2>6. ProducersWoken'
    <3>1. CASE max_size_ > 0
      <4>1. consumer_pc'[c] = "notify"
        BY <3>1
      <4> QED BY <4>1
    <3>2. CASE max_size_ = 0
      <4>1. ~BatchesFit \/ Batch = {}
        BY <3>2 DEF BatchesFit
      <4> QED BY <4>1
    <3> QED BY <3>1, <3>2
  <2> QED BY <2>3, <2>4, <2>5, <2>6
<1>6. CASE ConsumerNotifies(c)
  <2>1. /\ producer_pc' \in NotifyOne(producer_pc)
        /\ UNCHANGED <<queueVars, run_, adding, owner_pc, submitted>>
    BY <1>6 DEF ConsumerNotifies
  <2>2. /\ producer_pc' \in [Producer -> ThreadPc]
        /\ \A p \in Producer : /\ producer_pc'[p] \in {producer_pc[p], "testing"}
                               /\ producer_pc[p] # "asleep" => producer_pc'[p] = producer_pc[p]
        /\ (\E p \in Producer : producer_pc[p] = "asleep") =>
              \E p \in Producer : producer_pc'[p] = "testing"
    BY <2>1, ProducersNotified
  <2>3. consumer_pc' = [consumer_pc EXCEPT ![c] = "idle"] /\ consumer_pc[c] = "notify"
    BY <1>6 DEF ConsumerNotifies
  <2>4. HasBatch'
    BY <2>1, <2>2
  <2>5. ConsumersWoken'
    BY <2>1, <2>2, <2>3
  <2>6. ProducersWoken'
    BY <2>1, <2>2
  <2> QED BY <2>1, <2>2, <2>3, <2>4, <2>5, <2>6
<1> QED BY <1>1, <1>2, <1>3, <1>4, <1>5, <1>6 DEF Consume

LEMMA OwnerStep == ASSUME IInv, Clear \/ Stop \/ Finish PROVE IInv'
<1>0. Remove(Len(queue_)) => /\ queue_' \in Seq(Job) /\ removed' \in Seq(Job)
                             /\ Len(queue_') = 0
                             /\ removed' \o queue_' = removed \o queue_
  <2>1. Len(queue_) \in 0..Len(queue_) /\ Len(queue_) - Len(queue_) = 0
    BY DEF IInv, TypeOK
  <2> QED BY <2>1, RemoveSplits DEF IInv
<1>9. /\ NotifyAll(producer_pc) \in [Producer -> ThreadPc]
      /\ \A p \in Producer : /\ NotifyAll(producer_pc)[p] # "asleep"
                             /\ NotifyAll(producer_pc)[p] \in {producer_pc[p], "testing"}
                             /\ producer_pc[p] # "asleep" => NotifyAll(producer_pc)[p] = producer_pc[p]
      /\ NotifyAll(consumer_pc) \in [Consumer -> ThreadPc]
      /\ \A c \in Consumer : /\ NotifyAll(consumer_pc)[c] # "asleep"
                             /\ consumer_pc[c] # "asleep" => NotifyAll(consumer_pc)[c] = consumer_pc[c]
  <2>1. producer_pc \in [Producer -> ThreadPc] /\ consumer_pc \in [Consumer -> ThreadPc]
    BY DEF IInv, TypeOK
  <2> QED BY <2>1, NotifyAllWakes
<1> USE JobQueueAssumption DEF IInv, TypeOK, HasBatch, CapacityKept, JobsInOrder, ConsumersWoken,
                               ProducersWoken, LatchInv, RisesWarned, Long, ThreadPc, queueVars
<1>1. ASSUME NEW next \in {"cleared", "stop_cleared"}, ClearQueue(next)
      PROVE  IInv'
  <2>1. Remove(Len(queue_))
    BY <1>1 DEF ClearQueue
  <2>2. /\ queue_' \in Seq(Job) /\ removed' \in Seq(Job)
        /\ Len(queue_') = 0
        /\ removed' \o queue_' = removed \o queue_
    BY <2>1, <1>0
  <2> QED BY <1>1, <2>2 DEF ClearQueue
<1>2. CASE ClearNotifies
  <2>1. producer_pc' = NotifyAll(producer_pc) \/ (max_size_ = 0 /\ producer_pc' = producer_pc)
    BY <1>2 DEF ClearNotifies
  <2>2. CASE producer_pc' = NotifyAll(producer_pc)
    BY <1>2, <2>2, <1>9 DEF ClearNotifies
  <2>3. CASE max_size_ = 0 /\ producer_pc' = producer_pc
    BY <1>2, <2>3 DEF ClearNotifies, BatchesFit
  <2> QED BY <2>1, <2>2, <2>3
<1>3. CASE StopRun
  BY <1>3 DEF StopRun
<1>4. CASE StopNotifies
  BY <1>4, <1>9 DEF StopNotifies
<1>5. CASE StopNotifiesSpace
  BY <1>5, <1>9 DEF StopNotifiesSpace
<1> QED BY <1>1, <1>2, <1>3, <1>4, <1>5 DEF Clear, Stop, Finish

-------------------------------------------------------------------------------
(* The inductive invariant: for any producers, consumers, batches, fetch   *)
(* sizes, capacity and warning length.                                     *)
THEOREM Inductive == Spec => []IInv
<1>1. Init => IInv
  <2> SUFFICES ASSUME Init PROVE IInv
    OBVIOUS
  <2> USE JobQueueAssumption DEF Init
  <2>1. TypeOK
    <3>1. <<>> \in Seq(Job) /\ ThreadPc = {"idle", "testing", "asleep", "notify"}
      BY EmptySeq DEF ThreadPc
    <3> QED BY <3>1 DEF TypeOK
  <2>2. CapacityKept /\ LatchInv /\ RisesWarned /\ ConsumersWoken /\ ProducersWoken
    BY DEF CapacityKept, LatchInv, RisesWarned, Long, ConsumersWoken, ProducersWoken
  <2>3. JobsInOrder /\ HasBatch
    <3>1. <<>> \in Seq(Job)
      BY EmptySeq
    <3> QED BY <3>1, ConcatEmptySeq DEF JobsInOrder, HasBatch
  <2> QED BY <2>1, <2>2, <2>3 DEF IInv
<1>2. IInv /\ [Next]_vars => IInv'
  <2> SUFFICES ASSUME IInv, [Next]_vars PROVE IInv'
    OBVIOUS
  <2>1. CASE UNCHANGED vars
    BY <2>1 DEF vars, queueVars, IInv, TypeOK, HasBatch, CapacityKept, JobsInOrder,
                ConsumersWoken, ProducersWoken, LatchInv, RisesWarned, Long
  <2> QED BY <2>1, ProducerStep, ConsumerStep, OwnerStep DEF Next
<1> QED BY <1>1, <1>2, PTL DEF Spec

(* The type invariant of the queue.                                        *)
THEOREM TypeCorrect == Spec => []TypeOK
  BY Inductive, PTL DEF IInv

(* A bounded queue never holds more than its capacity, whatever batches    *)
(* wait for the same places.                                               *)
THEOREM CapacityIsKept == Spec => []CapacityKept
  BY Inductive, PTL DEF IInv

(* Every job added is, in this order, handed out, cleared or still queued. *)
THEOREM JobsKeepOrder == Spec => []JobsInOrder
  BY Inductive, PTL DEF IInv

(* While the queue runs and holds a job, the consumers do not all sleep    *)
(* unless a notification is on its way.                                    *)
THEOREM ConsumersAreWoken == Spec => []ConsumersWoken
  BY Inductive, PTL DEF IInv

(* While the queue runs and is empty, no producer sleeps unless another    *)
(* one is about to push or a notification is on its way.                   *)
THEOREM ProducersAreWoken == Spec => []ProducersWoken
  BY Inductive, PTL DEF IInv

(* The warning callback is called at each rise above the warning length    *)
(* that follows a push which left the queue short, and at nothing else.    *)
THEOREM RisesAreWarned == Spec => []RisesWarned
  BY Inductive, PTL DEF IInv

===============================================================================
