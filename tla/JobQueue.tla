------------------------------- MODULE JobQueue -------------------------------
(***************************************************************************)
(* ThreadSafeJobQueue (utils/safe_queue.h): a queue of jobs under a mutex, *)
(* with one condition variable for the consumers, one for the producers of *)
(* a bounded queue, a warning length and a stop.  A critical section of    *)
(* the mutex is one step; every notification comes after the mutex was     *)
(* released and is a step of its own.  A sleeping thread may also wake up  *)
(* with no notification.                                                   *)
(*                                                                         *)
(* emplace is batch_emplace of one job: the code of both is the same then. *)
(* The warn and clear callbacks run inside the critical section and do not *)
(* use the queue.                                                          *)
(***************************************************************************)
EXTENDS Naturals, Sequences, FiniteSets

CONSTANTS
  Producer,   \* threads that add jobs
  Consumer,   \* threads that fetch jobs
  Job,
  Batch,      \* sequences of jobs that are added by one call, each of them once
  FetchSize,  \* the max_size arguments of get_jobs_and_wait
  max_size_,  \* 0 if the queue is unbounded
  warn_size_  \* 0 if there is no warning: no length, or no callback

(* The constructor rejects a warning length above the capacity; an empty   *)
(* batch returns at once.                                                  *)
ASSUME JobQueueAssumption ==
  /\ Consumer # {}
  /\ Batch \subseteq Seq(Job) \ {<<>>}
  /\ FetchSize \subseteq Nat
  /\ max_size_ \in Nat
  /\ warn_size_ \in Nat
  /\ warn_size_ > max_size_ => max_size_ = 0

VARIABLES
  queue_,
  run_,
  warn_triggered_,
  producer_pc, adding,  \* per producer: its position in batch_emplace, its batch
  consumer_pc,          \* per consumer: its position in get_jobs_and_wait
  owner_pc,             \* position of the thread that calls clear and stop
  submitted,            \* history: batches that a producer was called with
  added,                \* history: jobs pushed, in order
  removed,              \* history: jobs fetched or given to the clear callback, in order
  last_push             \* history: the length that the push before the last one left, the
                        \* lengths around the last one, and whether it called warn_callback_

queueVars == <<queue_, warn_triggered_, added, removed, last_push>>
vars == <<queueVars, run_, producer_pc, adding, consumer_pc, owner_pc, submitted>>

-------------------------------------------------------------------------------
(* The condition variables: a set of sleeping threads each.                *)

Sleeping(pc) == {t \in DOMAIN pc : pc[t] = "asleep"}

(* notify_one: pc' after one sleeping thread, if there is any, has woken.  *)
NotifyOne(pc) ==
  IF Sleeping(pc) = {} THEN {pc}
  ELSE {[pc EXCEPT ![t] = "testing"] : t \in Sleeping(pc)}

NotifyAll(pc) ==
  [t \in DOMAIN pc |-> IF pc[t] = "asleep" THEN "testing" ELSE pc[t]]

-------------------------------------------------------------------------------
(* emplace and batch_emplace.                                              *)

Emplace(p, js) ==
  /\ producer_pc[p] = "idle"
  /\ js \notin submitted
  /\ submitted' = submitted \cup {js}
  /\ adding' = [adding EXCEPT ![p] = js]
  /\ producer_pc' = [producer_pc EXCEPT ![p] = "testing"]
  /\ UNCHANGED <<queueVars, run_, consumer_pc, owner_pc>>

(* Variant with a bug: a batch waits for one free place.                   *)
FitsOne(js) == Len(queue_) < max_size_

Fits(js) == Len(queue_) + Len(js) <= max_size_

ProducerSleeps(p) ==
  /\ producer_pc[p] = "testing"
  /\ max_size_ > 0 /\ run_ /\ ~Fits(adding[p])
  /\ producer_pc' = [producer_pc EXCEPT ![p] = "asleep"]
  /\ UNCHANGED <<queueVars, run_, adding, consumer_pc, owner_pc, submitted>>

(* A stopped queue drops the jobs.                                         *)
ProducerGivesUp(p) ==
  /\ producer_pc[p] = "testing"
  /\ max_size_ > 0 /\ ~run_
  /\ producer_pc' = [producer_pc EXCEPT ![p] = "idle"]
  /\ adding' = [adding EXCEPT ![p] = <<>>]
  /\ UNCHANGED <<queueVars, run_, consumer_pc, owner_pc, submitted>>

(* Whether warn_callback_ is called, for the length n after the push.      *)
Warns(n) == warn_size_ > 0 /\ n >= warn_size_ /\ ~warn_triggered_

NotePush(n) ==
  last_push' = [earlier |-> last_push.after, before |-> Len(queue_), after |-> n,
                warned |-> Warns(n)]

(* Variant with a bug: the warning is never armed again.                   *)
CheckQueueLengthOnce(n) ==
  /\ warn_triggered_' = (warn_triggered_ \/ Warns(n))
  /\ NotePush(n)

(* check_queue_length, for the length n after the push: a long queue       *)
(* triggers the warning unless it is triggered, a short one arms it again. *)
CheckQueueLength(n) ==
  /\ warn_triggered_' = (n >= warn_size_ /\ (warn_triggered_ \/ Warns(n)))
  /\ NotePush(n)

ProducerPushes(p) ==
  /\ producer_pc[p] = "testing"
  /\ max_size_ > 0 => run_ /\ Fits(adding[p])
  /\ queue_' = queue_ \o adding[p]
  /\ added' = added \o adding[p]
  /\ CheckQueueLength(Len(queue_) + Len(adding[p]))
  /\ adding' = [adding EXCEPT ![p] = <<>>]
  /\ producer_pc' = [producer_pc EXCEPT ![p] = "notify"]
  /\ UNCHANGED <<run_, removed, consumer_pc, owner_pc, submitted>>

(* Variant with a bug: no consumer is notified.                            *)
ProducerNotifiesNobody(p) ==
  /\ producer_pc[p] = "notify"
  /\ producer_pc' = [producer_pc EXCEPT ![p] = "idle"]
  /\ UNCHANGED <<queueVars, run_, adding, consumer_pc, owner_pc, submitted>>

ProducerNotifies(p) ==
  /\ producer_pc[p] = "notify"
  /\ consumer_pc' \in NotifyOne(consumer_pc)
  /\ producer_pc' = [producer_pc EXCEPT ![p] = "idle"]
  /\ UNCHANGED <<queueVars, run_, adding, owner_pc, submitted>>

ProducerWakes(p) ==
  /\ producer_pc[p] = "asleep"
  /\ producer_pc' = [producer_pc EXCEPT ![p] = "testing"]
  /\ UNCHANGED <<queueVars, run_, adding, consumer_pc, owner_pc, submitted>>

-------------------------------------------------------------------------------
(* get_jobs_and_wait.                                                      *)

GetJobs(c) ==
  /\ consumer_pc[c] = "idle"
  /\ consumer_pc' = [consumer_pc EXCEPT ![c] = "testing"]
  /\ UNCHANGED <<queueVars, run_, producer_pc, adding, owner_pc, submitted>>

ConsumerSleeps(c) ==
  /\ consumer_pc[c] = "testing"
  /\ run_ /\ queue_ = <<>>
  /\ consumer_pc' = [consumer_pc EXCEPT ![c] = "asleep"]
  /\ UNCHANGED <<queueVars, run_, producer_pc, adding, owner_pc, submitted>>

ConsumerGivesUp(c) ==
  /\ consumer_pc[c] = "testing"
  /\ ~run_
  /\ consumer_pc' = [consumer_pc EXCEPT ![c] = "idle"]
  /\ UNCHANGED <<queueVars, run_, producer_pc, adding, owner_pc, submitted>>

(* Variant with a bug: one job more is popped than was handed out.         *)
RemoveOneMore(n) ==
  /\ removed' = removed \o SubSeq(queue_, 1, n)
  /\ queue_' = SubSeq(queue_, n + 2, Len(queue_))

Remove(n) ==
  /\ removed' = removed \o SubSeq(queue_, 1, n)
  /\ queue_' = SubSeq(queue_, n + 1, Len(queue_))

(* Variant with a bug: producers are notified by who finds the queue full. *)
ConsumerFetchesFull(c, max_size) ==
  /\ consumer_pc[c] = "testing"
  /\ run_ /\ queue_ # <<>>
  /\ Remove(IF max_size < Len(queue_) THEN max_size ELSE Len(queue_))
  /\ consumer_pc' = [consumer_pc EXCEPT ![c] =
                       IF Len(queue_) = max_size_ THEN "notify" ELSE "idle"]
  /\ UNCHANGED <<run_, warn_triggered_, added, last_push, producer_pc, adding, owner_pc,
                 submitted>>

ConsumerFetches(c, max_size) ==
  /\ consumer_pc[c] = "testing"
  /\ run_ /\ queue_ # <<>>
  /\ Remove(IF max_size < Len(queue_) THEN max_size ELSE Len(queue_))
  /\ consumer_pc' = [consumer_pc EXCEPT ![c] = IF max_size_ > 0 THEN "notify" ELSE "idle"]
  /\ UNCHANGED <<run_, warn_triggered_, added, last_push, producer_pc, adding, owner_pc,
                 submitted>>

ConsumerNotifies(c) ==
  /\ consumer_pc[c] = "notify"
  /\ producer_pc' \in NotifyOne(producer_pc)
  /\ consumer_pc' = [consumer_pc EXCEPT ![c] = "idle"]
  /\ UNCHANGED <<queueVars, run_, adding, owner_pc, submitted>>

ConsumerWakes(c) ==
  /\ consumer_pc[c] = "asleep"
  /\ consumer_pc' = [consumer_pc EXCEPT ![c] = "testing"]
  /\ UNCHANGED <<queueVars, run_, producer_pc, adding, owner_pc, submitted>>

-------------------------------------------------------------------------------
(* clear and stop, called by one thread: the owner of the queue.           *)

(* The first critical section of both: every job goes to the callback.     *)
ClearQueue(next) ==
  /\ owner_pc = "idle"
  /\ Remove(Len(queue_))
  /\ owner_pc' = next
  /\ UNCHANGED <<run_, warn_triggered_, added, last_push, producer_pc, adding, consumer_pc,
                 submitted>>

Clear == ClearQueue("cleared")

Stop == ClearQueue("stop_cleared")

(* Only a bounded queue has producers to notify.                           *)
ClearNotifies ==
  /\ owner_pc \in {"cleared", "stop_cleared"}
  /\ producer_pc' = IF max_size_ > 0 THEN NotifyAll(producer_pc) ELSE producer_pc
  /\ owner_pc' = IF owner_pc = "cleared" THEN "idle" ELSE "stop"
  /\ UNCHANGED <<queueVars, run_, adding, consumer_pc, submitted>>

StopRun ==
  /\ owner_pc = "stop"
  /\ run_' = FALSE
  /\ owner_pc' = "notify"
  /\ UNCHANGED <<queueVars, producer_pc, adding, consumer_pc, submitted>>

(* Variant with a bug: one consumer is notified.                           *)
StopNotifiesOne ==
  /\ owner_pc = "notify"
  /\ consumer_pc' \in NotifyOne(consumer_pc)
  /\ owner_pc' = "notify_space"
  /\ UNCHANGED <<queueVars, run_, producer_pc, adding, submitted>>

StopNotifies ==
  /\ owner_pc = "notify"
  /\ consumer_pc' = NotifyAll(consumer_pc)
  /\ owner_pc' = "notify_space"
  /\ UNCHANGED <<queueVars, run_, producer_pc, adding, submitted>>

StopNotifiesSpace ==
  /\ owner_pc = "notify_space"
  /\ producer_pc' = NotifyAll(producer_pc)
  /\ owner_pc' = "stopped"
  /\ UNCHANGED <<queueVars, run_, adding, consumer_pc, submitted>>

Finish == ClearNotifies \/ StopRun \/ StopNotifies \/ StopNotifiesSpace

-------------------------------------------------------------------------------
Init ==
  /\ queue_ = <<>>
  /\ run_ = TRUE
  /\ warn_triggered_ = FALSE
  /\ producer_pc = [p \in Producer |-> "idle"]
  /\ adding = [p \in Producer |-> <<>>]
  /\ consumer_pc = [c \in Consumer |-> "idle"]
  /\ owner_pc = "idle"
  /\ submitted = {}
  /\ added = <<>>
  /\ removed = <<>>
  /\ last_push = [earlier |-> 0, before |-> 0, after |-> 0, warned |-> FALSE]

(* What a thread inside a call does without being notified.                *)
Produce(p) == ProducerSleeps(p) \/ ProducerGivesUp(p) \/ ProducerPushes(p) \/ ProducerNotifies(p)

Consume(c) ==
  \/ ConsumerSleeps(c) \/ ConsumerGivesUp(c) \/ ConsumerNotifies(c)
  \/ \E max_size \in FetchSize : ConsumerFetches(c, max_size)

Next ==
  \/ \E p \in Producer : Produce(p) \/ ProducerWakes(p) \/ \E js \in Batch : Emplace(p, js)
  \/ \E c \in Consumer : Consume(c) \/ ConsumerWakes(c) \/ GetJobs(c)
  \/ Clear
  \/ Stop
  \/ Finish

Spec == Init /\ [][Next]_vars

(* A thread inside a call runs on.  Nothing makes a thread call, and no    *)
(* wakeup without a notification is relied upon.                           *)
Fairness ==
  /\ \A p \in Producer : WF_vars(Produce(p))
  /\ \A c \in Consumer : WF_vars(Consume(c))
  /\ WF_vars(Finish)

FairSpec == Spec /\ Fairness

-------------------------------------------------------------------------------
ThreadPc == {"idle", "testing", "asleep", "notify"}

(* Every variable has its type.                                            *)
TypeOK ==
  /\ queue_ \in Seq(Job)
  /\ run_ \in BOOLEAN
  /\ warn_triggered_ \in BOOLEAN
  /\ producer_pc \in [Producer -> ThreadPc]
  /\ adding \in [Producer -> Batch \cup {<<>>}]
  /\ consumer_pc \in [Consumer -> ThreadPc]
  /\ owner_pc \in {"idle", "cleared", "stop_cleared", "stop", "notify", "notify_space", "stopped"}
  /\ submitted \subseteq Batch
  /\ added \in Seq(Job)
  /\ removed \in Seq(Job)
  /\ last_push \in [earlier : Nat, before : Nat, after : Nat, warned : BOOLEAN]

(* batch_emplace adds all its jobs or none, and never exceeds the capacity *)
(* although another producer may be notified of the same free place.       *)
CapacityKept == max_size_ > 0 => Len(queue_) <= max_size_

(* Jobs leave the queue once each, in the order in which they entered it,  *)
(* to a consumer or to the clear callback.                                 *)
JobsInOrder == added = removed \o queue_

(* Consumers never all sleep over a job: get_jobs_and_wait leaves a job    *)
(* behind without notifying, and a batch notifies one consumer only.       *)
ConsumersWoken ==
  /\ run_
  /\ queue_ # <<>>
  /\ \A c \in Consumer : consumer_pc[c] = "asleep"
  => \E p \in Producer : producer_pc[p] = "notify"

(* Producers never all sleep at an empty queue, although a consumer that *)
(* frees several places notifies one producer, which may be one whose      *)
(* batch does not fit yet - provided that every batch fits an empty queue. *)
BatchesFit == \A js \in Batch : Len(js) <= max_size_

ProducersWoken ==
  /\ BatchesFit
  /\ run_
  /\ queue_ = <<>>
  /\ \E p \in Producer : producer_pc[p] = "asleep"
  => \/ \E p \in Producer : producer_pc[p] = "testing"
     \/ \E c \in Consumer : consumer_pc[c] = "notify"
     \/ owner_pc \in {"cleared", "stop_cleared"}

Long(n) == n >= warn_size_

(* warn_callback_ is called by a push that makes a short queue long, so    *)
(* not twice while the queue stays long, and by each such push but for one *)
(* case: where the push before left the queue long too, consumers or clear *)
(* have made it short in between, which check_queue_length never saw, and  *)
(* the queue becomes long with no warning (safe_queue.h:293).              *)
RisesWarned ==
  last_push.warned <=>
    ~Long(last_push.before) /\ Long(last_push.after) /\ ~Long(last_push.earlier)

(* safe_queue.h:248, "wake all waiting threads": stop leaves no thread     *)
(* asleep, whenever that thread tested the condition.                      *)
StopReleasesAll ==
  /\ \A c \in Consumer : ~run_ /\ consumer_pc[c] # "idle" ~> consumer_pc[c] = "idle"
  /\ \A p \in Producer : ~run_ /\ producer_pc[p] # "idle" ~> producer_pc[p] = "idle"

(* safe_queue.h:230 and :251, clear the queue and handle the unfinished    *)
(* jobs: a stopped queue holds no job that nobody has handled.             *)
StopHandlesAll == owner_pc = "stopped" => queue_ = <<>>

===============================================================================
