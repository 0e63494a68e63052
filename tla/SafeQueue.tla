------------------------------- MODULE SafeQueue -------------------------------
(***************************************************************************)
(* ThreadSafeQueue (utils/safe_queue.h), with its mutex and its condition  *)
(* variable: Push notifies one consumer after it released the mutex,       *)
(* consumers wait with and without a deadline or do not wait at all.       *)
(*                                                                         *)
(* An action is a critical section: a consumer that falls asleep releases  *)
(* the mutex, and locks it again before it tests the queue.  Front and Pop *)
(* are those of the node modules, which call no other pair of them.        *)
(***************************************************************************)
EXTENDS Naturals, Sequences, FiniteSets

CONSTANTS Producer, Consumer,
          MaxPushes  \* bound: how many elements are pushed

ASSUME SafeQueueAssumption ==
  /\ IsFiniteSet(Consumer)
  /\ MaxPushes \in Nat

VARIABLES
  q,            \* q_: an element is named by the number of its push
  notifying,    \* the producers between the unlock and notify_one
  consumer_pc,  \* where each consumer is: "idle", "test" or "asleep"
  timed,        \* whether the consumer called WaitAndTryPop
  expired,      \* whether rel_time has passed
  pushes,       \* history: how many elements were pushed
  taken         \* history: the elements that consumers took, in that order

callVars == <<consumer_pc, timed, expired>>
vars == <<q, notifying, callVars, pushes, taken>>

-------------------------------------------------------------------------------
(* Push.                                                                   *)

(* Variant with a bug: only a push to an empty queue notifies.             *)
PushNotifiesFirst(p) ==
  /\ p \notin notifying
  /\ pushes < MaxPushes
  /\ q' = Append(q, pushes + 1)
  /\ pushes' = pushes + 1
  /\ notifying' = IF q = <<>> THEN notifying \cup {p} ELSE notifying
  /\ UNCHANGED <<callVars, taken>>

Push(p) ==
  /\ p \notin notifying
  /\ pushes < MaxPushes
  /\ q' = Append(q, pushes + 1)
  /\ pushes' = pushes + 1
  /\ notifying' = notifying \cup {p}
  /\ UNCHANGED <<callVars, taken>>

Asleep == {c \in Consumer : consumer_pc[c] = "asleep"}

(* notify_one wakes one of the sleepers, if there is one.                  *)
Notify(p) ==
  /\ p \in notifying
  /\ notifying' = notifying \ {p}
  /\ \/ Asleep = {} /\ consumer_pc' = consumer_pc
     \/ \E c \in Asleep : consumer_pc' = [consumer_pc EXCEPT ![c] = "test"]
  /\ UNCHANGED <<q, timed, expired, pushes, taken>>

-------------------------------------------------------------------------------
(* TryPop, WaitAndPop and WaitAndTryPop.                                   *)

(* Variant with a bug: the element that was copied stays in the queue.     *)
TakeCopies ==
  /\ q # <<>>
  /\ taken' = Append(taken, Head(q))
  /\ q' = q

Take ==
  /\ q # <<>>
  /\ taken' = Append(taken, Head(q))
  /\ q' = Tail(q)

(* On an empty queue TryPop returns false and changes nothing.             *)
TryPop(c) ==
  /\ consumer_pc[c] = "idle"
  /\ Take
  /\ UNCHANGED <<notifying, callVars, pushes>>

Wait(c, with_time) ==
  /\ consumer_pc[c] = "idle"
  /\ consumer_pc' = [consumer_pc EXCEPT ![c] = "test"]
  /\ timed' = [timed EXCEPT ![c] = with_time]
  /\ expired' = [expired EXCEPT ![c] = FALSE]
  /\ UNCHANGED <<q, notifying, pushes, taken>>

WaitAndPop(c) == Wait(c, FALSE)
WaitAndTryPop(c) == Wait(c, TRUE)

Return(c) == consumer_pc' = [consumer_pc EXCEPT ![c] = "idle"]
Sleep(c) == consumer_pc' = [consumer_pc EXCEPT ![c] = "asleep"]

(* Variant with a bug: a consumer that was woken for nothing waits again,  *)
(* past its deadline.                                                      *)
TestIgnoresDeadline(c) ==
  /\ consumer_pc[c] = "test"
  /\ \/ Take /\ Return(c)
     \/ q = <<>> /\ Sleep(c) /\ UNCHANGED <<q, taken>>
  /\ UNCHANGED <<notifying, timed, expired, pushes>>

(* The predicate of the wait, and what follows in the same lock: the       *)
(* element is taken, the call gives up past its deadline, or sleeps.       *)
Test(c) ==
  /\ consumer_pc[c] = "test"
  /\ \/ Take /\ Return(c)
     \/ q = <<>> /\ expired[c] /\ Return(c) /\ UNCHANGED <<q, taken>>
     \/ q = <<>> /\ ~expired[c] /\ Sleep(c) /\ UNCHANGED <<q, taken>>
  /\ UNCHANGED <<notifying, timed, expired, pushes>>

(* The deadline is that of the call: a wakeup does not renew it.           *)
Expire(c) ==
  /\ consumer_pc[c] # "idle" /\ timed[c] /\ ~expired[c]
  /\ expired' = [expired EXCEPT ![c] = TRUE]
  /\ UNCHANGED <<q, notifying, consumer_pc, timed, pushes, taken>>

Awake(c) ==
  /\ consumer_pc[c] = "asleep"
  /\ consumer_pc' = [consumer_pc EXCEPT ![c] = "test"]
  /\ UNCHANGED <<q, notifying, timed, expired, pushes, taken>>

TimeOut(c) == expired[c] /\ Awake(c)
WakeSpuriously(c) == Awake(c)

-------------------------------------------------------------------------------
Init ==
  /\ q = <<>>
  /\ notifying = {}
  /\ consumer_pc = [c \in Consumer |-> "idle"]
  /\ timed = [c \in Consumer |-> FALSE]
  /\ expired = [c \in Consumer |-> FALSE]
  /\ pushes = 0
  /\ taken = <<>>

Next ==
  \/ \E p \in Producer : Push(p) \/ Notify(p)
  \/ \E c \in Consumer :
       \/ TryPop(c) \/ WaitAndPop(c) \/ WaitAndTryPop(c)
       \/ Test(c) \/ Expire(c) \/ TimeOut(c) \/ WakeSpuriously(c)

Spec == Init /\ [][Next]_vars

(* A thread inside a call goes on and time passes; nothing makes a thread  *)
(* call, and nothing makes a condition variable wake it for no reason.     *)
Fairness ==
  /\ \A p \in Producer : WF_vars(Notify(p))
  /\ \A c \in Consumer : WF_vars(Test(c)) /\ WF_vars(Expire(c)) /\ WF_vars(TimeOut(c))

FairSpec == Spec /\ Fairness

-------------------------------------------------------------------------------
(* Every variable has its type.                                            *)
TypeOK ==
  /\ q \in Seq(1..MaxPushes)
  /\ notifying \subseteq Producer
  /\ consumer_pc \in [Consumer -> {"idle", "test", "asleep"}]
  /\ timed \in [Consumer -> BOOLEAN]
  /\ expired \in [Consumer -> BOOLEAN]
  /\ pushes \in 0..MaxPushes
  /\ taken \in Seq(1..MaxPushes)

(* However the calls of the consumers mix, every element is taken once, in *)
(* the order of the pushes.                                                *)
TakenInOrder == taken \o q = [i \in 1..pushes |-> i]

(* While a consumer sleeps, every element of the queue is announced: by a  *)
(* producer that has still to notify, or to a consumer that is about to    *)
(* test the queue.  notify_one wakes one thread and the others sleep on,   *)
(* and the one it wakes may be about to time out, or come too late.        *)
EveryElementAnnounced ==
  Asleep # {} =>
    Len(q) <= Cardinality(notifying) + Cardinality({c \in Consumer : consumer_pc[c] = "test"})

(* WaitAndTryPop returns, even if others always take the element that it   *)
(* was woken for.                                                          *)
TimedCallReturns ==
  \A c \in Consumer : consumer_pc[c] # "idle" /\ timed[c] ~> consumer_pc[c] = "idle"

===============================================================================
