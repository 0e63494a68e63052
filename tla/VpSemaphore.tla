------------------------------ MODULE VpSemaphore ------------------------------
(***************************************************************************)
(* vp_semaphore (utils/vp_semaphore.h): a count under a mutex and a        *)
(* condition variable.  A critical section of the mutex is one step; the   *)
(* notification comes after the mutex was released and is a step of its    *)
(* own, so threads can enter, sleep and wake between the two.  A sleeping  *)
(* thread may also wake up with no notification.                           *)
(***************************************************************************)
EXTENDS Naturals, FiniteSets

CONSTANTS
  Waiter,    \* threads that call wait
  Signaler,  \* threads that call signal and reset
  MaxCount   \* bound on count_, an int in the code

ASSUME VpSemaphoreAssumption ==
  /\ IsFiniteSet(Waiter)
  /\ IsFiniteSet(Signaler)
  /\ MaxCount \in Nat

VARIABLES
  count_,
  testing,   \* threads in wait that will test the predicate under the mutex
  asleep,    \* threads that sleep on cv_
  notifying  \* threads between the mutex and notify_one

vars == <<count_, testing, asleep, notifying>>

-------------------------------------------------------------------------------
Wait(w) ==
  /\ w \notin testing \cup asleep
  /\ testing' = testing \cup {w}
  /\ UNCHANGED <<count_, asleep, notifying>>

(* The predicate of cv_.wait: a thread that finds no count goes to sleep   *)
(* before it lets go of the mutex.                                         *)
Test(w) ==
  /\ w \in testing
  /\ testing' = testing \ {w}
  /\ \/ count_ > 0 /\ count_' = count_ - 1 /\ UNCHANGED asleep
     \/ count_ = 0 /\ asleep' = asleep \cup {w} /\ UNCHANGED count_
  /\ UNCHANGED notifying

Awake(w) ==
  /\ asleep' = asleep \ {w}
  /\ testing' = testing \cup {w}

Spurious(w) ==
  /\ w \in asleep
  /\ Awake(w)
  /\ UNCHANGED <<count_, notifying>>

(* Variant with a bug: only the first of several counts is notified.       *)
SignalFromZero(s) ==
  /\ s \notin notifying
  /\ count_ < MaxCount
  /\ count_' = count_ + 1
  /\ notifying' = IF count_ = 0 THEN notifying \cup {s} ELSE notifying
  /\ UNCHANGED <<testing, asleep>>

Signal(s) ==
  /\ s \notin notifying
  /\ count_ < MaxCount
  /\ count_' = count_ + 1
  /\ notifying' = notifying \cup {s}
  /\ UNCHANGED <<testing, asleep>>

Reset(s) ==
  /\ s \notin notifying
  /\ count_' = 0
  /\ notifying' = notifying \cup {s}
  /\ UNCHANGED <<testing, asleep>>

(* Variant with a bug: the notification reaches nobody.                    *)
NotifyNobody(s) ==
  /\ s \in notifying
  /\ notifying' = notifying \ {s}
  /\ UNCHANGED <<count_, testing, asleep>>

Notify(s) ==
  /\ s \in notifying
  /\ notifying' = notifying \ {s}
  /\ \/ asleep = {} /\ UNCHANGED <<testing, asleep>>
     \/ \E w \in asleep : Awake(w)
  /\ UNCHANGED count_

-------------------------------------------------------------------------------
Init ==
  /\ count_ = 0
  /\ testing = {}
  /\ asleep = {}
  /\ notifying = {}

Next ==
  \/ \E w \in Waiter : Wait(w) \/ Test(w) \/ Spurious(w)
  \/ \E s \in Signaler : Signal(s) \/ Reset(s) \/ Notify(s)

Spec == Init /\ [][Next]_vars

(* A thread inside wait or signal runs on; nothing makes threads call them *)
(* and no wakeup without a notification is relied upon.                    *)
FairSpec ==
  /\ Spec
  /\ \A w \in Waiter : WF_vars(Test(w))
  /\ \A s \in Signaler : WF_vars(Notify(s))

-------------------------------------------------------------------------------
(* Every variable has its type, and no thread is in two places.            *)
TypeOK ==
  /\ count_ \in 0..MaxCount
  /\ testing \subseteq Waiter
  /\ asleep \subseteq Waiter
  /\ testing \cap asleep = {}
  /\ notifying \subseteq Signaler

(* No wakeup is lost although signal notifies outside the mutex: while a   *)
(* thread sleeps, every count has a notification on its way or a thread    *)
(* that is about to test the predicate.                                    *)
NoLostWakeup ==
  asleep # {} => count_ <= Cardinality(notifying) + Cardinality(testing)

(* The class implements the semaphore its users assume.                    *)
Abstract == INSTANCE Semaphore WITH count <- count_, waiting <- testing \cup asleep

ImplementsSemaphore == Abstract!FairSpec

===============================================================================
