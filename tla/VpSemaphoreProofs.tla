--------------------------- MODULE VpSemaphoreProofs ---------------------------
(***************************************************************************)
(* Theorems about vp_semaphore, for any finite sets of waiters and         *)
(* signalers and any bound on the count.  NoLostWakeup is inductive as it  *)
(* stands: a step that adds a count adds a notification, and a step that   *)
(* takes a notification away either wakes a sleeper, which then tests, or  *)
(* finds nobody asleep.                                                    *)
(***************************************************************************)
EXTENDS VpSemaphore, FiniteSetTheorems, TLAPS

IInv == TypeOK /\ NoLostWakeup

-------------------------------------------------------------------------------
LEMMA Finite ==
  ASSUME TypeOK
  PROVE  /\ IsFiniteSet(testing) /\ Cardinality(testing) \in Nat
         /\ IsFiniteSet(notifying) /\ Cardinality(notifying) \in Nat
<1>1. IsFiniteSet(testing) /\ IsFiniteSet(notifying)
  BY VpSemaphoreAssumption, FS_Subset DEF TypeOK
<1> QED BY <1>1, FS_CardinalityType

LEMMA Enters ==
  ASSUME NEW S, NEW x, IsFiniteSet(S), x \notin S
  PROVE  Cardinality(S \cup {x}) = Cardinality(S) + 1
  BY FS_AddElement

LEMMA Leaves ==
  ASSUME NEW S, NEW x, IsFiniteSet(S), x \in S
  PROVE  Cardinality(S \ {x}) = Cardinality(S) - 1
  BY FS_RemoveElement

(* A sleeper that wakes up, with or without a notification, will test.     *)
LEMMA WakeUp ==
  ASSUME TypeOK, NEW w \in asleep, Awake(w)
  PROVE  /\ Cardinality(testing') = Cardinality(testing) + 1
         /\ testing' \subseteq Waiter /\ asleep' \subseteq Waiter
         /\ testing' \cap asleep' = {}
<1>1. w \notin testing /\ testing' = testing \cup {w} /\ asleep' = asleep \ {w}
  BY DEF TypeOK, Awake
<1> QED BY <1>1, Finite, Enters DEF TypeOK

LEMMA WaiterStep ==
  ASSUME IInv, NEW w \in Waiter, Wait(w) \/ Test(w) \/ Spurious(w)
  PROVE  IInv'
<1> USE VpSemaphoreAssumption DEF IInv, TypeOK, NoLostWakeup
<1>0. Cardinality(testing) \in Nat /\ Cardinality(notifying) \in Nat
  BY Finite
<1>1. CASE Wait(w)
  <2>1. Cardinality(testing') = Cardinality(testing) + 1
    BY <1>1, Finite, Enters DEF Wait
  <2> QED BY <1>0, <1>1, <2>1 DEF Wait
<1>2. CASE Test(w)
  <2>1. Cardinality(testing') = Cardinality(testing) - 1
    BY <1>2, Finite, Leaves DEF Test
  <2>2. CASE count_ > 0
    BY <1>0, <1>2, <2>1, <2>2 DEF Test
  <2>3. CASE count_ = 0
    <3>1. count_' = 0 /\ Cardinality(testing') \in Nat /\ notifying' = notifying
      BY <1>2, <2>3, Finite, FS_RemoveElement, FS_CardinalityType DEF Test
    <3> QED BY <1>0, <1>2, <2>3, <3>1 DEF Test
  <2> QED BY <2>2, <2>3
<1>3. CASE Spurious(w)
  <2>1. w \in asleep /\ Awake(w) /\ UNCHANGED <<count_, notifying>>
    BY <1>3 DEF Spurious
  <2> QED BY <1>0, <2>1, WakeUp
<1> QED BY <1>1, <1>2, <1>3

LEMMA SignalerStep ==
  ASSUME IInv, NEW s \in Signaler, Signal(s) \/ Reset(s) \/ Notify(s)
  PROVE  IInv'
<1> USE VpSemaphoreAssumption DEF IInv, TypeOK, NoLostWakeup
<1>0. Cardinality(testing) \in Nat /\ Cardinality(notifying) \in Nat
  BY Finite
<1>1. CASE Signal(s)
  <2>1. Cardinality(notifying') = Cardinality(notifying) + 1
    BY <1>1, Finite, Enters DEF Signal
  <2> QED BY <1>0, <1>1, <2>1 DEF Signal
<1>2. CASE Reset(s)
  <2>1. Cardinality(notifying') = Cardinality(notifying) + 1
    BY <1>2, Finite, Enters DEF Reset
  <2> QED BY <1>0, <1>2, <2>1 DEF Reset
<1>3. CASE Notify(s)
  <2>1. Cardinality(notifying') = Cardinality(notifying) - 1
    BY <1>3, Finite, Leaves DEF Notify
  <2>2. CASE asleep = {} /\ UNCHANGED <<testing, asleep>>
    BY <1>3, <2>2 DEF Notify
  <2>3. CASE \E w \in asleep : Awake(w)
    <3>1. PICK w \in asleep : Awake(w)
      BY <2>3
    <3> QED BY <1>0, <1>3, <2>1, <3>1, WakeUp DEF Notify
  <2> QED BY <1>3, <2>2, <2>3 DEF Notify
<1> QED BY <1>1, <1>2, <1>3

LEMMA NextStep == ASSUME IInv, [Next]_vars PROVE IInv'
<1>1. CASE UNCHANGED vars
  BY <1>1 DEF vars, IInv, TypeOK, NoLostWakeup
<1> QED BY <1>1, WaiterStep, SignalerStep DEF Next

(* No wakeup is lost, however many threads wait and signal: a count never  *)
(* stays behind with sleepers and nobody to wake them.                     *)
THEOREM WakeupsAreKept == Spec => [](TypeOK /\ NoLostWakeup)
<1>1. Init => IInv
  BY VpSemaphoreAssumption DEF Init, IInv, TypeOK, NoLostWakeup
<1>2. IInv /\ [Next]_vars => IInv'
  BY NextStep
<1>3. IInv => TypeOK /\ NoLostWakeup
  BY DEF IInv
<1> QED BY <1>1, <1>2, <1>3, PTL DEF Spec

(* The class does what its users assume of it, one step at a time: going   *)
(* to sleep, waking up and notifying are invisible to them.                *)
THEOREM Refines == Spec => Abstract!Spec
<1>1. Init => Abstract!Init
  BY DEF Init, Abstract!Init
<1>2. TypeOK /\ [Next]_vars => [Abstract!Next]_<<count_, testing \cup asleep>>
  <2> SUFFICES ASSUME TypeOK, [Next]_vars
               PROVE  [Abstract!Next]_<<count_, testing \cup asleep>>
    OBVIOUS
  <2>1. CASE UNCHANGED vars
    BY <2>1 DEF vars
  <2>2. ASSUME NEW w \in Waiter, Wait(w)
        PROVE  Abstract!Call(w)
    BY <2>2 DEF Wait, Abstract!Call
  <2>3. ASSUME NEW w \in Waiter, Test(w)
        PROVE  Abstract!Acquire(w) \/ UNCHANGED <<count_, testing \cup asleep>>
    <3>1. CASE count_ > 0
      BY <2>3, <3>1 DEF Test, Abstract!Acquire, TypeOK
    <3>2. CASE ~(count_ > 0)
      BY <2>3, <3>2 DEF Test
    <3> QED BY <3>1, <3>2
  <2>4. ASSUME NEW w \in asleep, Awake(w)
        PROVE  UNCHANGED (testing \cup asleep)
    BY <2>4 DEF Awake
  <2>5. ASSUME NEW w \in Waiter, Spurious(w)
        PROVE  UNCHANGED <<count_, testing \cup asleep>>
    BY <2>4, <2>5 DEF Spurious
  <2>6. ASSUME NEW s \in Signaler, Signal(s)
        PROVE  Abstract!Signal
    BY <2>6 DEF Signal, Abstract!Signal
  <2>7. ASSUME NEW s \in Signaler, Reset(s)
        PROVE  Abstract!Reset
    BY <2>7 DEF Reset, Abstract!Reset
  <2>8. ASSUME NEW s \in Signaler, Notify(s)
        PROVE  UNCHANGED <<count_, testing \cup asleep>>
    BY <2>4, <2>8 DEF Notify
  <2> QED BY <2>1, <2>2, <2>3, <2>5, <2>6, <2>7, <2>8 DEF Next, Abstract!Next
<1>3. Spec => []TypeOK
  BY WakeupsAreKept, PTL
<1> QED BY <1>1, <1>2, <1>3, PTL DEF Spec, Abstract!Spec

===============================================================================
