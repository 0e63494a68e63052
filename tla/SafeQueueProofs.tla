---------------------------- MODULE SafeQueueProofs ----------------------------
(***************************************************************************)
(* Theorems about ThreadSafeQueue, for any producers, any finite set of    *)
(* consumers and any number of pushes.  EveryElementAnnounced is inductive *)
(* as it stands: a push brings a notification with it, a notification ends *)
(* at a consumer that will test, and a consumer leaves the test with an    *)
(* element or finds none.                                                  *)
(***************************************************************************)
EXTENDS SafeQueue, SequenceTheorems, FiniteSetTheorems, TLAPS

Testing == {c \in Consumer : consumer_pc[c] = "test"}

IInv ==
  /\ TypeOK
  /\ IsFiniteSet(notifying)
  /\ TakenInOrder
  /\ EveryElementAnnounced

-------------------------------------------------------------------------------
LEMMA Finite ==
  ASSUME IsFiniteSet(notifying)
  PROVE  /\ Cardinality(notifying) \in Nat
         /\ IsFiniteSet(Testing) /\ Cardinality(Testing) \in Nat
<1>1. IsFiniteSet(Testing)
  BY SafeQueueAssumption, FS_Subset DEF Testing
<1> QED BY <1>1, FS_CardinalityType

(* How the number of testing consumers changes with the state of one.      *)
LEMMA TestingChanges ==
  ASSUME IInv, NEW c \in Consumer, NEW to \in {"idle", "test", "asleep"},
         consumer_pc' = [consumer_pc EXCEPT ![c] = to]
  PROVE  /\ consumer_pc' \in [Consumer -> {"idle", "test", "asleep"}]
         /\ consumer_pc[c] # "test" /\ to = "test"
              => Cardinality(Testing') = Cardinality(Testing) + 1
         /\ consumer_pc[c] = "test" /\ to # "test"
              => Cardinality(Testing') = Cardinality(Testing) - 1
         /\ to # "asleep" => Asleep' \subseteq Asleep
<1> USE DEF IInv, TypeOK, Testing, Asleep
<1>1. IsFiniteSet(Testing)
  BY Finite
<1>2. CASE consumer_pc[c] # "test" /\ to = "test"
  <2>1. c \notin Testing /\ Testing' = Testing \cup {c}
    BY <1>2
  <2>2. Cardinality(Testing') = Cardinality(Testing) + 1
    BY <1>1, <2>1, FS_AddElement
  <2> QED BY <1>2, <2>2
<1>3. CASE consumer_pc[c] = "test" /\ to # "test"
  <2>1. c \in Testing /\ Testing' = Testing \ {c}
    BY <1>3
  <2>2. Cardinality(Testing') = Cardinality(Testing) - 1
    <3> DEFINE T == Testing
               U == Testing'
    <3>1. IsFiniteSet(T) /\ c \in T /\ U = T \ {c}
      BY <1>1, <2>1
    <3> HIDE DEF T, U, IInv, TypeOK
    <3>2. Cardinality(U) = Cardinality(T) - 1
      BY <3>1, FS_RemoveElement
    <3> QED BY <3>2 DEF T, U
  <2> QED BY <1>3, <2>2
<1> QED BY <1>2, <1>3

(* The element that is taken moves from one end of a history to the other. *)
LEMMA TakeMoves ==
  ASSUME TypeOK, Take
  PROVE  /\ q' \in Seq(1..MaxPushes) /\ taken' \in Seq(1..MaxPushes)
         /\ Len(q') = Len(q) - 1 /\ Len(q) \in Nat /\ Len(q) > 0
         /\ taken' \o q' = taken \o q
<1> USE DEF TypeOK, Take
<1>1. /\ Head(q) \in 1..MaxPushes /\ Tail(q) \in Seq(1..MaxPushes)
      /\ Len(Tail(q)) = Len(q) - 1
  BY HeadTailProperties
<1>2. q = <<Head(q)>> \o Tail(q)
  OBVIOUS
<1>3. taken \o <<Head(q)>> = Append(taken, Head(q)) /\ <<Head(q)>> \in Seq(1..MaxPushes)
  BY <1>1, AppendIsConcat
<1>4. (taken \o <<Head(q)>>) \o Tail(q) = taken \o (<<Head(q)>> \o Tail(q))
  BY <1>1, <1>3, ConcatAssociative, SMTT(30)
<1> QED BY <1>1, <1>2, <1>3, <1>4, SMTT(30)

LEMMA PushStep == ASSUME IInv, NEW p \in Producer, Push(p) PROVE IInv'
<1> USE SafeQueueAssumption DEF IInv, TypeOK, Push, callVars
<1>1. pushes + 1 \in 1..MaxPushes
  OBVIOUS
<1>2. q' \in Seq(1..MaxPushes) /\ Len(q') = Len(q) + 1
  BY <1>1, AppendProperties
<1>3. IsFiniteSet(notifying') /\ Cardinality(notifying') = Cardinality(notifying) + 1
  BY FS_AddElement
<1>4. TakenInOrder'
  <2>1. taken \o q' = Append(taken \o q, pushes + 1)
    BY <1>1, SMTT(30)
  <2>2. Append([i \in 1..pushes |-> i], pushes + 1) = [i \in 1..pushes + 1 |-> i]
    OBVIOUS
  <2> QED BY <2>1, <2>2 DEF TakenInOrder
<1>5. EveryElementAnnounced'
  <2>1. Cardinality(notifying) \in Nat /\ Cardinality(Testing) \in Nat /\ Len(q) \in Nat
    BY Finite
  <2> QED BY <1>2, <1>3, <2>1, SMTT(30) DEF EveryElementAnnounced, Asleep, Testing
<1> QED BY <1>1, <1>2, <1>3, <1>4, <1>5

LEMMA NotifyStep == ASSUME IInv, NEW p \in Producer, Notify(p) PROVE IInv'
<1> USE DEF IInv, TypeOK
<1>0. Cardinality(notifying) \in Nat /\ Cardinality(Testing) \in Nat /\ Len(q) \in Nat
  BY Finite
<1>1. IsFiniteSet(notifying') /\ Cardinality(notifying') = Cardinality(notifying) - 1
  BY FS_RemoveElement DEF Notify
<1>2. UNCHANGED <<q, timed, expired, pushes, taken>> /\ notifying' \subseteq Producer
  BY DEF Notify
<1>3. CASE Asleep = {} /\ consumer_pc' = consumer_pc
  BY <1>1, <1>2, <1>3 DEF TakenInOrder, EveryElementAnnounced, Asleep
<1>4. CASE \E c \in Asleep : consumer_pc' = [consumer_pc EXCEPT ![c] = "test"]
  <2>1. PICK c \in Consumer : /\ consumer_pc[c] = "asleep"
                              /\ consumer_pc' = [consumer_pc EXCEPT ![c] = "test"]
    BY <1>4 DEF Asleep
  <2>2. /\ consumer_pc' \in [Consumer -> {"idle", "test", "asleep"}]
        /\ Cardinality(Testing') = Cardinality(Testing) + 1
        /\ Asleep' \subseteq Asleep
    BY <2>1, TestingChanges
  <2>3. EveryElementAnnounced'
    BY <1>0, <1>1, <1>2, <2>2 DEF EveryElementAnnounced, Testing
  <2> QED BY <1>1, <1>2, <2>2, <2>3 DEF TakenInOrder
<1> QED BY <1>3, <1>4 DEF Notify

LEMMA ConsumerStep ==
  ASSUME IInv, NEW c \in Consumer,
         \/ TryPop(c) \/ WaitAndPop(c) \/ WaitAndTryPop(c)
         \/ Test(c) \/ Expire(c) \/ TimeOut(c) \/ WakeSpuriously(c)
  PROVE  IInv'
<1> USE DEF IInv, TypeOK
<1>0. Cardinality(notifying) \in Nat /\ Cardinality(Testing) \in Nat /\ Len(q) \in Nat
  BY Finite
<1>1. CASE TryPop(c)
  <2>1. /\ q' \in Seq(1..MaxPushes) /\ taken' \in Seq(1..MaxPushes)
        /\ Len(q') = Len(q) - 1 /\ taken' \o q' = taken \o q
    BY <1>1, TakeMoves DEF TryPop
  <2>2. EveryElementAnnounced'
    BY <1>0, <1>1, <2>1 DEF TryPop, callVars, EveryElementAnnounced, Asleep, Testing
  <2> QED BY <1>1, <2>1, <2>2 DEF TryPop, callVars, TakenInOrder
<1>2. ASSUME NEW with_time \in BOOLEAN, Wait(c, with_time)
      PROVE  IInv'
  <2>1. /\ consumer_pc' \in [Consumer -> {"idle", "test", "asleep"}]
        /\ Cardinality(Testing') = Cardinality(Testing) + 1
        /\ Asleep' \subseteq Asleep
    BY <1>2, TestingChanges DEF Wait
  <2>2. EveryElementAnnounced'
    BY <1>0, <1>2, <2>1 DEF Wait, EveryElementAnnounced, Testing
  <2> QED BY <1>2, <2>1, <2>2 DEF Wait, TakenInOrder
<1>3. CASE Test(c)
  <2>1. /\ consumer_pc[c] = "test" /\ notifying' = notifying
        /\ UNCHANGED <<timed, expired, pushes>>
    BY <1>3 DEF Test
  <2>2. CASE Take /\ Return(c)
    <3>1. /\ q' \in Seq(1..MaxPushes) /\ taken' \in Seq(1..MaxPushes)
          /\ Len(q') = Len(q) - 1 /\ taken' \o q' = taken \o q
      BY <2>2, TakeMoves
    <3>2. /\ consumer_pc' \in [Consumer -> {"idle", "test", "asleep"}]
          /\ Cardinality(Testing') = Cardinality(Testing) - 1
          /\ Asleep' \subseteq Asleep
      BY <2>1, <2>2, TestingChanges DEF Return
    <3>3. EveryElementAnnounced'
      BY <1>0, <2>1, <3>1, <3>2, SMTT(30) DEF EveryElementAnnounced, Testing
    <3> QED BY <2>1, <3>1, <3>2, <3>3 DEF TakenInOrder
  <2>3. CASE q = <<>> /\ (Return(c) \/ Sleep(c)) /\ UNCHANGED <<q, taken>>
    <3>1. Len(q') = 0
      BY <2>3
    <3>2. Cardinality(notifying') \in Nat /\ Cardinality(Testing') \in Nat
      <4>1. IsFiniteSet(Testing')
        BY SafeQueueAssumption, FS_Subset DEF Testing
      <4> QED BY <1>0, <2>1, <4>1, FS_CardinalityType
    <3>3. EveryElementAnnounced'
      BY <3>1, <3>2 DEF EveryElementAnnounced, Testing
    <3> QED BY <2>1, <2>3, <3>3 DEF TakenInOrder, Return, Sleep
  <2> QED BY <1>3, <2>2, <2>3 DEF Test
<1>4. CASE Expire(c)
  BY <1>4 DEF Expire, TakenInOrder, EveryElementAnnounced, Asleep
<1>5. CASE Awake(c)
  <2>1. /\ consumer_pc' \in [Consumer -> {"idle", "test", "asleep"}]
        /\ Cardinality(Testing') = Cardinality(Testing) + 1
        /\ Asleep' \subseteq Asleep
    BY <1>5, TestingChanges DEF Awake
  <2>2. EveryElementAnnounced'
    BY <1>0, <1>5, <2>1 DEF Awake, EveryElementAnnounced, Testing
  <2> QED BY <1>5, <2>1, <2>2 DEF Awake, TakenInOrder
<1> QED BY <1>1, <1>2, <1>3, <1>4, <1>5 DEF WaitAndPop, WaitAndTryPop, TimeOut, WakeSpuriously

-------------------------------------------------------------------------------
(* The inductive invariant, for any producers and consumers.               *)
THEOREM Inductive == Spec => []IInv
<1>1. Init => IInv
  <2> SUFFICES ASSUME Init PROVE IInv
    OBVIOUS
  <2> USE SafeQueueAssumption DEF Init
  <2>1. <<>> \in Seq(1..MaxPushes) /\ <<>> \o <<>> = [i \in 1..0 |-> i]
    OBVIOUS
  <2>2. IsFiniteSet(notifying)
    BY FS_EmptySet
  <2>3. EveryElementAnnounced
    BY DEF EveryElementAnnounced, Asleep
  <2> QED BY <2>1, <2>2, <2>3 DEF IInv, TypeOK, TakenInOrder
<1>2. IInv /\ [Next]_vars => IInv'
  <2> SUFFICES ASSUME IInv, [Next]_vars PROVE IInv'
    OBVIOUS
  <2>1. CASE UNCHANGED vars
    BY <2>1 DEF vars, callVars, IInv, TypeOK, TakenInOrder, EveryElementAnnounced, Asleep
  <2> QED BY <2>1, PushStep, NotifyStep, ConsumerStep DEF Next
<1> QED BY <1>1, <1>2, PTL DEF Spec

(* The type invariant of the queue.                                        *)
THEOREM TypeCorrect == Spec => []TypeOK
  BY Inductive, PTL DEF IInv

(* Every element is taken once, in the order of the pushes, however many   *)
(* consumers take and whichever calls they use.                            *)
THEOREM ElementsKeepOrder == Spec => []TakenInOrder
  BY Inductive, PTL DEF IInv

(* One notification per push suffices: while a consumer sleeps, no element *)
(* is left that no thread is going to look at or to announce.              *)
THEOREM ElementsAreAnnounced == Spec => []EveryElementAnnounced
  BY Inductive, PTL DEF IInv

===============================================================================
