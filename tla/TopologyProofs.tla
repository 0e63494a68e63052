------------------------------ MODULE TopologyProofs ------------------------------
(***************************************************************************)
(* Theorems about Topology, for any set of nodes, any pushing threads and  *)
(* metas, and any links that are made.                                     *)
(***************************************************************************)
EXTENDS Topology, Integers, SequenceTheorems, FiniteSetTheorems, WellFoundedInduction, TLAPS

-------------------------------------------------------------------------------
(* Every nonempty set of naturals has a least element.                     *)
LEMMA LeastNat ==
  ASSUME NEW T, T \subseteq Nat, T # {}
  PROVE  \E n \in T : \A m \in T : n <= m
<1> DEFINE R == OpToRel(<, Nat)
<1>1. IsWellFoundedOn(R, Nat)
  BY NatLessThanWellFounded
<1>2. PICK n \in T : \A m \in T : <<m, n>> \notin R
  <2> HIDE DEF R
  <2> QED BY <1>1, WFMin
<1>3. ASSUME NEW m \in T PROVE n <= m
  <2>1. <<m, n>> \notin R
    BY <1>2
  <2>2. ~(m < n)
    BY <2>1 DEF OpToRel
  <2> QED BY <2>2
<1> QED BY <1>3

(* The function of which Keep chooses one: there is one up to any length,  *)
(* and Keep is its last value.                                             *)
KeepUpTo(g, s, S, n) ==
  g = [i \in 0..n |-> IF i = 0 THEN <<>>
                      ELSE IF s[i] \in S THEN Append(g[i - 1], s[i]) ELSE g[i - 1]]

LEMMA KeepUpToExists ==
  ASSUME NEW s, NEW S
  PROVE  \A n \in Nat : \E g : KeepUpTo(g, s, S, n)
<1> DEFINE Without == {n \in Nat : ~ \E g : KeepUpTo(g, s, S, n)}
<1> SUFFICES ASSUME Without # {} PROVE FALSE
  OBVIOUS
<1>1. PICK n \in Without : \A m \in Without : n <= m
  BY LeastNat
<1>2. CASE n = 0
  <2>1. KeepUpTo([i \in 0..0 |-> <<>>], s, S, 0)
    BY DEF KeepUpTo
  <2> QED BY <1>2, <2>1
<1>3. CASE n # 0
  <2>1. n - 1 \in Nat /\ n - 1 \notin Without
    BY <1>1, <1>3
  <2>2. PICK g : KeepUpTo(g, s, S, n - 1)
    BY <2>1
  <2> DEFINE last == IF s[n] \in S THEN Append(g[n - 1], s[n]) ELSE g[n - 1]
             h == [i \in 0..n |-> IF i = n THEN last ELSE g[i]]
  <2>3. \A i \in 0..n : i # n => h[i] = g[i] /\ (i # 0 => h[i - 1] = g[i - 1])
    OBVIOUS
  <2>4. h[n] = IF s[n] \in S THEN Append(h[n - 1], s[n]) ELSE h[n - 1]
    BY <1>3, <2>3
  <2>5. \A i \in 0..n : h[i] = IF i = 0 THEN <<>>
                      ELSE IF s[i] \in S THEN Append(h[i - 1], s[i]) ELSE h[i - 1]
    <3> HIDE DEF h
    <3> SUFFICES ASSUME NEW i \in 0..n
                 PROVE  h[i] = IF i = 0 THEN <<>>
                      ELSE IF s[i] \in S THEN Append(h[i - 1], s[i]) ELSE h[i - 1]
      OBVIOUS
    <3>1. CASE i = n
      BY <3>1, <2>4, <1>3
    <3>2. CASE i # n
      <4>1. i \in 0..n-1
        BY <3>2
      <4>2. g[i] = IF i = 0 THEN <<>>
                      ELSE IF s[i] \in S THEN Append(g[i - 1], s[i]) ELSE g[i - 1]
        BY <2>2, <4>1 DEF KeepUpTo
      <4> QED BY <4>2, <2>3, <3>2
    <3> QED BY <3>1, <3>2
  <2>6. KeepUpTo(h, s, S, n)
    <3>1. h = [i \in 0..n |-> h[i]]
      OBVIOUS
    <3> HIDE DEF h
    <3> QED BY <2>5, <3>1 DEF KeepUpTo
  <2> QED BY <2>6
<1> QED BY <1>2, <1>3

LEMMA KeepIs ==
  ASSUME NEW s, NEW S, Len(s) \in Nat
  PROVE  \E g : KeepUpTo(g, s, S, Len(s)) /\ Keep(s, S) = g[Len(s)]
<1> DEFINE P(g) == KeepUpTo(g, s, S, Len(s))
<1>1. \E g : P(g)
  BY KeepUpToExists
<1>2. P(CHOOSE g : P(g))
  BY <1>1, Zenon
<1>3. Keep(s, S) = (CHOOSE g : P(g))[Len(s)]
  BY DEF Keep, KeepUpTo
<1> QED BY <1>2, <1>3

(* What Keep leaves of nothing, and of a longer sequence.                  *)
LEMMA KeepEmpty == ASSUME NEW S PROVE Keep(<<>>, S) = <<>>
<1>0. Len(<<>>) = 0
  OBVIOUS
<1>1. PICK g : KeepUpTo(g, <<>>, S, 0) /\ Keep(<<>>, S) = g[0]
  <2> DEFINE e == <<>>
  <2>1. Len(e) = 0
    BY <1>0
  <2> HIDE DEF e
  <2>2. \E g : KeepUpTo(g, e, S, 0) /\ Keep(e, S) = g[0]
    BY <2>1, KeepIs
  <2> QED BY <2>2 DEF e
<1> QED BY <1>1 DEF KeepUpTo

LEMMA KeepAppend ==
  ASSUME NEW S, NEW E, NEW s \in Seq(E), NEW x \in E
  PROVE  Keep(Append(s, x), S) = IF x \in S THEN Append(Keep(s, S), x) ELSE Keep(s, S)
<1> DEFINE t == Append(s, x)
           n == Len(s)
<1>1. n \in Nat /\ Len(t) = n + 1 /\ t[n + 1] = x /\ \A i \in 1..n : s[i] = t[i]
  BY AppendProperties
<1>2. PICK g : KeepUpTo(g, s, S, n) /\ Keep(s, S) = g[n]
  BY <1>1, KeepIs
<1> HIDE DEF t
<1>3. PICK h : KeepUpTo(h, t, S, n + 1) /\ Keep(t, S) = h[n + 1]
  <2>1. Len(t) \in Nat
    BY <1>1
  <2>2. \E h : KeepUpTo(h, t, S, Len(t)) /\ Keep(t, S) = h[Len(t)]
    BY <2>1, KeepIs
  <2> QED BY <1>1, <2>2
<1> HIDE DEF n
<1>4. g[n] = h[n]
  <2> DEFINE Differ == {i \in 0..n : g[i] # h[i]}
  <2> SUFFICES ASSUME Differ # {} PROVE FALSE
    BY <1>1
  <2>1. PICK i \in Differ : \A j \in Differ : i <= j
    <3>1. Differ \subseteq Nat
      OBVIOUS
    <3> HIDE DEF Differ
    <3> QED BY <3>1, LeastNat
  <2>2. i \in 0..n /\ i \in 0..n + 1 /\ g[i] # h[i]
    BY <1>1
  <2>3. i # 0 => g[i - 1] = h[i - 1] /\ s[i] = t[i]
    <3>1. i # 0 => i - 1 \in 0..n /\ i - 1 \notin Differ /\ i \in 1..n
      BY <1>1, <2>1, <2>2
    <3> QED BY <1>1, <3>1
  <2>4. /\ g[i] = IF i = 0 THEN <<>>
                  ELSE IF s[i] \in S THEN Append(g[i - 1], s[i]) ELSE g[i - 1]
        /\ h[i] = IF i = 0 THEN <<>>
                  ELSE IF t[i] \in S THEN Append(h[i - 1], t[i]) ELSE h[i - 1]
    BY <1>2, <1>3, <2>2 DEF KeepUpTo
  <2> QED BY <2>2, <2>3, <2>4
<1>5. h[n + 1] = IF t[n + 1] \in S THEN Append(h[n], t[n + 1]) ELSE h[n]
  <2>1. n + 1 \in 0..n + 1 /\ n + 1 # 0 /\ (n + 1) - 1 = n
    BY <1>1
  <2> QED BY <1>3, <2>1 DEF KeepUpTo
<1> QED BY <1>1, <1>2, <1>3, <1>4, <1>5 DEF t

(* Keep leaves elements of the sequence.                                   *)
LEMMA KeepType ==
  ASSUME NEW S, NEW E
  PROVE  \A s \in Seq(E) : Keep(s, S) \in Seq(E)
<1> DEFINE Wrong == {n \in Nat : \E s \in Seq(E) : Len(s) = n /\ Keep(s, S) \notin Seq(E)}
<1> SUFFICES ASSUME Wrong # {} PROVE FALSE
  <2>1. \A s \in Seq(E) : Len(s) \in Nat
    OBVIOUS
  <2> QED BY <2>1
<1>1. PICK n \in Wrong : \A m \in Wrong : n <= m
  <2>1. Wrong \subseteq Nat
    OBVIOUS
  <2> HIDE DEF Wrong
  <2> QED BY <2>1, LeastNat
<1>2. PICK s \in Seq(E) : Len(s) = n /\ Keep(s, S) \notin Seq(E)
  OBVIOUS
<1>3. s # <<>>
  BY <1>2, KeepEmpty
<1>4. PICK f \in Seq(E), x \in E : s = Append(f, x)
  BY <1>3, SequenceEmptyOrAppend
<1>5. Len(f) \in Nat /\ Len(f) = n - 1
  BY <1>2, <1>4, AppendProperties
<1>6. Keep(f, S) \in Seq(E)
  BY <1>1, <1>5
<1>7. Keep(s, S) = IF x \in S THEN Append(Keep(f, S), x) ELSE Keep(f, S)
  BY <1>4, KeepAppend
<1> QED BY <1>2, <1>6, <1>7

-------------------------------------------------------------------------------
(* How often an element occurs in a sequence.                              *)
LEMMA CountIsNat ==
  ASSUME NEW E, NEW s \in Seq(E), NEW x
  PROVE  IsFiniteSet({i \in DOMAIN s : s[i] = x}) /\ Count(s, x) \in Nat
<1>1. IsFiniteSet(1..Len(s))
  BY FS_Interval
<1>2. {i \in DOMAIN s : s[i] = x} \subseteq 1..Len(s)
  OBVIOUS
<1> QED BY <1>1, <1>2, FS_Subset, FS_CardinalityType DEF Count

LEMMA CountEmpty == ASSUME NEW x PROVE Count(<<>>, x) = 0
<1>1. {i \in DOMAIN <<>> : <<>>[i] = x} = {}
  OBVIOUS
<1> QED BY <1>1, FS_EmptySet DEF Count

LEMMA CountZero ==
  ASSUME NEW E, NEW s \in Seq(E), NEW x
  PROVE  Count(s, x) = 0 <=> x \notin ToSet(s)
<1> DEFINE P == {i \in DOMAIN s : s[i] = x}
<1>1. IsFiniteSet(P)
  BY CountIsNat
<1>2. Cardinality(P) = 0 <=> P = {}
  BY <1>1, FS_EmptySet
<1>3. P = {} <=> x \notin ToSet(s)
  BY DEF ToSet
<1> QED BY <1>2, <1>3 DEF Count

LEMMA CountAppend ==
  ASSUME NEW E, NEW s \in Seq(E), NEW e \in E, NEW x
  PROVE  Count(Append(s, e), x) = Count(s, x) + IF e = x THEN 1 ELSE 0
<1> DEFINE t == Append(s, e)
           P == {i \in DOMAIN s : s[i] = x}
           Q == {i \in DOMAIN t : t[i] = x}
           n == Len(s) + 1
<1>1. IsFiniteSet(P) /\ Cardinality(P) \in Nat
  BY CountIsNat DEF Count
<1>2. /\ DOMAIN s = 1..Len(s) /\ DOMAIN t = 1..n /\ Len(s) \in Nat
      /\ t[n] = e /\ \A i \in 1..Len(s) : t[i] = s[i]
  OBVIOUS
<1> HIDE DEF t
<1>3. Q = IF e = x THEN P \cup {n} ELSE P
  BY <1>2
<1>4. n \notin P
  BY <1>2
<1> HIDE DEF P, Q, n
<1>5. Cardinality(P \cup {n}) = Cardinality(P) + 1
  BY <1>1, <1>4, FS_AddElement
<1>6. Cardinality(Q) = Cardinality(P) + IF e = x THEN 1 ELSE 0
  BY <1>1, <1>3, <1>5
<1> QED BY <1>6 DEF Count, P, Q, t

(* Of two sequences in a row, of a head and a tail, and of what Keep       *)
(* leaves.                                                                 *)
LEMMA CountConcat ==
  ASSUME NEW E, NEW s \in Seq(E), NEW x
  PROVE  \A t \in Seq(E) : Count(s \o t, x) = Count(s, x) + Count(t, x)
<1> DEFINE Wrong == {n \in Nat : \E t \in Seq(E) :
                       Len(t) = n /\ Count(s \o t, x) # Count(s, x) + Count(t, x)}
<1> SUFFICES ASSUME Wrong # {} PROVE FALSE
  <2>1. \A t \in Seq(E) : Len(t) \in Nat
    OBVIOUS
  <2> QED BY <2>1
<1>1. PICK n \in Wrong : \A m \in Wrong : n <= m
  <2>1. Wrong \subseteq Nat
    OBVIOUS
  <2> HIDE DEF Wrong
  <2> QED BY <2>1, LeastNat
<1>2. PICK t \in Seq(E) : Len(t) = n /\ Count(s \o t, x) # Count(s, x) + Count(t, x)
  OBVIOUS
<1>3. t # <<>>
  <2>1. Count(s, x) \in Nat
    BY CountIsNat
  <2>2. s \o <<>> = s
    OBVIOUS
  <2>3. Count(s \o <<>>, x) = Count(s, x) + Count(<<>>, x)
    BY <2>1, <2>2, CountEmpty
  <2> QED BY <1>2, <2>3
<1>4. PICK f \in Seq(E), e \in E : t = Append(f, e)
  BY <1>3, SequenceEmptyOrAppend
<1>5. Len(f) \in Nat /\ Len(f) = n - 1
  BY <1>2, <1>4, AppendProperties
<1>6. Count(s \o f, x) = Count(s, x) + Count(f, x)
  BY <1>1, <1>5
<1>7. s \o t = Append(s \o f, e) /\ s \o f \in Seq(E)
  BY <1>4
<1>8. Count(t, x) = Count(f, x) + IF e = x THEN 1 ELSE 0
  BY <1>4, CountAppend
<1>9. Count(s \o t, x) = Count(s \o f, x) + IF e = x THEN 1 ELSE 0
  <2> DEFINE u == s \o f
  <2>1. s \o t = Append(u, e) /\ u \in Seq(E)
    BY <1>7
  <2> HIDE DEF u, Wrong
  <2>2. Count(Append(u, e), x) = Count(u, x) + IF e = x THEN 1 ELSE 0
    BY <2>1, CountAppend
  <2> QED BY <2>1, <2>2 DEF u
<1>10. Count(s, x) \in Nat /\ Count(f, x) \in Nat
  BY CountIsNat
<1> QED BY <1>2, <1>6, <1>8, <1>9, <1>10

LEMMA CountCons ==
  ASSUME NEW E, NEW s \in Seq(E), s # <<>>, NEW x
  PROVE  Count(s, x) = Count(Tail(s), x) + IF Head(s) = x THEN 1 ELSE 0
<1> DEFINE h == Head(s)
           t == Tail(s)
<1>1. h \in E /\ t \in Seq(E) /\ <<h>> \in Seq(E) /\ s = <<h>> \o t /\ <<h>> = Append(<<>>, h)
      /\ <<>> \in Seq(E)
  OBVIOUS
<1> HIDE DEF h, t
<1>2. Count(s, x) = Count(<<h>>, x) + Count(t, x)
  BY <1>1, CountConcat
<1>3. Count(<<h>>, x) = 0 + IF h = x THEN 1 ELSE 0
  <2> DEFINE o == <<>>
  <2>1. o \in Seq(E) /\ <<h>> = Append(o, h) /\ Count(o, x) = 0
    BY <1>1, CountEmpty
  <2> HIDE DEF o
  <2>2. Count(Append(o, h), x) = Count(o, x) + IF h = x THEN 1 ELSE 0
    BY <1>1, <2>1, CountAppend
  <2> QED BY <2>1, <2>2
<1>4. Count(t, x) \in Nat
  BY <1>1, CountIsNat
<1> QED BY <1>2, <1>3, <1>4 DEF h, t

LEMMA HeadOrTail ==
  ASSUME NEW E, NEW s \in Seq(E), s # <<>>
  PROVE  \A x \in ToSet(s) : x = Head(s) \/ x \in ToSet(Tail(s))
<1>1. Tail(s) \in Seq(E)
  OBVIOUS
<1>2. \A x : Count(s, x) # 0 => x = Head(s) \/ Count(Tail(s), x) # 0
  BY <1>1, CountCons, CountIsNat
<1> QED BY <1>1, <1>2, CountZero

LEMMA CountKeep ==
  ASSUME NEW S, NEW E, NEW x
  PROVE  \A s \in Seq(E) : Count(Keep(s, S), x) = IF x \in S THEN Count(s, x) ELSE 0
<1> DEFINE Good(s) == Count(Keep(s, S), x) = IF x \in S THEN Count(s, x) ELSE 0
           Wrong == {n \in Nat : \E s \in Seq(E) : Len(s) = n /\ ~Good(s)}
<1> SUFFICES ASSUME Wrong # {} PROVE FALSE
  <2>1. \A s \in Seq(E) : Len(s) \in Nat
    OBVIOUS
  <2> QED BY <2>1
<1>1. PICK n \in Wrong : \A m \in Wrong : n <= m
  <2>1. Wrong \subseteq Nat
    OBVIOUS
  <2> HIDE DEF Wrong
  <2> QED BY <2>1, LeastNat
<1>2. PICK s \in Seq(E) : Len(s) = n /\ ~Good(s)
  OBVIOUS
<1>3. s # <<>>
  BY <1>2, KeepEmpty, CountEmpty
<1>4. PICK f \in Seq(E), e \in E : s = Append(f, e)
  BY <1>3, SequenceEmptyOrAppend
<1>5. Len(f) \in Nat /\ Len(f) = n - 1
  BY <1>2, <1>4, AppendProperties
<1>6. Good(f)
  BY <1>1, <1>5
<1>7. Keep(s, S) = IF e \in S THEN Append(Keep(f, S), e) ELSE Keep(f, S)
  BY <1>4, KeepAppend
<1>8. Count(s, x) = Count(f, x) + IF e = x THEN 1 ELSE 0
  BY <1>4, CountAppend
<1>9. Keep(f, S) \in Seq(E)
  BY KeepType
<1>10. Count(Append(Keep(f, S), e), x) = Count(Keep(f, S), x) + IF e = x THEN 1 ELSE 0
  BY <1>9, CountAppend
<1>11. Count(f, x) \in Nat
  BY CountIsNat
<1> QED BY <1>2, <1>6, <1>7, <1>8, <1>10, <1>11

(* RemoveFirst takes one occurrence away.                                  *)
LEMMA RemoveFirstSplits ==
  ASSUME NEW E, NEW s \in Seq(E), NEW e \in ToSet(s)
  PROVE  \E k \in 1..Len(s) : /\ s[k] = e
                              /\ RemoveFirst(s, e) = SubSeq(s, 1, k - 1) \o SubSeq(s, k + 1, Len(s))
<1> DEFINE I == {i \in 1..Len(s) : s[i] = e}
           k == Min(I)
<1>1. Len(s) \in Nat /\ \E i \in 1..Len(s) : s[i] = e
  BY DEF ToSet
<1>2. k \in 1..Len(s) /\ s[k] = e
  <2>1. \E n \in I : \A m \in I : n <= m
    <3>1. I \subseteq Nat /\ I # {}
      BY <1>1
    <3> HIDE DEF I
    <3> QED BY <3>1, LeastNat
  <2>2. k \in I
    BY <2>1 DEF Min
  <2> QED BY <2>2
<1>3. RemoveFirst(s, e) = RemoveAt(s, k)
  BY <1>1 DEF RemoveFirst, SelectInSeq
<1> HIDE DEF k
<1> QED BY <1>2, <1>3 DEF RemoveAt

LEMMA RemoveFirstType ==
  ASSUME NEW E, NEW s \in Seq(E), NEW e
  PROVE  RemoveFirst(s, e) \in Seq(E)
<1>1. CASE e \in ToSet(s)
  <2>1. PICK k \in 1..Len(s) :
          s[k] = e /\ RemoveFirst(s, e) = SubSeq(s, 1, k - 1) \o SubSeq(s, k + 1, Len(s))
    BY <1>1, RemoveFirstSplits
  <2> DEFINE a == SubSeq(s, 1, k - 1)
             b == SubSeq(s, k + 1, Len(s))
  <2>2. a \in Seq(E) /\ b \in Seq(E)
    BY SubSeqProperties
  <2> HIDE DEF a, b
  <2>3. a \o b \in Seq(E)
    BY <2>2
  <2> QED BY <2>1, <2>3 DEF a, b
<1>2. CASE e \notin ToSet(s)
  BY <1>2 DEF RemoveFirst, ToSet
<1> QED BY <1>1, <1>2

LEMMA CountRemoveFirst ==
  ASSUME NEW E, NEW s \in Seq(E), NEW e \in ToSet(s)
  PROVE  \A x : Count(s, x) = Count(RemoveFirst(s, e), x) + IF e = x THEN 1 ELSE 0
<1> TAKE x
<1>1. PICK k \in 1..Len(s) :
        s[k] = e /\ RemoveFirst(s, e) = SubSeq(s, 1, k - 1) \o SubSeq(s, k + 1, Len(s))
  BY RemoveFirstSplits
<1> DEFINE n == Len(s)
           a == SubSeq(s, 1, k - 1)
           b == SubSeq(s, k + 1, n)
           c == SubSeq(s, 1, k)
<1>2. n \in Nat /\ k \in 1..n /\ e \in E /\ RemoveFirst(s, e) = a \o b
  BY <1>1
<1>3. a \in Seq(E) /\ b \in Seq(E) /\ c \in Seq(E)
  <2>1. \A i \in 1..n : s[i] \in E
    OBVIOUS
  <2> QED BY <1>2, <2>1, SubSeqProperties
<1>4. s = c \o b
  <2>1. SubSeq(s, 1, n) = s
    BY SubSeqFull
  <2>2. 1 \in 1..n + 1 /\ k \in 1 - 1..n /\ n \in k..n
    BY <1>2
  <2>3. c \o b = SubSeq(s, 1, n)
    BY <2>2, ConcatAdjacentSubSeq
  <2> QED BY <2>1, <2>3
<1>5. c = a \o <<e>>
  <2>1. 1 \in 1..n /\ k \in 1..n
    BY <1>2
  <2> QED BY <1>1, <2>1, SubSeqRecursiveSecond
<1> HIDE DEF a, b, c, n
<1>6. c = Append(a, e)
  BY <1>2, <1>3, <1>5
<1>7. Count(c, x) = Count(a, x) + IF e = x THEN 1 ELSE 0
  BY <1>2, <1>3, <1>6, CountAppend
<1>8. Count(s, x) = Count(c, x) + Count(b, x) /\ Count(a \o b, x) = Count(a, x) + Count(b, x)
  BY <1>3, <1>4, CountConcat
<1>9. Count(a, x) \in Nat /\ Count(b, x) \in Nat
  BY <1>3, CountIsNat
<1> QED BY <1>2, <1>7, <1>8, <1>9

-------------------------------------------------------------------------------
(* A thread that pushes holds the lock of its node, so a list it walks     *)
(* over does not change, and every subscriber before its iterator had the  *)
(* meta.                                                                   *)
LockInv ==
  \A p \in Pusher : pushing[p] # "none" =>
    LET u == PusherNode[p] IN
    /\ subscribers_lock[u] = p
    /\ cursor[p] >= 1
    /\ \A i \in 1..cursor[p] - 1 :
         i \in DOMAIN subscribers[u] /\ pushing[p] \in ToSet(received[subscribers[u][i]][u])

(* What a node got, or gets, was sent; of the meta that is being pushed    *)
(* there are only copies at the end.                                       *)
OnlyLast(s, m) == \A i, j \in DOMAIN s : i < j /\ s[i] = m => s[j] = m

OrderInv ==
  /\ \A x, u \in Node : ToSet(received[x][u]) \subseteq sent
  /\ \A p \in Pusher : pushing[p] # "none" =>
       pushing[p] \in sent /\ \A x \in Node : OnlyLast(received[x][PusherNode[p]], pushing[p])
  /\ SameOrder

PushInv == TypeOK /\ LockInv /\ OrderInv

(* Only detach_recursively calls a function of a node; where a frame can   *)
(* be.                                                                     *)
ShapeInv ==
  /\ \A i \in 2..Len(stack) : stack[i].fn = "detach_recursively"
  /\ \A i \in 1..Len(stack) : stack[i].at # "loop" => stack[i].fn \in {"attach_to", "detach_recursively"}
  /\ Running("attach_to", "check") => Top.todo # <<>>
  /\ stack # <<>> /\ Top.fn = "attach_to" => Top.node \notin detached /\ doomed = {} /\ Len(stack) = 1
  /\ stack # <<>> /\ Top.fn = "detach_from" => Len(stack) = 1
  /\ stack # <<>> /\ Top.fn = "detach" /\ Len(stack) > 1 =>
       stack[2].at = "next" /\ stack[2].node = Top.node
  /\ \A i \in 2..Len(stack) : stack[i].at = "next" => i = 2 /\ Top.fn = "detach"

(* How the two records of the links from u to n differ while a call runs:  *)
(* attach_to has subscribed and not listed the previous node; detach has   *)
(* unsubscribed all it has not still to visit; detach_from removes every   *)
(* subscription at once, and the entries one by one.                       *)
LinksOf(u, n) ==
  LET S == Count(subscribers[u], n)
      P == Count(pre_nodes[n], u)
  IN  CASE Running("attach_to", "check") /\ n = Top.node /\ u = Head(Top.todo) -> S = P + 1
        [] Running("detach", "loop") /\ n = Top.node -> u \in ToSet(Top.todo) \/ S = 0
        [] Running("detach_from", "loop") /\ n = Top.node ->
             /\ S = P \/ (S = 0 /\ P = Count(Top.todo, u))
             /\ u \in ToSet(Top.todo) => P = Count(Top.todo, u)
        [] OTHER -> S = P

LinkInv ==
  /\ \A u, n \in Node : LinksOf(u, n)
  /\ stack # <<>> /\ Top.fn = "attach_to" => ToSet(Top.todo) \cap Des = {}
  /\ \A n \in detached, u \in Node : Count(subscribers[u], n) = 0

(* The nodes that detach_recursively has still to visit: every node of     *)
(* doomed that somebody subscribes is one or is reached from one.          *)
PendingOf(frame) ==
  IF frame.fn # "detach_recursively" THEN {}
  ELSE IF frame.at = "next" THEN {frame.node} ELSE ToSet(frame.todo)
Pending == UNION {PendingOf(stack[i]) : i \in 1..Len(stack)}

RecursionInv ==
  /\ Closed(doomed)
  /\ \A C \in SUBSET Node :
       Closed(C) /\ Pending \subseteq C => \A u \in Node : NextNodes(u) \cap doomed \subseteq C
  /\ Running("detach_recursively", "next") => \A u \in Node : Top.node \notin NextNodes(u)

-------------------------------------------------------------------------------
(* The stack when the top frame is replaced by one or by three.            *)
LEMMA OneOnTop ==
  ASSUME NEW F, NEW st \in Seq(F), st # <<>>, NEW f \in F
  PROVE  /\ <<f>> \o Tail(st) \in Seq(F) /\ <<f>> \o Tail(st) # <<>>
         /\ Len(<<f>> \o Tail(st)) = Len(st)
         /\ (<<f>> \o Tail(st))[1] = f
         /\ \A i \in 2..Len(st) : (<<f>> \o Tail(st))[i] = st[i]
<1> DEFINE o == <<f>>
           r == Tail(st)
<1>1. o \in Seq(F) /\ Len(o) = 1 /\ o[1] = f
  OBVIOUS
<1>2. r \in Seq(F) /\ Len(r) = Len(st) - 1 /\ Len(st) \in Nat /\ \A i \in 1..Len(st) - 1 : r[i] = st[i + 1]
  BY HeadTailProperties
<1> HIDE DEF o, r
<1>3. /\ o \o r \in Seq(F) /\ Len(o \o r) = 1 + Len(r)
      /\ \A i \in 1..1 + Len(r) : (o \o r)[i] = IF i <= 1 THEN o[i] ELSE r[i - 1]
  <2>1. /\ o \o r \in Seq(F) /\ Len(o \o r) = Len(o) + Len(r)
        /\ \A i \in 1..Len(o) + Len(r) : (o \o r)[i] = IF i <= Len(o) THEN o[i] ELSE r[i - Len(o)]
    <3>1. o \in Seq(F) /\ r \in Seq(F)
      BY <1>1, <1>2
    <3> QED BY <3>1, ConcatProperties
  <2> QED BY <1>1, <2>1
<1>4. ASSUME NEW i \in 2..Len(st) PROVE (o \o r)[i] = st[i]
  <2>1. i - 1 \in 1..Len(st) - 1 /\ (i - 1) + 1 = i /\ ~(i <= 1) /\ i \in 1..1 + Len(r)
    BY <1>2
  <2>2. (o \o r)[i] = r[i - 1]
    BY <1>3, <2>1
  <2> QED BY <1>2, <2>1, <2>2
<1>5. Len(st) >= 1
  BY <1>2
<1>6. (o \o r)[1] = f /\ o \o r # <<>>
  BY <1>1, <1>2, <1>3, <1>5
<1> QED BY <1>2, <1>3, <1>4, <1>6 DEF o, r

LEMMA ThreeOnTop ==
  ASSUME NEW F, NEW st \in Seq(F), st # <<>>, NEW f \in F, NEW g \in F, NEW h \in F
  PROVE  /\ <<f, g, h>> \o Tail(st) \in Seq(F) /\ <<f, g, h>> \o Tail(st) # <<>>
         /\ Len(<<f, g, h>> \o Tail(st)) = Len(st) + 2
         /\ (<<f, g, h>> \o Tail(st))[1] = f
         /\ (<<f, g, h>> \o Tail(st))[2] = g
         /\ (<<f, g, h>> \o Tail(st))[3] = h
         /\ \A i \in 4..Len(st) + 2 : (<<f, g, h>> \o Tail(st))[i] = st[i - 2]
<1> DEFINE o == <<f, g, h>>
           r == Tail(st)
<1>1. o \in Seq(F) /\ Len(o) = 3 /\ o[1] = f /\ o[2] = g /\ o[3] = h
  OBVIOUS
<1>2. r \in Seq(F) /\ Len(r) = Len(st) - 1 /\ Len(st) \in Nat /\ \A i \in 1..Len(st) - 1 : r[i] = st[i + 1]
  BY HeadTailProperties
<1> HIDE DEF o, r
<1>3. /\ o \o r \in Seq(F) /\ Len(o \o r) = 3 + Len(r)
      /\ \A i \in 1..3 + Len(r) : (o \o r)[i] = IF i <= 3 THEN o[i] ELSE r[i - 3]
  <2>1. /\ o \o r \in Seq(F) /\ Len(o \o r) = Len(o) + Len(r)
        /\ \A i \in 1..Len(o) + Len(r) : (o \o r)[i] = IF i <= Len(o) THEN o[i] ELSE r[i - Len(o)]
    <3>1. o \in Seq(F) /\ r \in Seq(F)
      BY <1>1, <1>2
    <3> QED BY <3>1, ConcatProperties
  <2> QED BY <1>1, <2>1
<1>4. ASSUME NEW i \in 4..Len(st) + 2 PROVE (o \o r)[i] = st[i - 2]
  <2>1. i - 3 \in 1..Len(st) - 1 /\ (i - 3) + 1 = i - 2 /\ ~(i <= 3) /\ i \in 1..3 + Len(r)
    BY <1>2
  <2>2. (o \o r)[i] = r[i - 3]
    BY <1>3, <2>1
  <2> QED BY <1>2, <2>1, <2>2
<1>5. Len(r) \in Nat
  BY <1>2
<1>6. (o \o r)[1] = f /\ (o \o r)[2] = g /\ (o \o r)[3] = h /\ o \o r # <<>>
  BY <1>1, <1>3, <1>5
<1> QED BY <1>2, <1>3, <1>4, <1>6 DEF o, r

(* A frame of the right kind.                                              *)
LEMMA TopIsFrame ==
  ASSUME TypeOK, stack # <<>>
  PROVE  /\ Top \in Frames /\ Top.node \in Node /\ Top.todo \in Seq(Node)
         /\ Tail(stack) \in Seq(Frames) /\ Len(stack) \in Nat /\ Len(stack) >= 1
         /\ Top.todo # <<>> => Head(Top.todo) \in Node /\ Tail(Top.todo) \in Seq(Node)
<1>1. Top \in Frames /\ Tail(stack) \in Seq(Frames) /\ Len(stack) \in Nat /\ Len(stack) >= 1
  BY DEF TypeOK, Top
<1> QED BY <1>1 DEF Frames

(* The types.                                                              *)
LEMMA PushKeepsTypes ==
  ASSUME TypeOK, LockInv, NEW p \in Pusher,
         Push(p) \/ \E m \in MetasOf[p] : PushBegin(p, m)
  PROVE  TypeOK'
<1>1. PusherNode[p] \in Node /\ MetasOf[p] \subseteq Meta
  BY TopologyAssumption
<1>2. ASSUME NEW m \in MetasOf[p], PushBegin(p, m) PROVE TypeOK'
  BY <1>1, <1>2 DEF TypeOK, PushBegin, graphVars
<1>3. ASSUME Deliver(p) PROVE TypeOK'
  <2> DEFINE u == PusherNode[p]
             x == subscribers[u][cursor[p]]
  <2>1. pushing[p] \in Meta /\ cursor[p] \in Nat /\ u \in Node
    BY <1>1, <1>3 DEF TypeOK, Deliver
  <2>2. /\ cursor' = [cursor EXCEPT ![p] = @ + 1]
        /\ received' = [received EXCEPT ![x][u] = Append(@, pushing[p])]
        /\ UNCHANGED <<subscribers, pre_nodes, subscribers_lock, pushing, sent, stack, detached, doomed>>
    BY <1>3 DEF Deliver, graphVars
  <2>3. x \in Node
    <3>1. cursor[p] >= 1 /\ cursor[p] <= Len(subscribers[u])
      BY <1>3 DEF LockInv, Deliver
    <3> QED BY <2>1, <3>1 DEF TypeOK
  <2> HIDE DEF x, u
  <2>4. received[x] \in [Node -> Seq(Meta)] /\ Append(received[x][u], pushing[p]) \in Seq(Meta)
    BY <2>1, <2>3 DEF TypeOK
  <2>5. received' \in [Node -> [Node -> Seq(Meta)]]
    BY <2>1, <2>2, <2>3, <2>4 DEF TypeOK
  <2>6. cursor' \in [Pusher -> Nat]
    BY <2>1, <2>2 DEF TypeOK
  <2> QED BY <2>2, <2>5, <2>6 DEF TypeOK
<1>4. ASSUME PushEnd(p) PROVE TypeOK'
  BY <1>1, <1>4 DEF TypeOK, PushEnd, graphVars
<1> QED BY <1>2, <1>3, <1>4 DEF Push

(* A frame of a call, the new stack, and the new list of a node.           *)
LEMMA FrameType ==
  ASSUME NEW fn \in {"attach_to", "detach", "detach_from", "detach_recursively"}, NEW n \in Node,
         NEW at \in {"loop", "check", "next"}, NEW todo \in Seq(Node)
  PROVE  /\ Frame(fn, n, at, todo) \in Frames
         /\ Frame(fn, n, at, todo).fn = fn /\ Frame(fn, n, at, todo).node = n
         /\ Frame(fn, n, at, todo).at = at /\ Frame(fn, n, at, todo).todo = todo
BY DEF Frame, Frames

(* The frames that detach_recursively pushes for a next node.              *)
LEMMA RecurseFrames ==
  ASSUME TypeOK, NEW n \in Node
  PROVE  /\ Frame("detach", n, "loop", pre_nodes[n]) \in Frames
         /\ Frame("detach_recursively", n, "next", <<>>) \in Frames
<1>1. pre_nodes[n] \in Seq(Node)
  BY DEF TypeOK
<1>2. \A list \in Seq(Node) : Frame("detach", n, "loop", list) \in Frames
  BY FrameType
<1>3. <<>> \in Seq(Node)
  OBVIOUS
<1>4. \A list \in Seq(Node) : Frame("detach_recursively", n, "next", list) \in Frames
  BY FrameType
<1>5. Frame("detach_recursively", n, "next", <<>>) \in Frames
  BY <1>3, <1>4, Zenon
<1> QED BY <1>1, <1>2, <1>5, Zenon

LEMMA RemoveType ==
  ASSUME TypeOK, NEW u \in Node, NEW n \in Node, RemoveSubscriber(u, n)
  PROVE  /\ subscribers' \in [Node -> Seq(Node)]
         /\ subscribers_lock[u] = "free"
         /\ \A x \in Node : x # u => subscribers'[x] = subscribers[x]
         /\ \A x \in Node : Count(subscribers'[u], x) = IF x = n THEN 0 ELSE Count(subscribers[u], x)
<1>1. subscribers' = [subscribers EXCEPT ![u] = Keep(@, Node \ {n})]
  BY DEF RemoveSubscriber
<1>2. subscribers[u] \in Seq(Node)
  BY DEF TypeOK
<1>3. Keep(subscribers[u], Node \ {n}) \in Seq(Node)
  BY <1>2, KeepType
<1>4. ASSUME NEW x \in Node
      PROVE  Count(Keep(subscribers[u], Node \ {n}), x) = IF x = n THEN 0 ELSE Count(subscribers[u], x)
  BY <1>2, CountKeep
<1>5. subscribers'[u] = Keep(subscribers[u], Node \ {n})
  BY <1>1 DEF TypeOK
<1> QED BY <1>1, <1>3, <1>4, <1>5 DEF TypeOK, RemoveSubscriber

LEMMA AddType ==
  ASSUME TypeOK, NEW u \in Node, NEW n \in Node, AddSubscriber(u, n)
  PROVE  /\ subscribers' \in [Node -> Seq(Node)]
         /\ subscribers_lock[u] = "free"
         /\ \A x \in Node : x # u => subscribers'[x] = subscribers[x]
         /\ \A x \in Node :
              Count(subscribers'[u], x) = Count(subscribers[u], x) + IF x = n THEN 1 ELSE 0
<1>1. subscribers' = [subscribers EXCEPT ![u] = Append(@, n)] /\ subscribers[u] \in Seq(Node)
  BY DEF AddSubscriber, TypeOK
<1>2. subscribers'[u] = Append(subscribers[u], n)
  BY <1>1 DEF TypeOK
<1>3. ASSUME NEW x \in Node
      PROVE  Count(subscribers'[u], x) = Count(subscribers[u], x) + IF x = n THEN 1 ELSE 0
  BY <1>1, <1>2, CountAppend
<1> QED BY <1>1, <1>3 DEF TypeOK, AddSubscriber

LEMMA CallsKeepTypes == ASSUME TypeOK, stack = <<>>, Calls PROVE TypeOK'
<1> USE DEF TypeOK, Call, graphVars, pushVars
<1>1. ASSUME NEW f \in Frames PROVE <<f>> \o <<>> \in Seq(Frames)
  OBVIOUS
<1>2. ASSUME NEW n \in Node, NEW list \in AttachLists[n], CallAttachTo(n, list) PROVE TypeOK'
  <2>1. list \in Seq(Node)
    BY TopologyAssumption
  <2>2. Frame("attach_to", n, "loop", list) \in Frames
    BY <2>1, FrameType
  <2> QED BY <1>1, <1>2, <2>2 DEF CallAttachTo
<1>3. ASSUME NEW n \in Node, CallDetach(n) PROVE TypeOK'
  <2>1. Frame("detach", n, "loop", pre_nodes[n]) \in Frames
    BY FrameType
  <2> QED BY <1>1, <1>3, <2>1 DEF CallDetach
<1>4. ASSUME NEW n \in Node, NEW names \in SUBSET Node, CallDetachFrom(n, names) PROVE TypeOK'
  <2>1. Keep(pre_nodes[n], names) \in Seq(Node)
    BY KeepType
  <2>2. Frame("detach_from", n, "loop", Keep(pre_nodes[n], names)) \in Frames
    BY <2>1, FrameType
  <2> QED BY <1>1, <1>4, <2>2 DEF CallDetachFrom
<1>5. ASSUME NEW n \in Node, CallDetachRecursively(n) PROVE TypeOK'
  <2>1. Frame("detach", n, "loop", pre_nodes[n]) \in Frames /\ Frame("detach_recursively", n, "next", <<>>) \in Frames
    BY RecurseFrames, Zenon
  <2>2. Below(n) \subseteq Node
    BY DEF Below
  <2> QED BY <1>5, <2>1, <2>2 DEF CallDetachRecursively
<1> QED BY <1>2, <1>3, <1>4, <1>5 DEF Calls

LEMMA GraphKeepsTypes == ASSUME TypeOK, ShapeInv, GraphThread PROVE TypeOK'
<1>1. ASSUME stack # <<>>, NEW f \in Frames, stack' = <<f>> \o Tail(stack) PROVE stack' \in Seq(Frames)
  BY <1>1, OneOnTop DEF TypeOK
<1>2. ASSUME stack # <<>>, stack' = Tail(stack) PROVE stack' \in Seq(Frames)
  BY <1>2, TopIsFrame
<1>3. CASE AttachSubscribe
  <2>1. stack # <<>> /\ Top.todo # <<>> /\ AddSubscriber(Head(Top.todo), Top.node)
    BY <1>3 DEF AttachSubscribe, Running
  <2>2. [Top EXCEPT !.at = "check"] \in Frames
    BY <2>1, TopIsFrame DEF Frames
  <2>3. subscribers' \in [Node -> Seq(Node)]
    BY <2>1, TopIsFrame, AddType
  <2>4. stack' \in Seq(Frames)
    BY <1>1, <1>3, <2>1, <2>2 DEF AttachSubscribe, Replace
  <2> QED BY <1>3, <2>3, <2>4 DEF AttachSubscribe, TypeOK, pushVars
<1>4. CASE AttachCheck
  <2>1. stack # <<>>
    BY <1>4 DEF AttachCheck, Running
  <2>2. CASE Head(Top.todo) \in Des
    BY <1>4, <2>2 DEF AttachCheck, Throw, TypeOK, pushVars
  <2>3. CASE Head(Top.todo) \notin Des
    <3>1. [Top EXCEPT !.at = "loop", !.todo = Tail(@)] \in Frames /\ Head(Top.todo) \in Node
      BY <1>4, <2>1, TopIsFrame DEF AttachCheck, ShapeInv, Frames
    <3>2. stack' \in Seq(Frames)
      BY <1>1, <1>4, <2>1, <2>3, <3>1 DEF AttachCheck, Replace
    <3>3. pre_nodes' \in [Node -> Seq(Node)]
      <4>1. pre_nodes' = [pre_nodes EXCEPT ![Top.node] = Append(@, Head(Top.todo))]
        BY <1>4, <2>3 DEF AttachCheck
      <4>2. Top.node \in Node
        BY <2>1, TopIsFrame
      <4> QED BY <3>1, <4>1, <4>2 DEF TypeOK
    <3> QED BY <1>4, <3>2, <3>3 DEF AttachCheck, TypeOK, pushVars
  <2> QED BY <2>2, <2>3
<1>5. CASE AttachReturn \/ DetachFromReturn \/ RecurseReturn
  BY <1>2, <1>5 DEF AttachReturn, DetachFromReturn, RecurseReturn, Running, Return, TypeOK, pushVars, graphVars
<1>6. CASE DetachUnsubscribe \/ DetachFromErase
  <2>1. stack # <<>> /\ Top.todo # <<>> /\ RemoveSubscriber(Head(Top.todo), Top.node)
    BY <1>6 DEF DetachUnsubscribe, DetachFromErase, Running
  <2>2. [Top EXCEPT !.todo = Tail(@)] \in Frames
    BY <2>1, TopIsFrame DEF Frames
  <2>3. subscribers' \in [Node -> Seq(Node)]
    BY <2>1, TopIsFrame, RemoveType
  <2>4. stack' \in Seq(Frames)
    BY <1>1, <1>6, <2>1, <2>2 DEF DetachUnsubscribe, DetachFromErase, Replace
  <2>5. pre_nodes' \in [Node -> Seq(Node)]
    <3>1. CASE DetachUnsubscribe
      BY <3>1 DEF DetachUnsubscribe, TypeOK
    <3>2. CASE DetachFromErase
      <4>1. pre_nodes[Top.node] \in Seq(Node) /\ Head(Top.todo) \in Node /\ Top.node \in Node
        BY <2>1, TopIsFrame DEF TypeOK
      <4>2. RemoveFirst(pre_nodes[Top.node], Head(Top.todo)) \in Seq(Node)
        BY <4>1, RemoveFirstType
      <4> QED BY <3>2, <4>1, <4>2 DEF DetachFromErase, TypeOK
    <3> QED BY <1>6, <3>1, <3>2
  <2> QED BY <1>6, <2>3, <2>4, <2>5 DEF DetachUnsubscribe, DetachFromErase, TypeOK, pushVars
<1>7. CASE DetachReturn
  <2>1. stack # <<>> /\ Return
    BY <1>7 DEF DetachReturn, Running
  <2>2. Top.node \in Node /\ stack' \in Seq(Frames)
    BY <1>2, <2>1, TopIsFrame DEF Return
  <2> QED BY <1>7, <2>2 DEF DetachReturn, TypeOK, pushVars
<1>8. CASE RecurseNextNodes
  <2>1. stack # <<>>
    BY <1>8 DEF RecurseNextNodes, Running
  <2>2. [Top EXCEPT !.at = "loop", !.todo = subscribers[Top.node]] \in Frames
    BY <2>1, TopIsFrame DEF Frames, TypeOK
  <2> QED BY <1>1, <1>8, <2>1, <2>2 DEF RecurseNextNodes, Replace, TypeOK, pushVars, graphVars
<1>9. CASE Recurse
  <2> DEFINE n == Head(Top.todo)
             f == Frame("detach", n, "loop", pre_nodes[n])
             g == Frame("detach_recursively", n, "next", <<>>)
             h == [Top EXCEPT !.todo = Tail(@)]
  <2>1. stack # <<>> /\ Top.todo # <<>> /\ stack' = <<f, g, h>> \o Tail(stack)
    BY <1>9 DEF Recurse, Running
  <2>2. n \in Node /\ h \in Frames
    BY <2>1, TopIsFrame DEF Frames
  <2>4. f \in Frames /\ g \in Frames
    BY <2>2, RecurseFrames, Zenon
  <2> HIDE DEF f, g, h
  <2>5. stack' \in Seq(Frames)
    BY <2>1, <2>2, <2>4, ThreeOnTop DEF TypeOK
  <2> QED BY <1>9, <2>5 DEF Recurse, TypeOK, pushVars, graphVars
<1> QED BY <1>3, <1>4, <1>5, <1>6, <1>7, <1>8, <1>9 DEF GraphThread

-------------------------------------------------------------------------------
(* Pushing.  The thread that changes the graph leaves the lists alone that *)
(* are walked over.                                                        *)
LEMMA GraphLeavesWalks ==
  ASSUME TypeOK, Calls \/ GraphThread
  PROVE  /\ UNCHANGED pushVars
         /\ \A u \in Node : subscribers_lock[u] # "free" => subscribers'[u] = subscribers[u]
<1>1. CASE AttachSubscribe
  <2>1. Top.node \in Node /\ Head(Top.todo) \in Node /\ AddSubscriber(Head(Top.todo), Top.node)
    BY <1>1, TopIsFrame DEF AttachSubscribe, Running
  <2> QED BY <1>1, <2>1, AddType DEF AttachSubscribe
<1>2. CASE DetachUnsubscribe \/ DetachFromErase
  <2>1. Top.node \in Node /\ Head(Top.todo) \in Node /\ RemoveSubscriber(Head(Top.todo), Top.node)
    BY <1>2, TopIsFrame DEF DetachUnsubscribe, DetachFromErase, Running
  <2> QED BY <1>2, <2>1, RemoveType DEF DetachUnsubscribe, DetachFromErase
<1>3. CASE AttachCheck \/ AttachReturn \/ DetachReturn \/ DetachFromReturn
  BY <1>3 DEF AttachCheck, AttachReturn, DetachReturn, DetachFromReturn, graphVars
<1>4. CASE RecurseNextNodes \/ Recurse \/ RecurseReturn
  BY <1>4 DEF RecurseNextNodes, Recurse, RecurseReturn, graphVars
<1>5. CASE Calls
  BY <1>5 DEF Calls, CallAttachTo, CallDetach, CallDetachFrom, CallDetachRecursively, graphVars
<1> QED BY <1>1, <1>2, <1>3, <1>4, <1>5 DEF GraphThread

LEMMA GraphKeepsPushes ==
  ASSUME TypeOK, LockInv, OrderInv, Calls \/ GraphThread
  PROVE  LockInv' /\ OrderInv'
<1>1. /\ UNCHANGED <<subscribers_lock, pushing, cursor, sent, received>>
      /\ \A u \in Node : subscribers_lock[u] # "free" => subscribers'[u] = subscribers[u]
  BY GraphLeavesWalks DEF pushVars
<1>2. LockInv'
  <2> SUFFICES ASSUME NEW p \in Pusher, pushing[p] # "none"
               PROVE  LET u == PusherNode[p] IN
                      /\ subscribers_lock[u] = p
                      /\ cursor[p] >= 1
                      /\ \A i \in 1..cursor[p] - 1 :
                           i \in DOMAIN subscribers'[u] /\ pushing[p] \in ToSet(received[subscribers'[u][i]][u])
    BY <1>1 DEF LockInv
  <2>1. subscribers'[PusherNode[p]] = subscribers[PusherNode[p]]
    BY <1>1, TopologyAssumption DEF LockInv
  <2> QED BY <2>1 DEF LockInv
<1>3. OrderInv'
  BY <1>1 DEF OrderInv, SameOrder
<1> QED BY <1>2, <1>3

(* Two threads that push for one node are one thread.                      *)
LEMMA OnePusher ==
  ASSUME LockInv, NEW p \in Pusher, NEW q \in Pusher,
         pushing[p] # "none", pushing[q] # "none", PusherNode[p] = PusherNode[q]
  PROVE  p = q
BY DEF LockInv

LEMMA BeginKeepsPushes ==
  ASSUME TypeOK, LockInv, OrderInv, NEW p \in Pusher, NEW m \in MetasOf[p], PushBegin(p, m)
  PROVE  LockInv' /\ OrderInv'
<1> DEFINE u == PusherNode[p]
<1>1. u \in Node /\ m \in Meta
  BY TopologyAssumption
<1>2. /\ pushing[p] = "none" /\ m \notin sent /\ subscribers_lock[u] = "free"
      /\ sent' = sent \cup {m}
      /\ subscribers_lock' = [subscribers_lock EXCEPT ![u] = p]
      /\ pushing' = [pushing EXCEPT ![p] = m]
      /\ cursor' = [cursor EXCEPT ![p] = 1]
      /\ UNCHANGED <<received, subscribers>>
  BY DEF PushBegin, graphVars
<1>3. ASSUME NEW q \in Pusher, q # p, pushing[q] # "none"
      PROVE  PusherNode[q] # u /\ pushing'[q] = pushing[q] /\ cursor'[q] = cursor[q]
  <2>1. subscribers_lock[PusherNode[q]] = q /\ q # "free"
    BY <1>3, TopologyAssumption DEF LockInv
  <2>2. pushing'[q] = pushing[q] /\ cursor'[q] = cursor[q]
    BY <1>2, <1>3 DEF TypeOK
  <2> QED BY <1>2, <2>1, <2>2
<1>4. pushing'[p] = m /\ cursor'[p] = 1 /\ subscribers_lock'[u] = p
  BY <1>1, <1>2 DEF TypeOK
<1>5. \A q \in Pusher : pushing'[q] # "none" => q = p \/ (q # p /\ pushing[q] # "none")
  BY <1>2 DEF TypeOK
<1>6. LockInv'
  <2> SUFFICES ASSUME NEW q \in Pusher, pushing'[q] # "none"
               PROVE  LET v == PusherNode[q] IN
                      /\ subscribers_lock'[v] = q
                      /\ cursor'[q] >= 1
                      /\ \A i \in 1..cursor'[q] - 1 :
                           i \in DOMAIN subscribers[v] /\ pushing'[q] \in ToSet(received[subscribers[v][i]][v])
    BY <1>2 DEF LockInv
  <2>1. CASE q = p
    BY <1>4, <2>1
  <2>2. CASE q # p
    <3>1. pushing[q] # "none"
      BY <1>5, <2>2
    <3>2. PusherNode[q] # u /\ pushing'[q] = pushing[q] /\ cursor'[q] = cursor[q]
      BY <1>3, <2>2, <3>1
    <3>3. subscribers_lock'[PusherNode[q]] = subscribers_lock[PusherNode[q]]
      BY <1>2, <3>2, TopologyAssumption DEF TypeOK
    <3> QED BY <3>1, <3>2, <3>3 DEF LockInv
  <2> QED BY <2>1, <2>2
<1>7. \A x \in Node : OnlyLast(received[x][u], m)
  BY <1>1, <1>2 DEF OrderInv, OnlyLast, ToSet
<1>8. OrderInv'
  <2>1. \A x, v \in Node : ToSet(received[x][v]) \subseteq sent'
    BY <1>2 DEF OrderInv
  <2>2. ASSUME NEW q \in Pusher, pushing'[q] # "none"
        PROVE  pushing'[q] \in sent' /\ \A x \in Node : OnlyLast(received[x][PusherNode[q]], pushing'[q])
    <3>1. CASE q = p
      BY <1>2, <1>4, <1>7, <3>1
    <3>2. CASE q # p
      <4>1. pushing[q] # "none" /\ pushing'[q] = pushing[q]
        BY <1>3, <1>5, <2>2, <3>2
      <4> QED BY <1>2, <4>1 DEF OrderInv
    <3> QED BY <3>1, <3>2
  <2> QED BY <1>2, <2>1, <2>2 DEF OrderInv, SameOrder
<1> QED BY <1>6, <1>8

LEMMA EndKeepsPushes ==
  ASSUME TypeOK, LockInv, OrderInv, NEW p \in Pusher, PushEnd(p)
  PROVE  LockInv' /\ OrderInv'
<1> DEFINE u == PusherNode[p]
<1>1. /\ pushing[p] # "none"
      /\ subscribers_lock' = [subscribers_lock EXCEPT ![u] = "free"]
      /\ pushing' = [pushing EXCEPT ![p] = "none"]
      /\ cursor' = [cursor EXCEPT ![p] = 0]
      /\ UNCHANGED <<received, subscribers, sent>>
  BY DEF PushEnd, graphVars
<1>2. ASSUME NEW q \in Pusher, pushing'[q] # "none"
      PROVE  /\ pushing[q] # "none" /\ pushing'[q] = pushing[q] /\ cursor'[q] = cursor[q]
             /\ subscribers_lock'[PusherNode[q]] = subscribers_lock[PusherNode[q]]
  <2>1. q # p /\ pushing[q] # "none" /\ pushing'[q] = pushing[q] /\ cursor'[q] = cursor[q]
    BY <1>1, <1>2 DEF TypeOK
  <2>2. PusherNode[q] # u
    BY <1>1, <2>1, OnePusher
  <2> QED BY <1>1, <2>1, <2>2, TopologyAssumption DEF TypeOK
<1>3. LockInv'
  BY <1>1, <1>2 DEF LockInv
<1>4. OrderInv'
  BY <1>1, <1>2 DEF OrderInv, SameOrder
<1> QED BY <1>3, <1>4

(* A meta more in front of nothing but its own copies.                     *)
LEMMA OnlyLastAppend ==
  ASSUME NEW E, NEW s \in Seq(E), NEW m \in E, OnlyLast(s, m)
  PROVE  /\ OnlyLast(Append(s, m), m)
         /\ ToSet(Append(s, m)) = ToSet(s) \cup {m}
         /\ \A a, b : a # b /\ Before(Append(s, m), a, b) => a # m /\ (Before(s, a, b) \/ b = m)
<1> DEFINE t == Append(s, m)
           n == Len(s) + 1
<1>1. /\ DOMAIN t = 1..n /\ DOMAIN s = 1..n - 1 /\ n \in Nat /\ n >= 1
      /\ t[n] = m /\ \A i \in 1..n - 1 : t[i] = s[i]
  OBVIOUS
<1> HIDE DEF t, n
<1>2. OnlyLast(t, m)
  <2> SUFFICES ASSUME NEW i \in 1..n, NEW j \in 1..n, i < j, t[i] = m PROVE t[j] = m
    BY <1>1 DEF OnlyLast
  <2>1. CASE j = n
    BY <1>1, <2>1
  <2>2. CASE j # n
    <3>1. i \in 1..n - 1 /\ j \in 1..n - 1
      BY <1>1, <2>2
    <3> QED BY <1>1, <3>1 DEF OnlyLast
  <2> QED BY <2>1, <2>2
<1>3. ToSet(t) = ToSet(s) \cup {m}
  <2>1. 1..n = (1..n - 1) \cup {n}
    BY <1>1
  <2>2. ASSUME NEW e \in ToSet(t) PROVE e \in ToSet(s) \cup {m}
    BY <1>1, <2>1 DEF ToSet
  <2>3. ASSUME NEW e \in ToSet(s) PROVE e \in ToSet(t)
    BY <1>1, <2>1 DEF ToSet
  <2>4. m \in ToSet(t)
    BY <1>1, <2>1 DEF ToSet
  <2> QED BY <2>2, <2>3, <2>4
<1>4. ASSUME NEW a, NEW b, a # b, Before(t, a, b) PROVE a # m /\ (Before(s, a, b) \/ b = m)
  <2>1. PICK i, j \in 1..n : i < j /\ t[i] = a /\ t[j] = b
    BY <1>1, <1>4 DEF Before
  <2>2. i \in 1..n - 1 /\ s[i] = a
    BY <1>1, <2>1
  <2>3. a # m
    BY <1>1, <1>2, <1>4, <2>1 DEF OnlyLast
  <2>4. CASE j = n
    BY <1>1, <2>1, <2>3, <2>4
  <2>5. CASE j # n
    <3>1. j \in 1..n - 1 /\ s[j] = b
      BY <1>1, <2>1, <2>5
    <3> QED BY <1>1, <2>1, <2>2, <2>3, <3>1 DEF Before
  <2> QED BY <2>4, <2>5
<1> QED BY <1>2, <1>3, <1>4 DEF t

LEMMA DeliverKeepsPushes ==
  ASSUME TypeOK, LockInv, OrderInv, NEW p \in Pusher, Deliver(p)
  PROVE  LockInv' /\ OrderInv'
<1> DEFINE u == PusherNode[p]
           m == pushing[p]
           x == subscribers[u][cursor[p]]
<1>1. /\ m # "none" /\ cursor[p] <= Len(subscribers[u])
      /\ received' = [received EXCEPT ![x][u] = Append(@, m)]
      /\ cursor' = [cursor EXCEPT ![p] = @ + 1]
      /\ UNCHANGED <<subscribers_lock, pushing, sent, subscribers>>
  BY DEF Deliver, graphVars
<1>2. u \in Node /\ m \in Meta /\ cursor[p] \in 1..Len(subscribers[u]) /\ x \in Node
  <2>1. u \in Node /\ m \in Meta
    BY <1>1, TopologyAssumption DEF TypeOK
  <2>2. cursor[p] \in Nat /\ cursor[p] >= 1 /\ subscribers[u] \in Seq(Node)
    BY <1>1, <2>1 DEF TypeOK, LockInv
  <2>3. cursor[p] \in 1..Len(subscribers[u])
    <3> HIDE DEF u
    <3>1. cursor[p] <= Len(subscribers[u])
      BY <1>1, Zenon
    <3>2. Len(subscribers[u]) \in Nat
      BY <2>2
    <3> QED BY <2>2, <3>1, <3>2
  <2>4. x \in Node
    <3> DEFINE s == subscribers[u]
    <3>1. s \in Seq(Node) /\ cursor[p] \in 1..Len(s)
      BY <2>2, <2>3
    <3> HIDE DEF s
    <3>2. s[cursor[p]] \in Node
      BY <3>1
    <3> QED BY <3>2 DEF s
  <2> QED BY <2>1, <2>3, <2>4
<1> DEFINE k == cursor[p]
<1>3. k \in DOMAIN subscribers[u] /\ subscribers[u][k] = x /\ cursor'[p] = k + 1 /\ k \in Nat
  BY <1>1, <1>2 DEF TypeOK
<1> HIDE DEF x, k
<1>4. \A y, v \in Node : received'[y][v] = IF y = x /\ v = u THEN Append(received[y][v], m) ELSE received[y][v]
  BY <1>1, <1>2 DEF TypeOK
<1>5. \A y, v \in Node : received[y][v] \in Seq(Meta)
  BY DEF TypeOK
<1>6. /\ OnlyLast(received'[x][u], m)
      /\ ToSet(received'[x][u]) = ToSet(received[x][u]) \cup {m}
      /\ \A a, b : a # b /\ Before(received'[x][u], a, b) => a # m /\ (Before(received[x][u], a, b) \/ b = m)
  <2>1. OnlyLast(received[x][u], m) /\ received[x][u] \in Seq(Meta)
    BY <1>1, <1>2, <1>5 DEF OrderInv
  <2>2. received'[x][u] = Append(received[x][u], m)
    BY <1>2, <1>4
  <2> QED BY <1>2, <2>1, <2>2, OnlyLastAppend
<1>7. \A y, v \in Node : ToSet(received[y][v]) \subseteq ToSet(received'[y][v])
  BY <1>2, <1>4, <1>6
<1>8. LockInv'
  <2> SUFFICES ASSUME NEW q \in Pusher, pushing[q] # "none"
               PROVE  LET v == PusherNode[q] IN
                      /\ subscribers_lock[v] = q
                      /\ cursor'[q] >= 1
                      /\ \A i \in 1..cursor'[q] - 1 :
                           i \in DOMAIN subscribers[v] /\ pushing[q] \in ToSet(received'[subscribers[v][i]][v])
    BY <1>1 DEF LockInv
  <2> DEFINE v == PusherNode[q]
  <2>1. /\ subscribers_lock[v] = q /\ cursor[q] >= 1
        /\ \A i \in 1..cursor[q] - 1 :
             i \in DOMAIN subscribers[v] /\ pushing[q] \in ToSet(received[subscribers[v][i]][v])
    BY DEF LockInv
  <2>2. v \in Node /\ subscribers[v] \in Seq(Node)
    BY TopologyAssumption DEF TypeOK
  <2> HIDE DEF v
  <2>3. ASSUME NEW i \in 1..cursor[q] - 1
        PROVE  i \in DOMAIN subscribers[v] /\ pushing[q] \in ToSet(received'[subscribers[v][i]][v])
    <3>1. i \in DOMAIN subscribers[v] /\ pushing[q] \in ToSet(received[subscribers[v][i]][v])
      BY <2>1
    <3>2. subscribers[v][i] \in Node
      BY <2>2, <3>1
    <3> QED BY <1>7, <2>2, <3>1, <3>2
  <2>4. CASE q # p
    <3>1. cursor'[q] = cursor[q]
      BY <1>1, <2>4 DEF TypeOK
    <3> QED BY <2>1, <2>3, <3>1 DEF v
  <2>5. CASE q = p
    <3>1. cursor'[q] = k + 1 /\ cursor[q] = k /\ v = u /\ pushing[q] = m
      BY <1>3, <2>5 DEF k, v
    <3>2. ASSUME NEW i \in 1..k
          PROVE  i \in DOMAIN subscribers[v] /\ pushing[q] \in ToSet(received'[subscribers[v][i]][v])
      <4>1. CASE i = k
        BY <1>3, <1>6, <3>1, <4>1
      <4>2. CASE i # k
        <5>1. i \in 1..cursor[q] - 1
          BY <1>3, <3>1, <4>2
        <5> QED BY <2>3, <5>1
      <4> QED BY <4>1, <4>2
    <3>3. (k + 1) - 1 = k /\ k + 1 >= 1
      BY <1>3
    <3> QED BY <2>1, <3>1, <3>2, <3>3 DEF v
  <2> QED BY <2>4, <2>5
<1>9. \A y, v \in Node : ToSet(received'[y][v]) \subseteq sent'
  <2>1. m \in sent
    BY <1>1 DEF OrderInv
  <2> QED BY <1>1, <1>4, <1>6, <2>1 DEF OrderInv
<1>10. ASSUME NEW q \in Pusher, pushing[q] # "none", NEW y \in Node
       PROVE  OnlyLast(received'[y][PusherNode[q]], pushing[q])
  <2>1. PusherNode[q] \in Node /\ OnlyLast(received[y][PusherNode[q]], pushing[q])
    BY <1>10, TopologyAssumption DEF OrderInv
  <2>2. CASE PusherNode[q] = u
    <3>1. q = p
      BY <1>1, <1>10, <2>2, OnePusher
    <3> QED BY <1>2, <1>4, <1>6, <2>1, <3>1
  <2>3. CASE PusherNode[q] # u
    BY <1>4, <2>1, <2>3
  <2> QED BY <2>2, <2>3
<1>11. \A y \in Node : OnlyLast(received'[y][u], m)
  BY <1>1, <1>10
<1>12. ASSUME NEW v \in Node, NEW y \in Node, NEW z \in Node, NEW a \in Meta, NEW b \in Meta,
              a # b, Before(received'[y][v], a, b), Before(received'[z][v], b, a)
       PROVE  FALSE
  <2>1. ~(Before(received[y][v], a, b) /\ Before(received[z][v], b, a))
    BY <1>12 DEF OrderInv, SameOrder
  <2>2. v = u
    BY <1>4, <1>12, <2>1
  <2>3. \A w \in Node, d \in Meta : d # m => ~Before(received'[w][u], m, d)
    BY <1>11 DEF OnlyLast, Before
  <2>4. a # m /\ b # m
    BY <1>12, <2>2, <2>3
  <2>5. Before(received[y][v], a, b)
    BY <1>4, <1>6, <1>12, <2>2, <2>4
  <2>6. Before(received[z][v], b, a)
    BY <1>4, <1>6, <1>12, <2>2, <2>4
  <2> QED BY <2>1, <2>5, <2>6
<1>13. OrderInv'
  <2>1. SameOrder'
    BY <1>12 DEF SameOrder
  <2> QED BY <1>1, <1>9, <1>10, <2>1 DEF OrderInv
<1> QED BY <1>8, <1>13

(* The invariants of pushing and the shape of the stack, which the types   *)
(* need.                                                                   *)
LEMMA ShapeStep ==
  ASSUME TypeOK, ShapeInv, [Next]_vars
  PROVE  ShapeInv'
<1> DEFINE F == Frames
<1>1. CASE UNCHANGED vars
  BY <1>1 DEF ShapeInv, vars, Running, Top
<1>2. CASE \E p \in Pusher : Push(p) \/ \E m \in MetasOf[p] : PushBegin(p, m)
  <2>1. UNCHANGED <<stack, detached, doomed>>
    BY <1>2 DEF Push, PushBegin, Deliver, PushEnd, graphVars
  <2> QED BY <2>1 DEF ShapeInv, Running, Top
<1>3. ASSUME stack = <<>>, NEW n \in Node, NEW list \in AttachLists[n], CallAttachTo(n, list) PROVE ShapeInv'
  <2>1. stack' = <<Frame("attach_to", n, "loop", list)>> /\ n \notin detached' /\ doomed' = {}
    BY <1>3 DEF CallAttachTo, Call
  <2> QED BY <2>1 DEF ShapeInv, Running, Top, Frame
<1>4. ASSUME stack = <<>>, NEW n \in Node, CallDetach(n) PROVE ShapeInv'
  <2>1. stack' = <<Frame("detach", n, "loop", pre_nodes[n])>>
    BY <1>4 DEF CallDetach, Call
  <2> QED BY <2>1 DEF ShapeInv, Running, Top, Frame
<1>5. ASSUME stack = <<>>, NEW n \in Node, NEW names \in SUBSET Node, CallDetachFrom(n, names) PROVE ShapeInv'
  <2>1. stack' = <<Frame("detach_from", n, "loop", Keep(pre_nodes[n], names))>>
    BY <1>5 DEF CallDetachFrom, Call
  <2> QED BY <2>1 DEF ShapeInv, Running, Top, Frame
<1>6. ASSUME stack = <<>>, NEW n \in Node, CallDetachRecursively(n) PROVE ShapeInv'
  <2>1. stack' = <<Frame("detach", n, "loop", pre_nodes[n]), Frame("detach_recursively", n, "next", <<>>)>>
    BY <1>6 DEF CallDetachRecursively
  <2>2. Len(stack') = 2 /\ stack'[1].fn = "detach" /\ stack'[1].at = "loop" /\ stack'[1].node = n
        /\ stack'[2].fn = "detach_recursively" /\ stack'[2].at = "next" /\ stack'[2].node = n
    BY <2>1 DEF Frame
  <2>3. \A i \in 2..Len(stack') : i = 2
    BY <2>2
  <2>4. \A i \in 1..Len(stack') : i = 1 \/ i = 2
    BY <2>2
  <2> QED BY <2>2, <2>3, <2>4 DEF ShapeInv, Running, Top
<1> DEFINE One(f) == stack # <<>> /\ stack' = <<f>> \o Tail(stack)
<1>7. ASSUME NEW f \in F, One(f)
      PROVE  /\ Len(stack') = Len(stack) /\ Len(stack) \in Nat /\ Top' = f /\ stack' # <<>>
             /\ \A i \in 2..Len(stack) : stack'[i] = stack[i]
  BY <1>7, OneOnTop DEF TypeOK, Top
<1>8. ASSUME NEW f \in F, One(f), f.fn = Top.fn, f.node = Top.node,
             f.at # "loop" => f.fn \in {"attach_to", "detach_recursively"},
             f.fn = "attach_to" /\ f.at = "check" => f.todo # <<>>,
             UNCHANGED <<detached, doomed>>
      PROVE  ShapeInv'
  <2>1. /\ Len(stack') = Len(stack) /\ Len(stack) \in Nat /\ Top' = f /\ stack' # <<>> /\ stack # <<>>
        /\ \A i \in 2..Len(stack) : stack'[i] = stack[i]
    BY <1>7, <1>8
  <2>2. \A i \in 1..Len(stack) : stack'[i].at # "loop" => stack'[i].fn \in {"attach_to", "detach_recursively"}
    <3>1. stack'[1] = f
      BY <2>1 DEF Top
    <3>2. \A i \in 1..Len(stack) : i = 1 \/ i \in 2..Len(stack)
      BY <2>1
    <3> QED BY <1>8, <2>1, <3>1, <3>2 DEF ShapeInv
  <2>3. Len(stack) > 1 => 2 \in 2..Len(stack)
    BY <2>1
  <2>4. \A i \in 2..Len(stack) : stack'[i].at = "next" => i = 2 /\ f.fn = "detach"
    BY <1>8, <2>1 DEF ShapeInv
  <2> QED BY <1>8, <2>1, <2>2, <2>3, <2>4 DEF ShapeInv, Running
<1>9. CASE AttachSubscribe
  <2> DEFINE f == [Top EXCEPT !.at = "check"]
  <2>1. stack # <<>> /\ Top.todo # <<>> /\ Top.fn = "attach_to"
    BY <1>9 DEF AttachSubscribe, Running
  <2>2. f \in F /\ f.fn = Top.fn /\ f.node = Top.node /\ f.todo = Top.todo
    BY <2>1, TopIsFrame DEF Frames
  <2>3. One(f) /\ UNCHANGED <<detached, doomed>>
    BY <1>9, <2>1 DEF AttachSubscribe, Replace
  <2> HIDE DEF f, One, F
  <2> QED BY <1>8, <2>1, <2>2, <2>3
<1>10. CASE AttachCheck
  <2>1. stack # <<>> /\ UNCHANGED <<detached, doomed>> /\ Top.todo # <<>>
    BY <1>10 DEF AttachCheck, Running, ShapeInv
  <2>2. CASE stack' = <<>>
    BY <2>2 DEF ShapeInv, Running
  <2>3. CASE stack' # <<>>
    <3> DEFINE f == [Top EXCEPT !.at = "loop", !.todo = Tail(@)]
    <3>1. f \in F /\ f.fn = Top.fn /\ f.node = Top.node /\ f.at = "loop"
      BY <2>1, TopIsFrame DEF Frames
    <3>2. One(f)
      BY <1>10, <2>1, <2>3 DEF AttachCheck, Replace, Throw
    <3> HIDE DEF f, One, F
    <3> QED BY <1>8, <2>1, <3>1, <3>2
  <2> QED BY <2>2, <2>3
<1>11. CASE DetachUnsubscribe \/ DetachFromErase
  <2> DEFINE f == [Top EXCEPT !.todo = Tail(@)]
  <2>1. stack # <<>> /\ Top.todo # <<>> /\ Top.at = "loop" /\ UNCHANGED <<detached, doomed>>
    BY <1>11 DEF DetachUnsubscribe, DetachFromErase, Running
  <2>2. f \in F /\ f.fn = Top.fn /\ f.node = Top.node /\ f.at = "loop"
    BY <2>1, TopIsFrame DEF Frames
  <2>3. One(f)
    BY <1>11, <2>1 DEF DetachUnsubscribe, DetachFromErase, Replace
  <2> HIDE DEF f, One, F
  <2> QED BY <1>8, <2>1, <2>2, <2>3
<1>12. CASE RecurseNextNodes
  <2> DEFINE f == [Top EXCEPT !.at = "loop", !.todo = subscribers[Top.node]]
  <2>1. stack # <<>> /\ UNCHANGED <<detached, doomed>>
    BY <1>12 DEF RecurseNextNodes, Running
  <2>2. f \in F /\ f.fn = Top.fn /\ f.node = Top.node /\ f.at = "loop"
    BY <2>1, TopIsFrame DEF Frames, TypeOK
  <2>3. One(f)
    BY <1>12, <2>1 DEF RecurseNextNodes, Replace
  <2> HIDE DEF f, One, F
  <2> QED BY <1>8, <2>1, <2>2, <2>3
<1>13. CASE AttachReturn \/ DetachReturn \/ DetachFromReturn \/ RecurseReturn
  <2>1. stack # <<>> /\ stack' = Tail(stack) /\ doomed' = doomed
    BY <1>13 DEF AttachReturn, DetachReturn, DetachFromReturn, RecurseReturn, Running, Return
  <2>2. Len(stack') = Len(stack) - 1 /\ Len(stack) \in Nat /\ \A i \in 1..Len(stack) - 1 : stack'[i] = stack[i + 1]
    BY <2>1, HeadTailProperties DEF TypeOK
  <2>3. \A i \in 1..Len(stack') : stack'[i].fn = "detach_recursively"
    <3>1. \A i \in 1..Len(stack) - 1 : i + 1 \in 2..Len(stack)
      BY <2>2
    <3> QED BY <2>2, <3>1 DEF ShapeInv
  <2>4. stack' # <<>> => 1 \in 1..Len(stack')
    BY <2>1, <2>2 DEF TypeOK
  <2>5. \A i \in 2..Len(stack') : stack'[i].at # "next"
    <3>1. \A i \in 2..Len(stack') : i + 1 \in 2..Len(stack) /\ i + 1 # 2 /\ stack'[i] = stack[i + 1]
      BY <2>2
    <3> QED BY <3>1 DEF ShapeInv
  <2>6. stack' # <<>> => Top'.fn = "detach_recursively"
    BY <2>3, <2>4 DEF Top
  <2>7. \A i \in 2..Len(stack') : i \in 1..Len(stack')
    BY <2>2
  <2> QED BY <2>3, <2>5, <2>6, <2>7 DEF ShapeInv, Running
<1>14. CASE Recurse
  <2> DEFINE n == Head(Top.todo)
             f == Frame("detach", n, "loop", pre_nodes[n])
             g == Frame("detach_recursively", n, "next", <<>>)
             h == [Top EXCEPT !.todo = Tail(@)]
  <2>1. /\ stack # <<>> /\ Top.todo # <<>> /\ stack' = <<f, g, h>> \o Tail(stack)
        /\ Top.fn = "detach_recursively" /\ UNCHANGED <<detached, doomed>>
    BY <1>14 DEF Recurse, Running
  <2>2. n \in Node /\ h \in F /\ h.fn = "detach_recursively"
    BY <2>1, TopIsFrame DEF Frames
  <2>4. /\ f \in F /\ f.fn = "detach" /\ f.at = "loop" /\ f.node = n
        /\ g \in F /\ g.fn = "detach_recursively" /\ g.at = "next" /\ g.node = n
    <3>1. f \in Frames /\ g \in Frames
      BY <2>2, RecurseFrames, Zenon
    <3> QED BY <3>1 DEF Frame
  <2> HIDE DEF f, g, h
  <2>5. /\ Len(stack') = Len(stack) + 2 /\ Len(stack) \in Nat
        /\ stack'[1] = f /\ stack'[2] = g /\ stack'[3] = h
        /\ \A i \in 4..Len(stack) + 2 : stack'[i] = stack[i - 2]
    BY <2>1, <2>2, <2>4, ThreeOnTop DEF TypeOK
  <2>6. ASSUME NEW i \in 2..Len(stack') PROVE stack'[i].fn = "detach_recursively"
    <3>1. CASE i \in {2, 3}
      BY <2>2, <2>4, <2>5, <3>1
    <3>2. CASE i \notin {2, 3}
      <4>1. i \in 4..Len(stack) + 2 /\ i - 2 \in 2..Len(stack)
        BY <2>5, <3>2
      <4> QED BY <2>5, <4>1 DEF ShapeInv
    <3> QED BY <3>1, <3>2
  <2>7. \A i \in 1..Len(stack') : i = 1 \/ i \in 2..Len(stack')
    BY <2>5
  <2>8. ASSUME NEW i \in 2..Len(stack'), stack'[i].at = "next" PROVE i = 2
    <3>1. h.at = "loop"
      BY <1>14, <2>1, TopIsFrame DEF Recurse, Running, Frames, h
    <3>2. CASE i \notin {2, 3}
      <4>1. i \in 4..Len(stack) + 2 /\ i - 2 \in 2..Len(stack)
        BY <2>5, <3>2
      <4>2. Top.fn = "detach"
        BY <2>5, <2>8, <4>1 DEF ShapeInv
      <4> QED BY <2>1, <4>2
    <3> QED BY <2>5, <2>8, <3>1, <3>2
  <2> QED BY <2>4, <2>5, <2>6, <2>7, <2>8 DEF ShapeInv, Running, Top
<1>15. Calls => stack = <<>>
  BY DEF Calls, CallAttachTo, CallDetach, CallDetachFrom, CallDetachRecursively
<1>16. CASE Calls
  BY <1>3, <1>4, <1>5, <1>6, <1>15, <1>16 DEF Calls
<1>17. CASE GraphThread
  BY <1>9, <1>10, <1>11, <1>12, <1>13, <1>14, <1>17 DEF GraphThread
<1> QED BY <1>1, <1>2, <1>16, <1>17 DEF Next

TypeInv == TypeOK /\ ShapeInv
WalkInv == TypeInv /\ LockInv /\ OrderInv

LEMMA WalkStart == Init => WalkInv
<1> SUFFICES ASSUME Init PROVE WalkInv
  OBVIOUS
<1> USE DEF Init
<1>1. TypeOK
  <2>1. <<>> \in Seq(Node) /\ <<>> \in Seq(Meta) /\ <<>> \in Seq(Frames)
    OBVIOUS
  <2> QED BY <2>1 DEF TypeOK
<1>2. ShapeInv
  BY DEF ShapeInv, Running
<1>3. LockInv /\ OrderInv
  BY DEF LockInv, OrderInv, SameOrder, Before, OnlyLast, ToSet
<1> QED BY <1>1, <1>2, <1>3 DEF WalkInv, TypeInv

LEMMA WalkStep == WalkInv /\ [Next]_vars => WalkInv'
<1> SUFFICES ASSUME WalkInv, [Next]_vars PROVE WalkInv'
  OBVIOUS
<1> USE DEF WalkInv, TypeInv
<1>1. ShapeInv'
  BY ShapeStep
<1>2. CASE UNCHANGED vars
  BY <1>1, <1>2 DEF vars, pushVars, graphVars, TypeOK, LockInv, OrderInv, SameOrder
<1>3. ASSUME NEW p \in Pusher, Push(p) \/ \E m \in MetasOf[p] : PushBegin(p, m) PROVE WalkInv'
  <2>1. TypeOK'
    BY <1>3, PushKeepsTypes
  <2>2. LockInv' /\ OrderInv'
    BY <1>3, BeginKeepsPushes, DeliverKeepsPushes, EndKeepsPushes DEF Push
  <2> QED BY <1>1, <2>1, <2>2
<1>4. CASE Calls \/ GraphThread
  <2>1. Calls => stack = <<>>
    BY DEF Calls, CallAttachTo, CallDetach, CallDetachFrom, CallDetachRecursively
  <2>2. TypeOK'
    BY <1>4, <2>1, CallsKeepTypes, GraphKeepsTypes
  <2>3. LockInv' /\ OrderInv'
    BY <1>4, GraphKeepsPushes
  <2> QED BY <1>1, <2>2, <2>3
<1> QED BY <1>2, <1>3, <1>4 DEF Next

LEMMA Walks == Spec => []WalkInv
BY WalkStart, WalkStep, PTL DEF Spec

(* Every variable has its type.                                            *)
THEOREM TypeCorrect == Spec => []TypeOK
<1>1. WalkInv => TypeOK
  BY DEF WalkInv, TypeInv
<1> QED BY <1>1, Walks, PTL

(* Two subscribers of one node never get two of its metas in opposite      *)
(* orders: of the meta that is being pushed they have only copies behind   *)
(* everything else, and push_meta keeps every other meta of the node out   *)
(* until it is through with the list.                                      *)
THEOREM SubscribersAgreeOnOrder == Spec => []SameOrder
<1>1. WalkInv => SameOrder
  BY DEF WalkInv, OrderInv
<1> QED BY <1>1, Walks, PTL

(* push_meta skips no subscriber: the list does not change under the       *)
(* iterator, and everybody before it had the meta.                         *)
THEOREM PushSkipsNobody == Spec => PushReachesAll
<1> DEFINE A == \A p \in Pusher :
                  pushing[p] # "none" /\ pushing'[p] = "none" =>
                    \A n \in NextNodes(PusherNode[p]) :
                      pushing[p] \in ToSet(received[n][PusherNode[p]])
<1>1. WalkInv /\ [Next]_vars => A
  <2> SUFFICES ASSUME WalkInv, [Next]_vars, NEW p \in Pusher, pushing[p] # "none", pushing'[p] = "none",
                      NEW n \in NextNodes(PusherNode[p])
               PROVE  pushing[p] \in ToSet(received[n][PusherNode[p]])
    OBVIOUS
  <2> DEFINE u == PusherNode[p]
  <2> USE DEF WalkInv, TypeInv
  <2>1. u \in Node
    BY TopologyAssumption
  <2>2. ASSUME NEW q \in Pusher, NEW m \in MetasOf[q], PushBegin(q, m) PROVE FALSE
    <3>1. m # "none"
      BY TopologyAssumption
    <3> QED BY <2>2, <3>1 DEF PushBegin, TypeOK
  <2>3. ASSUME NEW q \in Pusher, Push(q) PROVE PushEnd(p)
    BY <2>3 DEF Push, Deliver, PushEnd, TypeOK
  <2>4. ~UNCHANGED vars
    BY DEF vars, pushVars
  <2>5. ~(Calls \/ GraphThread)
    BY GraphLeavesWalks DEF pushVars
  <2>6. PushEnd(p)
    BY <2>2, <2>3, <2>4, <2>5 DEF Next
  <2>7. PICK i \in 1..Len(subscribers[u]) : subscribers[u][i] = n
    BY <2>1 DEF NextNodes, ToSet, TypeOK
  <2>8. i \in 1..cursor[p] - 1
    BY <2>1, <2>6, <2>7 DEF PushEnd, TypeOK
  <2> QED BY <2>7, <2>8 DEF LockInv
<1>2. Spec => [][A]_vars
  BY <1>1, Walks, PTL DEF Spec
<1> QED BY <1>2 DEF PushReachesAll

-------------------------------------------------------------------------------
(* The graph.  attach_to throws at a DES node after it has subscribed the  *)
(* node and before it lists the previous one: then the records differ for  *)
(* good.  The theorems below are about calls that attach to none.          *)
NoDesAttached == \A n \in Node : \A list \in AttachLists[n] : ToSet(list) \cap Des = {}

LEMMA CountsAreNat ==
  ASSUME TypeOK, NEW u \in Node, NEW n \in Node
  PROVE  /\ Count(subscribers[u], n) \in Nat /\ Count(pre_nodes[n], u) \in Nat
         /\ Count(subscribers[u], n) = 0 <=> n \notin NextNodes(u)
         /\ Count(pre_nodes[n], u) = 0 <=> u \notin ToSet(pre_nodes[n])
<1>1. subscribers[u] \in Seq(Node) /\ pre_nodes[n] \in Seq(Node)
  BY DEF TypeOK
<1> QED BY <1>1, CountIsNat, CountZero DEF NextNodes

LEMMA CallKeepsLinks ==
  ASSUME NoDesAttached, TypeOK, LinkInv, Calls
  PROVE  LinkInv'
<1>1. stack = <<>> /\ UNCHANGED <<subscribers, pre_nodes>> /\ detached' \subseteq detached
  BY DEF Calls, CallAttachTo, CallDetach, CallDetachFrom, CallDetachRecursively, graphVars
<1>2. \A u, n \in Node : Count(subscribers[u], n) = Count(pre_nodes[n], u)
  BY <1>1 DEF LinkInv, LinksOf, Running
<1>3. \A n \in detached', u \in Node : Count(subscribers'[u], n) = 0
  BY <1>1 DEF LinkInv
<1>4. ASSUME NEW n \in Node, NEW list \in AttachLists[n], CallAttachTo(n, list) PROVE LinkInv'
  <2>1. stack' = <<Frame("attach_to", n, "loop", list)>>
    BY <1>4 DEF CallAttachTo, Call
  <2>2. Top'.fn = "attach_to" /\ Top'.at = "loop" /\ Top'.todo = list
    BY <2>1 DEF Frame, Top
  <2>3. \A u, x \in Node : LinksOf(u, x)'
    BY <1>1, <1>2, <2>2 DEF LinksOf, Running
  <2> QED BY <1>3, <2>2, <2>3 DEF LinkInv, NoDesAttached
<1>5. ASSUME NEW n \in Node, NEW f, NEW rest, Top' = f, f.fn = "detach", f.node = n,
             f.todo = pre_nodes[n]
      PROVE  LinkInv'
  <2>1. \A u \in Node : u \in ToSet(pre_nodes[n]) \/ Count(subscribers[u], n) = 0
    BY <1>2, CountsAreNat
  <2>2. \A u, x \in Node : LinksOf(u, x)'
    BY <1>1, <1>2, <1>5, <2>1 DEF LinksOf, Running
  <2> QED BY <1>3, <1>5, <2>2 DEF LinkInv
<1>6. ASSUME NEW n \in Node, CallDetach(n) PROVE LinkInv'
  <2>1. stack' = <<Frame("detach", n, "loop", pre_nodes[n])>>
    BY <1>1, <1>6 DEF CallDetach, Call
  <2> QED BY <1>5, <2>1 DEF Frame, Top
<1>7. ASSUME NEW n \in Node, CallDetachRecursively(n) PROVE LinkInv'
  <2>1. Top' = Frame("detach", n, "loop", pre_nodes[n])
    BY <1>7 DEF CallDetachRecursively, Top
  <2> QED BY <1>5, <2>1 DEF Frame
<1>8. ASSUME NEW n \in Node, NEW names \in SUBSET Node, CallDetachFrom(n, names) PROVE LinkInv'
  <2> DEFINE k == Keep(pre_nodes[n], names)
  <2>1. stack' = <<Frame("detach_from", n, "loop", k)>>
    BY <1>1, <1>8 DEF CallDetachFrom, Call
  <2>2. Top'.fn = "detach_from" /\ Top'.at = "loop" /\ Top'.todo = k
    BY <2>1 DEF Frame, Top
  <2>3. pre_nodes[n] \in Seq(Node) /\ k \in Seq(Node)
    BY KeepType DEF TypeOK
  <2>4. \A u \in Node : Count(k, u) = IF u \in names THEN Count(pre_nodes[n], u) ELSE 0
    BY <2>3, CountKeep
  <2> HIDE DEF k
  <2>5. \A u \in Node : u \in ToSet(k) => Count(pre_nodes[n], u) = Count(k, u)
    BY <2>3, <2>4, CountZero
  <2>6. Top'.node = n
    BY <2>1 DEF Frame, Top
  <2>7. \A u, x \in Node : LinksOf(u, x)'
    BY <1>1, <1>2, <2>2, <2>5, <2>6 DEF LinksOf, Running
  <2> QED BY <1>3, <2>2, <2>7 DEF LinkInv
<1> QED BY <1>4, <1>6, <1>7, <1>8 DEF Calls

LEMMA AttachKeepsLinks ==
  ASSUME TypeOK, ShapeInv, LinkInv, AttachSubscribe \/ AttachCheck \/ AttachReturn
  PROVE  LinkInv'
<1> DEFINE h == Head(Top.todo)
           t == Top.node
<1>1. stack # <<>> /\ Top.fn = "attach_to" /\ t \in Node /\ t \notin detached /\ ToSet(Top.todo) \cap Des = {}
      /\ detached' = detached
  BY TopIsFrame DEF AttachSubscribe, AttachCheck, AttachReturn, Running, ShapeInv, LinkInv
<1>2. Top.todo # <<>> => h \in ToSet(Top.todo) /\ h \in Node /\ ToSet(Tail(Top.todo)) \subseteq ToSet(Top.todo)
  <2> SUFFICES ASSUME Top.todo # <<>>
               PROVE  h \in ToSet(Top.todo) /\ h \in Node /\ ToSet(Tail(Top.todo)) \subseteq ToSet(Top.todo)
    OBVIOUS
  <2>1. Top.todo \in Seq(Node)
    BY <1>1, TopIsFrame
  <2> QED BY <2>1 DEF ToSet
<1> HIDE DEF h, t
<1>3. CASE AttachSubscribe
  <2>1. Top.todo # <<>> /\ Top.at = "loop" /\ AddSubscriber(h, t) /\ pre_nodes' = pre_nodes
        /\ stack' = <<[Top EXCEPT !.at = "check"]>> \o Tail(stack)
    BY <1>3 DEF AttachSubscribe, Running, Replace, h, t
  <2>2. [Top EXCEPT !.at = "check"] \in Frames
    BY <1>1, TopIsFrame DEF Frames
  <2>3. Top' = [Top EXCEPT !.at = "check"] /\ stack' # <<>>
    BY <1>1, <2>1, <2>2, OneOnTop DEF TypeOK, Top
  <2>4. Top'.fn = "attach_to" /\ Top'.at = "check" /\ Top'.node = t /\ Top'.todo = Top.todo
    BY <1>1, <2>3, TopIsFrame DEF Frames, t
  <2>5. \A u, x \in Node : Count(subscribers'[u], x) =
          Count(subscribers[u], x) + IF u = h /\ x = t THEN 1 ELSE 0
    <3>1. h \in Node
      BY <1>2, <2>1
    <3>2. /\ \A u \in Node : u # h => subscribers'[u] = subscribers[u]
          /\ \A x \in Node : Count(subscribers'[h], x) = Count(subscribers[h], x) + IF x = t THEN 1 ELSE 0
      BY <1>1, <2>1, <3>1, AddType
    <3> SUFFICES ASSUME NEW u \in Node, NEW x \in Node
                 PROVE  Count(subscribers'[u], x) = Count(subscribers[u], x) + IF u = h /\ x = t THEN 1 ELSE 0
      OBVIOUS
    <3>3. Count(subscribers[u], x) \in Nat
      BY CountsAreNat
    <3>4. CASE u = h
      BY <3>2, <3>4
    <3>5. CASE u # h
      BY <3>2, <3>3, <3>5
    <3> QED BY <3>4, <3>5
  <2>6. \A u, x \in Node : Count(subscribers[u], x) = Count(pre_nodes[x], u)
    BY <1>1, <2>1 DEF LinkInv, LinksOf, Running
  <2>7. \A u, x \in Node : LinksOf(u, x)'
    BY <2>1, <2>3, <2>4, <2>5, <2>6, CountsAreNat DEF LinksOf, Running, h
  <2>8. \A x \in detached, u \in Node : Count(subscribers'[u], x) = 0
    <3> SUFFICES ASSUME NEW x \in detached, NEW u \in Node PROVE Count(subscribers'[u], x) = 0
      OBVIOUS
    <3>1. x \in Node /\ x # t /\ Count(subscribers[u], x) = 0
      BY <1>1 DEF LinkInv, TypeOK
    <3>2. Count(subscribers'[u], x) = Count(subscribers[u], x) + 0
      BY <2>5, <3>1
    <3> QED BY <3>1, <3>2
  <2> QED BY <1>1, <2>4, <2>7, <2>8 DEF LinkInv
<1>4. CASE AttachCheck
  <2>1. Top.todo # <<>> /\ Top.at = "check" /\ subscribers' = subscribers
    BY <1>4 DEF AttachCheck, Running, ShapeInv
  <2>2. /\ pre_nodes' = [pre_nodes EXCEPT ![t] = Append(@, h)]
        /\ stack' = <<[Top EXCEPT !.at = "loop", !.todo = Tail(@)]>> \o Tail(stack)
    BY <1>1, <1>2, <1>4, <2>1 DEF AttachCheck, Replace, h, t
  <2>3. [Top EXCEPT !.at = "loop", !.todo = Tail(@)] \in Frames
    BY <1>1, <2>1, TopIsFrame DEF Frames
  <2>4. Top' = [Top EXCEPT !.at = "loop", !.todo = Tail(@)] /\ stack' # <<>>
    BY <1>1, <2>2, <2>3, OneOnTop DEF TypeOK, Top
  <2>5. Top'.fn = "attach_to" /\ Top'.at = "loop" /\ Top'.todo = Tail(Top.todo)
    BY <1>1, <2>4, TopIsFrame DEF Frames
  <2>6. \A u, x \in Node : Count(pre_nodes'[x], u) =
          Count(pre_nodes[x], u) + IF u = h /\ x = t THEN 1 ELSE 0
    <3>1. pre_nodes[t] \in Seq(Node) /\ pre_nodes'[t] = Append(pre_nodes[t], h) /\ h \in Node
      BY <1>1, <1>2, <2>1, <2>2 DEF TypeOK
    <3>2. \A x \in Node : x # t => pre_nodes'[x] = pre_nodes[x]
      BY <2>2 DEF TypeOK
    <3>3. \A u \in Node : Count(pre_nodes'[t], u) = Count(pre_nodes[t], u) + IF h = u THEN 1 ELSE 0
      BY <3>1, CountAppend
    <3> QED BY <3>2, <3>3, CountsAreNat
  <2>7. \A u, x \in Node : Count(subscribers[u], x) =
          Count(pre_nodes[x], u) + IF u = h /\ x = t THEN 1 ELSE 0
    BY <1>1, <2>1, CountsAreNat, SMTT(30) DEF LinkInv, LinksOf, Running, h, t
  <2>8. \A u, x \in Node : LinksOf(u, x)'
    BY <2>1, <2>4, <2>5, <2>6, <2>7 DEF LinksOf, Running
  <2> QED BY <1>1, <1>2, <2>1, <2>5, <2>8 DEF LinkInv
<1>5. CASE AttachReturn
  <2>1. stack' = Tail(stack) /\ Top.at = "loop" /\ UNCHANGED <<subscribers, pre_nodes>>
    BY <1>5 DEF AttachReturn, Return, Running, graphVars
  <2>2. stack' = <<>>
    <3>1. Len(stack) = 1 /\ stack \in Seq(Frames)
      BY <1>1 DEF ShapeInv, TypeOK
    <3>2. stack' \in Seq(Frames) /\ Len(stack') = 0
      BY <1>1, <2>1, <3>1, HeadTailProperties
    <3> QED BY <3>2, EmptySeq
  <2>3. \A u, x \in Node : Count(subscribers[u], x) = Count(pre_nodes[x], u)
    BY <1>1, <2>1 DEF LinkInv, LinksOf, Running
  <2> QED BY <1>1, <2>1, <2>2, <2>3 DEF LinkInv, LinksOf, Running
<1> QED BY <1>3, <1>4, <1>5

LEMMA DetachKeepsLinks ==
  ASSUME TypeOK, ShapeInv, LinkInv, DetachUnsubscribe \/ DetachReturn
  PROVE  LinkInv'
<1> DEFINE h == Head(Top.todo)
           t == Top.node
<1>1. stack # <<>> /\ Top.fn = "detach" /\ Top.at = "loop" /\ t \in Node /\ Top.todo \in Seq(Node)
  BY TopIsFrame DEF DetachUnsubscribe, DetachReturn, Running
<1>2. \A u, x \in Node : IF x = t THEN u \in ToSet(Top.todo) \/ Count(subscribers[u], x) = 0
                         ELSE Count(subscribers[u], x) = Count(pre_nodes[x], u)
  BY <1>1 DEF LinkInv, LinksOf, Running
<1> HIDE DEF h, t
<1>3. CASE DetachUnsubscribe
  <2>1. Top.todo # <<>> /\ RemoveSubscriber(h, t) /\ pre_nodes' = pre_nodes /\ detached' = detached
        /\ stack' = <<[Top EXCEPT !.todo = Tail(@)]>> \o Tail(stack)
    BY <1>3 DEF DetachUnsubscribe, Replace, h, t
  <2>2. [Top EXCEPT !.todo = Tail(@)] \in Frames
    BY <1>1, <2>1, TopIsFrame DEF Frames
  <2>3. Top' = [Top EXCEPT !.todo = Tail(@)] /\ stack' # <<>>
    BY <1>1, <2>1, <2>2, OneOnTop DEF TypeOK, Top
  <2>4. Top'.fn = "detach" /\ Top'.at = "loop" /\ Top'.node = t /\ Top'.todo = Tail(Top.todo)
    BY <1>1, <2>3, TopIsFrame DEF Frames, t
  <2>5. \A u \in ToSet(Top.todo) : u = h \/ u \in ToSet(Tail(Top.todo))
    BY <1>1, <2>1, HeadOrTail DEF h
  <2>6. h \in Node
    BY <1>1, <2>1 DEF h
  <2>7. /\ \A u \in Node : u # h => subscribers'[u] = subscribers[u]
        /\ \A x \in Node : Count(subscribers'[h], x) = IF x = t THEN 0 ELSE Count(subscribers[h], x)
    BY <1>1, <2>1, <2>6, RemoveType
  <2>8. \A u, x \in Node : IF x = t THEN u \in ToSet(Tail(Top.todo)) \/ Count(subscribers'[u], x) = 0
                           ELSE Count(subscribers'[u], x) = Count(pre_nodes[x], u)
    BY <1>2, <2>5, <2>7
  <2>9. \A u, x \in Node : LinksOf(u, x)'
    BY <2>1, <2>3, <2>4, <2>8 DEF LinksOf, Running
  <2>10. ASSUME NEW x \in detached, NEW u \in Node PROVE Count(subscribers'[u], x) = 0
    <3>1. x \in Node /\ Count(subscribers[u], x) = 0
      BY DEF LinkInv, TypeOK
    <3> QED BY <2>7, <3>1
  <2> QED BY <2>1, <2>4, <2>9, <2>10 DEF LinkInv
<1>4. CASE DetachReturn
  <2>1. Top.todo = <<>> /\ pre_nodes' = [pre_nodes EXCEPT ![t] = <<>>] /\ stack' = Tail(stack)
        /\ detached' = detached \cup {t} /\ subscribers' = subscribers
    BY <1>4 DEF DetachReturn, Return, t
  <2>2. stack' # <<>> => Top'.fn = "detach_recursively"
    <3>1. Len(stack') = Len(stack) - 1 /\ stack' \in Seq(Frames)
          /\ \A i \in 1..Len(stack') : stack'[i] = stack[i + 1]
      BY <1>1, <2>1, HeadTailProperties DEF TypeOK
    <3>2. stack' # <<>> => 1 \in 1..Len(stack') /\ 2 \in 2..Len(stack)
      BY <3>1, TopIsFrame, <1>1
    <3> QED BY <3>1, <3>2 DEF ShapeInv, Top
  <2>3. \A u \in Node : Count(subscribers[u], t) = 0
    BY <1>1, <1>2, <2>1 DEF ToSet
  <2>4. pre_nodes'[t] = <<>> /\ \A x \in Node : x # t => pre_nodes'[x] = pre_nodes[x]
    BY <1>1, <2>1 DEF TypeOK
  <2>5. \A u, x \in Node : Count(subscribers[u], x) = Count(pre_nodes'[x], u)
    BY <1>2, <2>3, <2>4, CountEmpty
  <2>6. \A u, x \in Node : LinksOf(u, x)'
    BY <2>1, <2>2, <2>5 DEF LinksOf, Running
  <2> QED BY <2>1, <2>2, <2>3, <2>6 DEF LinkInv
<1> QED BY <1>3, <1>4

LEMMA DetachFromKeepsLinks ==
  ASSUME TypeOK, ShapeInv, LinkInv, DetachFromErase \/ DetachFromReturn
  PROVE  LinkInv'
<1> DEFINE h == Head(Top.todo)
           t == Top.node
           todo == Top.todo
<1>1. stack # <<>> /\ Top.fn = "detach_from" /\ Top.at = "loop" /\ t \in Node /\ todo \in Seq(Node)
      /\ detached' = detached
  BY TopIsFrame DEF DetachFromErase, DetachFromReturn, Running
<1>2. ASSUME NEW u \in Node, NEW x \in Node
      PROVE  LET S == Count(subscribers[u], x)
                 P == Count(pre_nodes[x], u)
             IN  IF x = t THEN /\ S = P \/ (S = 0 /\ P = Count(todo, u))
                               /\ u \in ToSet(todo) => P = Count(todo, u)
                 ELSE S = P
  BY <1>1 DEF LinkInv, LinksOf, Running
<1> HIDE DEF h, t, todo
<1>3. CASE DetachFromErase
  <2>1. todo # <<>> /\ RemoveSubscriber(h, t) /\ pre_nodes' = [pre_nodes EXCEPT ![t] = RemoveFirst(@, h)]
        /\ stack' = <<[Top EXCEPT !.todo = Tail(@)]>> \o Tail(stack)
    BY <1>3 DEF DetachFromErase, Replace, h, t, todo
  <2>2. [Top EXCEPT !.todo = Tail(@)] \in Frames
    BY <1>1, <2>1, TopIsFrame DEF Frames, todo
  <2>3. Top' = [Top EXCEPT !.todo = Tail(@)] /\ stack' # <<>>
    BY <1>1, <2>1, <2>2, OneOnTop DEF TypeOK, Top
  <2>4. Top'.fn = "detach_from" /\ Top'.at = "loop" /\ Top'.node = t /\ Top'.todo = Tail(todo)
    BY <1>1, <2>3, TopIsFrame DEF Frames, t, todo
  <2>5. h \in Node /\ h \in ToSet(todo) /\ Tail(todo) \in Seq(Node)
    BY <1>1, <2>1 DEF h, todo, ToSet
  <2>6. \A u \in Node : Count(todo, u) = Count(Tail(todo), u) + IF h = u THEN 1 ELSE 0
    BY <1>1, <2>1, CountCons DEF h, todo
  <2>7. \A u \in Node : Count(Tail(todo), u) \in Nat /\ (u \in ToSet(Tail(todo)) <=> Count(Tail(todo), u) # 0)
                        /\ (u \in ToSet(todo) <=> Count(todo, u) # 0)
    BY <1>1, <2>5, CountIsNat, CountZero
  <2>8. /\ \A u \in Node : u # h => subscribers'[u] = subscribers[u]
        /\ \A x \in Node : Count(subscribers'[h], x) = IF x = t THEN 0 ELSE Count(subscribers[h], x)
    BY <1>1, <2>1, <2>5, RemoveType
  <2>9. h \in ToSet(pre_nodes[t])
    <3>1. Count(pre_nodes[t], h) = Count(todo, h) /\ Count(todo, h) # 0
      BY <1>1, <1>2, <2>5, <2>7
    <3> QED BY <1>1, <2>5, <3>1, CountsAreNat
  <2>10. \A x \in Node : x # t => pre_nodes'[x] = pre_nodes[x]
    BY <2>1 DEF TypeOK
  <2>11. \A u \in Node : Count(pre_nodes[t], u) = Count(pre_nodes'[t], u) + IF h = u THEN 1 ELSE 0
    <3>1. pre_nodes'[t] = RemoveFirst(pre_nodes[t], h) /\ pre_nodes[t] \in Seq(Node)
      BY <1>1, <2>1 DEF TypeOK
    <3>2. \A u : Count(pre_nodes[t], u) = Count(RemoveFirst(pre_nodes[t], h), u) + IF h = u THEN 1 ELSE 0
      BY <2>9, <3>1, CountRemoveFirst
    <3> QED BY <3>1, <3>2
  <2>12. \A u \in Node : Count(pre_nodes'[t], u) \in Nat
    <3>1. pre_nodes'[t] = RemoveFirst(pre_nodes[t], h) /\ pre_nodes[t] \in Seq(Node)
      BY <1>1, <2>1 DEF TypeOK
    <3>2. pre_nodes'[t] \in Seq(Node)
      BY <3>1, RemoveFirstType
    <3> QED BY <3>2, CountIsNat
  <2>13. ASSUME NEW u \in Node, NEW x \in Node
         PROVE  LET S == Count(subscribers'[u], x)
                    P == Count(pre_nodes'[x], u)
                IN  IF x = t THEN /\ S = P \/ (S = 0 /\ P = Count(Tail(todo), u))
                                  /\ u \in ToSet(Tail(todo)) => P = Count(Tail(todo), u)
                    ELSE S = P
    <3>1. CASE x # t
      BY <1>2, <2>8, <2>10, <3>1
    <3>2. CASE x = t /\ u # h
      <4>1. Count(pre_nodes[t], u) = Count(pre_nodes'[t], u)
        BY <2>11, <2>12, <3>2
      <4>2. Count(todo, u) = Count(Tail(todo), u) /\ (u \in ToSet(todo) <=> u \in ToSet(Tail(todo)))
        BY <2>6, <2>7, <3>2
      <4>3. subscribers'[u] = subscribers[u]
        BY <2>8, <3>2
      <4> QED BY <1>2, <3>2, <4>1, <4>2, <4>3
    <3>3. CASE x = t /\ u = h
      <4>1. Count(pre_nodes[t], h) = Count(todo, h)
        BY <1>1, <1>2, <2>5
      <4>2. Count(pre_nodes'[t], h) = Count(Tail(todo), h)
        BY <2>5, <2>6, <2>7, <2>11, <2>12, <4>1
      <4> QED BY <1>1, <2>8, <3>3, <4>2
    <3> QED BY <3>1, <3>2, <3>3
  <2>14. \A u, x \in Node : LinksOf(u, x)'
    BY <2>3, <2>4, <2>13 DEF LinksOf, Running
  <2>15. ASSUME NEW x \in detached, NEW u \in Node PROVE Count(subscribers'[u], x) = 0
    <3>1. x \in Node /\ Count(subscribers[u], x) = 0
      BY DEF LinkInv, TypeOK
    <3> QED BY <2>8, <3>1
  <2> QED BY <1>1, <2>4, <2>14, <2>15 DEF LinkInv
<1>4. CASE DetachFromReturn
  <2>1. todo = <<>> /\ stack' = Tail(stack) /\ UNCHANGED <<subscribers, pre_nodes>>
    BY <1>4 DEF DetachFromReturn, Return, todo, graphVars
  <2>2. stack' = <<>>
    <3>1. Len(stack) = 1 /\ stack \in Seq(Frames)
      BY <1>1 DEF ShapeInv, TypeOK
    <3>2. stack' \in Seq(Frames) /\ Len(stack') = 0
      BY <1>1, <2>1, <3>1, HeadTailProperties
    <3> QED BY <3>2, EmptySeq
  <2>3. \A u, x \in Node : Count(subscribers[u], x) = Count(pre_nodes[x], u)
    BY <1>2, <2>1, CountEmpty
  <2> QED BY <1>1, <2>1, <2>2, <2>3 DEF LinkInv, LinksOf, Running
<1> QED BY <1>3, <1>4

LEMMA RecurseKeepsLinks ==
  ASSUME TypeOK, ShapeInv, LinkInv, RecurseNextNodes \/ Recurse \/ RecurseReturn
  PROVE  LinkInv'
<1>1. stack # <<>> /\ Top.fn = "detach_recursively" /\ UNCHANGED <<subscribers, pre_nodes, detached>>
  BY DEF RecurseNextNodes, Recurse, RecurseReturn, Running, graphVars
<1>2. \A u, x \in Node : Count(subscribers[u], x) = Count(pre_nodes[x], u)
  BY <1>1 DEF LinkInv, LinksOf, Running
<1>3. ASSUME stack' # <<>> => Top'.fn = "detach_recursively" PROVE LinkInv'
  <2>1. \A u, x \in Node : LinksOf(u, x)'
    BY <1>1, <1>2, <1>3 DEF LinksOf, Running
  <2> QED BY <1>1, <1>3, <2>1 DEF LinkInv
<1>4. CASE RecurseNextNodes
  <2> DEFINE f == [Top EXCEPT !.at = "loop", !.todo = subscribers[Top.node]]
  <2>1. f \in Frames /\ f.fn = "detach_recursively"
    BY <1>1, TopIsFrame DEF Frames, TypeOK
  <2>2. stack' = <<f>> \o Tail(stack)
    BY <1>4 DEF RecurseNextNodes, Replace
  <2> HIDE DEF f
  <2>3. Top' = f
    BY <1>1, <2>1, <2>2, OneOnTop DEF TypeOK, Top
  <2> QED BY <1>3, <2>1, <2>3
<1>5. CASE RecurseReturn
  <2>1. stack' = Tail(stack)
    BY <1>5 DEF RecurseReturn, Return
  <2>2. Len(stack') = Len(stack) - 1 /\ stack' \in Seq(Frames)
        /\ \A i \in 1..Len(stack') : stack'[i] = stack[i + 1]
    BY <1>1, <2>1, HeadTailProperties DEF TypeOK
  <2>3. stack' # <<>> => 1 \in 1..Len(stack') /\ 2 \in 2..Len(stack)
    BY <2>2, TopIsFrame, <1>1
  <2> QED BY <1>3, <2>2, <2>3 DEF ShapeInv, Top
<1>6. CASE Recurse
  <2> DEFINE n == Head(Top.todo)
             f == Frame("detach", n, "loop", pre_nodes[n])
             g == Frame("detach_recursively", n, "next", <<>>)
             k == [Top EXCEPT !.todo = Tail(@)]
  <2>1. stack' = <<f, g, k>> \o Tail(stack) /\ Top.todo # <<>>
    BY <1>6 DEF Recurse
  <2>2. n \in Node /\ k \in Frames
    BY <1>1, <2>1, TopIsFrame DEF Frames
  <2>4. f \in Frames /\ g \in Frames
    BY <2>2, RecurseFrames, Zenon
  <2>5. f.fn = "detach" /\ f.at = "loop" /\ f.node = n /\ f.todo = pre_nodes[n]
    BY DEF Frame
  <2> HIDE DEF f, g, k, n
  <2>6. Top' = f /\ stack' # <<>>
    BY <1>1, <2>1, <2>2, <2>4, ThreeOnTop DEF TypeOK, Top
  <2>7. \A u \in Node : u \in ToSet(pre_nodes[n]) \/ Count(subscribers[u], n) = 0
    BY <1>2, <2>2, CountsAreNat
  <2>8. \A u, x \in Node : LinksOf(u, x)'
    BY <1>1, <1>2, <2>5, <2>6, <2>7 DEF LinksOf, Running
  <2> QED BY <1>1, <2>5, <2>6, <2>8 DEF LinkInv
<1> QED BY <1>4, <1>5, <1>6

GraphInv == WalkInv /\ LinkInv

LEMMA GraphStart == Init => GraphInv
<1> SUFFICES ASSUME Init PROVE GraphInv
  OBVIOUS
<1>1. stack = <<>> /\ detached = {}
  BY DEF Init
<1>2. \A u, n \in Node : Count(subscribers[u], n) = Count(pre_nodes[n], u)
  BY CountEmpty DEF Init
<1>3. \A u, n \in Node : LinksOf(u, n)
  BY <1>1, <1>2 DEF LinksOf, Running
<1> QED BY <1>1, <1>3, WalkStart DEF GraphInv, LinkInv

LEMMA GraphStep == NoDesAttached /\ GraphInv /\ [Next]_vars => GraphInv'
<1> SUFFICES ASSUME NoDesAttached, GraphInv, [Next]_vars PROVE GraphInv'
  OBVIOUS
<1>1. TypeOK /\ ShapeInv /\ LinkInv /\ WalkInv'
  BY WalkStep DEF GraphInv, WalkInv, TypeInv
<1>2. CASE UNCHANGED vars
  BY <1>1, <1>2 DEF vars, graphVars, LinkInv, LinksOf, Running, Top, GraphInv
<1>3. CASE \E p \in Pusher : Push(p) \/ \E m \in MetasOf[p] : PushBegin(p, m)
  <2>1. UNCHANGED <<subscribers, pre_nodes, stack, detached>>
    BY <1>3 DEF Push, PushBegin, Deliver, PushEnd, graphVars
  <2> QED BY <1>1, <2>1 DEF LinkInv, LinksOf, Running, Top, GraphInv
<1>4. CASE Calls
  BY <1>1, <1>4, CallKeepsLinks DEF GraphInv
<1>5. CASE GraphThread
  <2>1. LinkInv'
    BY <1>1, <1>5, AttachKeepsLinks, DetachKeepsLinks, DetachFromKeepsLinks, RecurseKeepsLinks DEF GraphThread
  <2> QED BY <1>1, <2>1 DEF GraphInv
<1> QED BY <1>2, <1>3, <1>4, <1>5 DEF Next

LEMMA Graph == ASSUME NoDesAttached PROVE Spec => []GraphInv
BY NoDesAttached, GraphStart, GraphStep, PTL DEF Spec

(* Between calls a node is as often in the subscribers of a previous node  *)
(* as that one is in its pre_nodes, after any sequence of attach_to,       *)
(* detach, detach_from and detach_recursively.                             *)
THEOREM RecordsAgree == ASSUME NoDesAttached PROVE Spec => []LinksAgree
<1>1. GraphInv => LinksAgree
  BY DEF GraphInv, LinkInv, LinksOf, LinksAgree, Running
<1> QED BY <1>1, Graph, PTL

(* A detached node gets nothing, until it is attached again: when detach   *)
(* returns it has been taken out of every list, and a thread that walks    *)
(* over one has finished before.                                           *)
THEOREM DetachSilences == ASSUME NoDesAttached PROVE Spec => DetachedGetsNothing
<1> DEFINE A == \A n \in detached : received'[n] = received[n]
<1>1. GraphInv /\ [Next]_vars => A
  <2> SUFFICES ASSUME GraphInv, [Next]_vars, NEW n \in detached
               PROVE  received'[n] = received[n]
    OBVIOUS
  <2> USE DEF GraphInv, WalkInv, TypeInv
  <2>1. CASE ~ \E p \in Pusher : Deliver(p)
    <3>1. received' = received
      BY <2>1, GraphLeavesWalks DEF Next, Push, PushBegin, PushEnd, vars, pushVars
    <3> QED BY <3>1
  <2>2. ASSUME NEW p \in Pusher, Deliver(p) PROVE received'[n] = received[n]
    <3> DEFINE u == PusherNode[p]
    <3>1. u \in Node /\ n \in Node /\ cursor[p] \in Nat /\ cursor[p] >= 1 /\ subscribers[u] \in Seq(Node)
      <4>1. u \in Node /\ n \in Node
        BY TopologyAssumption DEF TypeOK
      <4>2. pushing[p] # "none"
        BY <2>2 DEF Deliver
      <4> QED BY <4>1, <4>2 DEF TypeOK, LockInv
    <3>2. cursor[p] \in 1..Len(subscribers[u])
      <4>1. cursor[p] <= Len(subscribers[u])
        BY <2>2 DEF Deliver
      <4> HIDE DEF u, GraphInv, WalkInv, TypeInv
      <4>2. Len(subscribers[u]) \in Nat
        BY <3>1
      <4> QED BY <3>1, <4>1, <4>2
    <3>3. Count(subscribers[u], n) = 0
      BY <3>1 DEF LinkInv
    <3>4. n \notin NextNodes(u)
      BY <3>1, <3>3, CountsAreNat
    <3>5. subscribers[u][cursor[p]] # n
      BY <3>1, <3>2, <3>4 DEF NextNodes, ToSet
    <3>6. received' = [received EXCEPT ![subscribers[u][cursor[p]]][u] = Append(@, pushing[p])]
      BY <2>2 DEF Deliver
    <3> HIDE DEF u
    <3> QED BY <3>1, <3>5, <3>6 DEF TypeOK
  <2> QED BY <2>1, <2>2
<1>2. Spec => [][A]_vars
  BY <1>1, Graph, PTL DEF Spec
<1> QED BY <1>2 DEF DetachedGetsNothing

-------------------------------------------------------------------------------
(* The recursion.  A node's next nodes after remove_subscriber.            *)
LEMMA RemoveNext ==
  ASSUME TypeOK, NEW u \in Node, NEW n \in Node, RemoveSubscriber(u, n)
  PROVE  \A x \in Node : NextNodes(x)' \subseteq NextNodes(x)
                         /\ NextNodes(x) \subseteq NextNodes(x)' \cup {n}
<1> SUFFICES ASSUME NEW x \in Node
             PROVE  ToSet(subscribers'[x]) \subseteq ToSet(subscribers[x])
                    /\ ToSet(subscribers[x]) \subseteq ToSet(subscribers'[x]) \cup {n}
  BY DEF NextNodes
<1>1. subscribers[x] \in Seq(Node) /\ subscribers'[x] \in Seq(Node)
  BY RemoveType DEF TypeOK
<1>2. CASE x # u
  BY <1>2, RemoveType
<1>3. CASE x = u
  <2>1. ToSet(subscribers[x]) \subseteq Node /\ ToSet(subscribers'[x]) \subseteq Node
    BY <1>1 DEF ToSet
  <2>2. ASSUME NEW y \in Node
        PROVE  Count(subscribers'[x], y) = IF y = n THEN 0 ELSE Count(subscribers[x], y)
    BY <1>3, RemoveType
  <2>3. \A y \in Node : /\ y \in ToSet(subscribers[x]) <=> Count(subscribers[x], y) # 0
                        /\ y \in ToSet(subscribers'[x]) <=> Count(subscribers'[x], y) # 0
    BY <1>1, CountZero
  <2> QED BY <2>1, <2>2, <2>3
<1> QED BY <1>2, <1>3

(* What is pending, by the top frame and the others.                       *)
Rest == UNION {PendingOf(stack[i]) : i \in 2..Len(stack)}

LEMMA PendingIs ==
  ASSUME TypeOK, stack # <<>>
  PROVE  Pending = PendingOf(Top) \cup Rest
<1>1. Len(stack) \in Nat /\ Len(stack) >= 1
  BY TopIsFrame
<1>2. 1..Len(stack) = {1} \cup 2..Len(stack)
  BY <1>1
<1> QED BY <1>2 DEF Pending, Rest, Top

LEMMA PendingOne ==
  ASSUME TypeOK, stack # <<>>, NEW f \in Frames, stack' = <<f>> \o Tail(stack)
  PROVE  Pending' = PendingOf(f) \cup Rest /\ Top' = f /\ stack' # <<>>
<1>1. Len(stack) \in Nat /\ Len(stack) >= 1
  BY TopIsFrame
<1>2. /\ Len(stack') = Len(stack) /\ stack'[1] = f /\ stack' # <<>>
      /\ \A i \in 2..Len(stack) : stack'[i] = stack[i]
  BY OneOnTop DEF TypeOK
<1>3. 1..Len(stack) = {1} \cup 2..Len(stack)
  BY <1>1
<1>4. Pending' = UNION {PendingOf(stack'[i]) : i \in 1..Len(stack')}
  BY DEF Pending, PendingOf
<1>5. Pending' = PendingOf(stack'[1]) \cup UNION {PendingOf(stack'[i]) : i \in 2..Len(stack)}
  BY <1>2, <1>3, <1>4
<1>6. {PendingOf(stack'[i]) : i \in 2..Len(stack)} = {PendingOf(stack[i]) : i \in 2..Len(stack)}
  BY <1>2
<1> QED BY <1>2, <1>5, <1>6 DEF Rest, Top

LEMMA PendingReturn ==
  ASSUME TypeOK, stack # <<>>, stack' = Tail(stack)
  PROVE  Pending' = Rest
<1>1. /\ Len(stack) \in Nat /\ Len(stack) >= 1 /\ Len(stack') = Len(stack) - 1
      /\ \A i \in 1..Len(stack') : stack'[i] = stack[i + 1]
  BY TopIsFrame, HeadTailProperties DEF TypeOK
<1>2. Pending' = UNION {PendingOf(stack'[i]) : i \in 1..Len(stack')}
  BY DEF Pending, PendingOf
<1>3. {PendingOf(stack'[i]) : i \in 1..Len(stack')} = {PendingOf(stack[i]) : i \in 2..Len(stack)}
  <2>1. \A i \in 1..Len(stack') : i + 1 \in 2..Len(stack) /\ stack'[i] = stack[i + 1]
    BY <1>1
  <2>2. \A i \in 2..Len(stack) : i - 1 \in 1..Len(stack') /\ stack'[i - 1] = stack[i]
    BY <1>1
  <2>3. ASSUME NEW i \in 1..Len(stack')
        PROVE  PendingOf(stack'[i]) \in {PendingOf(stack[j]) : j \in 2..Len(stack)}
    BY <2>1
  <2>4. ASSUME NEW i \in 2..Len(stack)
        PROVE  PendingOf(stack[i]) \in {PendingOf(stack'[j]) : j \in 1..Len(stack')}
    BY <2>2
  <2> QED BY <2>3, <2>4, Zenon
<1> QED BY <1>2, <1>3 DEF Rest

LEMMA PendingThree ==
  ASSUME TypeOK, stack # <<>>, NEW f \in Frames, NEW g \in Frames, NEW h \in Frames,
         stack' = <<f, g, h>> \o Tail(stack)
  PROVE  Pending' = PendingOf(f) \cup PendingOf(g) \cup PendingOf(h) \cup Rest
<1>1. Len(stack) \in Nat /\ Len(stack) >= 1
  BY TopIsFrame
<1>2. /\ Len(stack') = Len(stack) + 2 /\ stack'[1] = f /\ stack'[2] = g /\ stack'[3] = h
      /\ \A i \in 4..Len(stack) + 2 : stack'[i] = stack[i - 2]
  BY ThreeOnTop DEF TypeOK
<1>3. 1..Len(stack) + 2 = {1, 2, 3} \cup 4..Len(stack) + 2
  BY <1>1
<1>4. Pending' = UNION {PendingOf(stack'[i]) : i \in 1..Len(stack')}
  BY DEF Pending, PendingOf
<1>5. Pending' = PendingOf(f) \cup PendingOf(g) \cup PendingOf(h)
                   \cup UNION {PendingOf(stack'[i]) : i \in 4..Len(stack) + 2}
  <2> DEFINE late == 4..Len(stack) + 2
  <2>1. 1..Len(stack') = {1, 2, 3} \cup late
    BY <1>2, <1>3
  <2> HIDE DEF late
  <2>2. UNION {PendingOf(stack'[i]) : i \in {1, 2, 3} \cup late}
          = PendingOf(stack'[1]) \cup PendingOf(stack'[2]) \cup PendingOf(stack'[3])
              \cup UNION {PendingOf(stack'[i]) : i \in late}
    OBVIOUS
  <2> QED BY <1>2, <1>4, <2>1, <2>2 DEF late
<1>6. {PendingOf(stack'[i]) : i \in 4..Len(stack) + 2} = {PendingOf(stack[i]) : i \in 2..Len(stack)}
  <2>1. \A i \in 4..Len(stack) + 2 : i - 2 \in 2..Len(stack) /\ stack'[i] = stack[i - 2]
    BY <1>1, <1>2
  <2>2. \A i \in 2..Len(stack) : i + 2 \in 4..Len(stack) + 2 /\ stack'[i + 2] = stack[i]
    BY <1>1, <1>2
  <2> QED BY <2>1, <2>2
<1> QED BY <1>5, <1>6 DEF Rest

(* Every node of the old list is in the new one, or is itself pending.     *)
LEMMA ShrinkKeepsReach ==
  ASSUME RecursionInv, NEW n \in Node, Pending' = Pending, doomed' = doomed, doomed \subseteq Node,
         \A u \in Node : NextNodes(u)' \subseteq NextNodes(u) /\ NextNodes(u) \subseteq NextNodes(u)' \cup {n},
         Pending = {} \/ n \in Pending
  PROVE  /\ \A x \in doomed' : NextNodes(x)' \subseteq doomed'
         /\ \A C \in SUBSET Node :
              (\A x \in C : NextNodes(x)' \subseteq C) /\ Pending' \subseteq C =>
                \A u \in Node : NextNodes(u)' \cap doomed' \subseteq C
<1>1. \A x \in doomed' : NextNodes(x)' \subseteq doomed'
  BY DEF RecursionInv, Closed
<1>2. ASSUME NEW C \in SUBSET Node, \A x \in C : NextNodes(x)' \subseteq C, Pending \subseteq C, NEW u \in Node
      PROVE  NextNodes(u)' \cap doomed \subseteq C
  <2>1. CASE Pending = {}
    <3>1. Closed({}) /\ {} \in SUBSET Node
      BY DEF Closed
    <3>2. NextNodes(u) \cap doomed \subseteq {}
      BY <2>1, <3>1 DEF RecursionInv
    <3> QED BY <3>2
  <2>2. CASE n \in Pending
    <3>1. Closed(C)
      BY <1>2, <2>2 DEF Closed
    <3>2. NextNodes(u) \cap doomed \subseteq C
      BY <1>2, <3>1 DEF RecursionInv
    <3> QED BY <3>2
  <2> QED BY <2>1, <2>2
<1> QED BY <1>1, <1>2

LEMMA RecursionStep ==
  ASSUME GraphInv, RecursionInv, GraphInv', [Next]_vars
  PROVE  RecursionInv'
<1> DEFINE Reach == \A C \in SUBSET Node :
              (\A x \in C : NextNodes(x)' \subseteq C) /\ Pending' \subseteq C =>
                \A u \in Node : NextNodes(u)' \cap doomed' \subseteq C
           Ready == ~Running("detach_recursively", "next")'
<1>1. TypeOK /\ ShapeInv /\ LinkInv /\ doomed \subseteq Node
  BY DEF GraphInv, WalkInv, TypeInv, TypeOK
<1>2. ASSUME \A x \in doomed' : NextNodes(x)' \subseteq doomed', Reach,
             Ready \/ \A u \in Node : Top'.node \notin NextNodes(u)'
      PROVE  RecursionInv'
  BY <1>2 DEF RecursionInv, Closed
<1>3. ASSUME doomed' = {}, Ready PROVE RecursionInv'
  <2>1. (\A x \in doomed' : NextNodes(x)' \subseteq doomed') /\ Reach
    BY <1>3
  <2> HIDE DEF Reach, Ready
  <2> QED BY <1>2, <1>3, <2>1
<1>4. ASSUME UNCHANGED <<subscribers, doomed>>, Pending' = Pending,
             Ready \/ \A u \in Node : Top'.node \notin NextNodes(u)'
      PROVE  RecursionInv'
  <2>1. \A u : NextNodes(u)' = NextNodes(u)
    BY <1>4 DEF NextNodes
  <2>2. (\A x \in doomed' : NextNodes(x)' \subseteq doomed') /\ Reach
    BY <1>4, <2>1 DEF RecursionInv, Closed
  <2> HIDE DEF Reach, Ready
  <2> QED BY <1>2, <1>4, <2>2
<1>5. ASSUME UNCHANGED <<subscribers, doomed, stack>> PROVE RecursionInv'
  BY <1>5 DEF RecursionInv, Closed, NextNodes, Pending, PendingOf, Running, Top
<1>6. CASE UNCHANGED vars
  BY <1>5, <1>6 DEF vars, graphVars
<1>7. CASE \E p \in Pusher : Push(p) \/ \E m \in MetasOf[p] : PushBegin(p, m)
  BY <1>5, <1>7 DEF Push, PushBegin, Deliver, PushEnd, graphVars
<1>8. CASE AttachSubscribe \/ AttachCheck \/ AttachReturn
  <2>1. stack # <<>> /\ Top.fn = "attach_to" /\ doomed' = {}
    BY <1>1, <1>8 DEF AttachSubscribe, AttachCheck, AttachReturn, Running, ShapeInv
  <2>2. stack' = <<>> \/ stack' = Tail(stack) \/ \E at \in {"check", "loop"}, todo \in {Top.todo, Tail(Top.todo)} :
          stack' = <<[Top EXCEPT !.at = at, !.todo = todo]>> \o Tail(stack)
    BY <1>8, <2>1 DEF AttachSubscribe, AttachCheck, AttachReturn, Replace, Return, Throw
  <2>3. Len(stack) = 1 /\ Len(Tail(stack)) = 0 /\ Tail(stack) \in Seq(Frames)
    BY <1>1, <2>1, HeadTailProperties DEF ShapeInv, TypeOK
  <2>4. Tail(stack) = <<>>
    BY <2>3, EmptySeq
  <2>5. stack' # <<>> => Top'.fn = "attach_to"
    <3> SUFFICES ASSUME stack' # <<>> PROVE Top'.fn = "attach_to"
      OBVIOUS
    <3>1. PICK at, todo : stack' = <<[Top EXCEPT !.at = at, !.todo = todo]>> \o <<>>
      BY <2>2, <2>4
    <3>2. stack' = <<[Top EXCEPT !.at = at, !.todo = todo]>>
      BY <3>1
    <3> QED BY <1>1, <2>1, <3>2, TopIsFrame DEF Top, Frames
  <2> QED BY <1>3, <2>1, <2>5 DEF Running
<1>9. CASE DetachUnsubscribe \/ DetachFromErase
  <2> DEFINE f == [Top EXCEPT !.todo = Tail(@)]
             n == Top.node
  <2>1. /\ stack # <<>> /\ Top.todo # <<>> /\ Top.fn \in {"detach", "detach_from"}
        /\ stack' = <<f>> \o Tail(stack) /\ RemoveSubscriber(Head(Top.todo), n) /\ doomed' = doomed
    BY <1>9 DEF DetachUnsubscribe, DetachFromErase, Running, Replace
  <2>2. f \in Frames /\ f.fn = Top.fn /\ n \in Node /\ Head(Top.todo) \in Node
    BY <1>1, <2>1, TopIsFrame DEF Frames
  <2>3. \A u \in Node : NextNodes(u)' \subseteq NextNodes(u) /\ NextNodes(u) \subseteq NextNodes(u)' \cup {n}
    BY <1>1, <2>1, <2>2, RemoveNext
  <2> HIDE DEF f
  <2>4. Top' = f /\ Pending' = PendingOf(f) \cup Rest /\ Pending = PendingOf(Top) \cup Rest
    BY <1>1, <2>1, <2>2, PendingOne, PendingIs
  <2>5. PendingOf(f) = {} /\ PendingOf(Top) = {}
    BY <2>1, <2>2 DEF PendingOf
  <2>6. Pending = {} \/ n \in Pending
    <3>1. CASE Len(stack) > 1
      <4>1. stack[2].at = "next" /\ stack[2].node = n /\ stack[2].fn = "detach_recursively" /\ 2 \in 2..Len(stack)
        BY <1>1, <2>1, <3>1, TopIsFrame DEF ShapeInv
      <4>2. PendingOf(stack[2]) = {n}
        BY <4>1 DEF PendingOf
      <4>3. n \in Rest
        BY <4>1, <4>2 DEF Rest
      <4> QED BY <2>4, <4>3
    <3>2. CASE ~(Len(stack) > 1)
      <4>1. 2..Len(stack) = {}
        BY <1>1, <2>1, <3>2, TopIsFrame
      <4>2. Rest = {}
        BY <4>1 DEF Rest
      <4> QED BY <2>4, <2>5, <4>2
    <3> QED BY <3>1, <3>2
  <2>7. Pending' = Pending
    BY <2>4, <2>5
  <2> HIDE DEF n
  <2>8. (\A x \in doomed' : NextNodes(x)' \subseteq doomed') /\ Reach
    BY <1>1, <2>1, <2>2, <2>3, <2>6, <2>7, ShrinkKeepsReach
  <2>9. Ready
    BY <2>1, <2>2, <2>4 DEF Running
  <2> HIDE DEF Reach, Ready
  <2> QED BY <1>2, <2>8, <2>9
<1>10. CASE DetachReturn
  <2>1. stack # <<>> /\ Top.fn = "detach" /\ Top.at = "loop" /\ Top.todo = <<>> /\ stack' = Tail(stack)
        /\ UNCHANGED <<subscribers, doomed>>
    BY <1>10 DEF DetachReturn, Running, Return
  <2>2. Pending' = Pending
    <3>1. PendingOf(Top) = {}
      BY <2>1 DEF PendingOf
    <3> QED BY <1>1, <2>1, <3>1, PendingIs, PendingReturn
  <2>3. \A u \in Node : Top.node \notin NextNodes(u)
    <3>1. Top.node \in Node
      BY <1>1, <2>1, TopIsFrame
    <3>2. \A u \in Node : Count(subscribers[u], Top.node) = 0
      BY <1>1, <2>1, <3>1 DEF LinkInv, LinksOf, Running, ToSet
    <3> QED BY <1>1, <3>1, <3>2, CountsAreNat
  <2>4. stack' # <<>> => Top'.node = Top.node
    <3>1. Len(stack') = Len(stack) - 1 /\ stack' \in Seq(Frames) /\ Len(stack) \in Nat
          /\ \A i \in 1..Len(stack') : stack'[i] = stack[i + 1]
      BY <1>1, <2>1, HeadTailProperties DEF TypeOK
    <3>2. stack' # <<>> => 1 \in 1..Len(stack') /\ Len(stack) > 1
      BY <3>1
    <3> QED BY <1>1, <2>1, <3>1, <3>2 DEF ShapeInv, Top
  <2>5. Ready \/ \A u \in Node : Top'.node \notin NextNodes(u)'
    BY <2>1, <2>3, <2>4 DEF Running, NextNodes
  <2> HIDE DEF Ready
  <2> QED BY <1>4, <2>1, <2>2, <2>5
<1>11. CASE DetachFromReturn \/ RecurseReturn
  <2>1. /\ stack # <<>> /\ stack' = Tail(stack) /\ UNCHANGED <<subscribers, doomed>> /\ Top.todo = <<>>
        /\ Top.fn \in {"detach_from", "detach_recursively"} /\ Top.at = "loop"
    BY <1>11 DEF DetachFromReturn, RecurseReturn, Running, Return, graphVars
  <2>2. Pending' = Pending
    <3>1. PendingOf(Top) = {}
      BY <2>1 DEF PendingOf, ToSet
    <3> QED BY <1>1, <2>1, <3>1, PendingIs, PendingReturn
  <2>3. Ready
    <3>1. Len(stack') = Len(stack) - 1 /\ stack' \in Seq(Frames) /\ Len(stack) \in Nat
          /\ \A i \in 1..Len(stack') : stack'[i] = stack[i + 1]
      BY <1>1, <2>1, HeadTailProperties DEF TypeOK
    <3>2. stack' # <<>> => 1 \in 1..Len(stack') /\ 2 \in 2..Len(stack)
      BY <3>1
    <3> QED BY <1>1, <2>1, <3>1, <3>2 DEF ShapeInv, Top, Running
  <2> HIDE DEF Ready
  <2> QED BY <1>4, <2>1, <2>2, <2>3
<1>12. CASE RecurseNextNodes
  <2> DEFINE n == Top.node
             f == [Top EXCEPT !.at = "loop", !.todo = subscribers[n]]
  <2>1. /\ stack # <<>> /\ stack' = <<f>> \o Tail(stack) /\ UNCHANGED <<subscribers, doomed>>
        /\ Top.fn = "detach_recursively" /\ Top.at = "next"
    BY <1>12 DEF RecurseNextNodes, Running, Replace, graphVars
  <2>2. f \in Frames /\ f.fn = "detach_recursively" /\ f.at = "loop" /\ f.todo = subscribers[n] /\ n \in Node
    BY <1>1, <2>1, TopIsFrame DEF Frames, TypeOK
  <2> HIDE DEF f
  <2>3. Top' = f /\ Pending' = PendingOf(f) \cup Rest /\ Pending = PendingOf(Top) \cup Rest
    BY <1>1, <2>1, <2>2, PendingOne, PendingIs
  <2>4. PendingOf(f) = NextNodes(n) /\ PendingOf(Top) = {n}
    BY <2>1, <2>2 DEF PendingOf, NextNodes
  <2>5. \A u \in Node : n \notin NextNodes(u)
    BY <2>1 DEF RecursionInv, Running
  <2>6. \A u \in Node : NextNodes(u)' = NextNodes(u)
    BY <2>1 DEF NextNodes
  <2> HIDE DEF n
  <2>7. ASSUME NEW C \in SUBSET Node, \A x \in C : NextNodes(x)' \subseteq C, Pending' \subseteq C, NEW u \in Node
        PROVE  NextNodes(u)' \cap doomed' \subseteq C
    <3>1. Closed(C \cup {n}) /\ C \cup {n} \in SUBSET Node
      BY <2>2, <2>3, <2>4, <2>6, <2>7 DEF Closed
    <3>2. Pending \subseteq C \cup {n}
      BY <2>3, <2>4, <2>7
    <3>3. NextNodes(u) \cap doomed \subseteq C \cup {n}
      BY <3>1, <3>2 DEF RecursionInv
    <3> QED BY <2>1, <2>5, <2>6, <3>3
  <2>8. (\A x \in doomed' : NextNodes(x)' \subseteq doomed') /\ Reach
    BY <1>1, <2>1, <2>6, <2>7 DEF RecursionInv, Closed
  <2>9. Ready
    BY <2>2, <2>3 DEF Running
  <2> HIDE DEF Reach, Ready
  <2> QED BY <1>2, <2>8, <2>9
<1>13. CASE Recurse
  <2> DEFINE n == Head(Top.todo)
             f == Frame("detach", n, "loop", pre_nodes[n])
             g == Frame("detach_recursively", n, "next", <<>>)
             k == [Top EXCEPT !.todo = Tail(@)]
  <2>1. /\ stack # <<>> /\ stack' = <<f, g, k>> \o Tail(stack) /\ Top.todo # <<>>
        /\ Top.fn = "detach_recursively" /\ Top.at = "loop" /\ UNCHANGED <<subscribers, doomed>>
    BY <1>13 DEF Recurse, Running, graphVars
  <2>2. n \in Node /\ k \in Frames /\ k.fn = "detach_recursively" /\ k.at = "loop" /\ k.todo = Tail(Top.todo)
        /\ Top.todo \in Seq(Node)
    BY <1>1, <2>1, TopIsFrame DEF Frames
  <2>4. f \in Frames /\ g \in Frames
    BY <1>1, <2>2, RecurseFrames, Zenon
  <2>5. f.fn = "detach" /\ g.fn = "detach_recursively" /\ g.at = "next" /\ g.node = n
    BY DEF Frame
  <2> HIDE DEF f, g, k
  <2>6. Pending' = PendingOf(f) \cup PendingOf(g) \cup PendingOf(k) \cup Rest /\ Pending = PendingOf(Top) \cup Rest
    BY <1>1, <2>1, <2>2, <2>4, PendingThree, PendingIs
  <2>7. /\ PendingOf(f) = {} /\ PendingOf(g) = {n} /\ PendingOf(k) = ToSet(Tail(Top.todo))
        /\ PendingOf(Top) = ToSet(Top.todo)
    BY <2>1, <2>2, <2>5 DEF PendingOf
  <2>8. ToSet(Top.todo) = {n} \cup ToSet(Tail(Top.todo))
    <3>1. n \in ToSet(Top.todo) /\ ToSet(Tail(Top.todo)) \subseteq ToSet(Top.todo)
      BY <2>1, <2>2 DEF ToSet
    <3> QED BY <2>1, <2>2, <3>1, HeadOrTail
  <2>9. Top' = f
    BY <1>1, <2>1, <2>2, <2>4, ThreeOnTop DEF TypeOK, Top
  <2>10. Pending' = Pending /\ Ready
    BY <2>5, <2>6, <2>7, <2>8, <2>9 DEF Running
  <2> HIDE DEF Ready
  <2> QED BY <1>4, <2>1, <2>10
<1>14. ASSUME stack = <<>> PROVE Pending = {}
  BY <1>14 DEF Pending
<1>15. ASSUME stack = <<>>, NEW fn \in {"attach_to", "detach", "detach_from"}, NEW n, NEW todo,
              stack' = <<Frame(fn, n, "loop", todo)>>
       PROVE  Pending' = {} /\ Ready
  BY <1>15 DEF Pending, PendingOf, Frame, Running, Top
<1>16. ASSUME NEW n \in Node, NEW list \in AttachLists[n], CallAttachTo(n, list) PROVE RecursionInv'
  <2>1. stack = <<>> /\ stack' = <<Frame("attach_to", n, "loop", list)>> /\ doomed' = {}
    BY <1>16 DEF CallAttachTo, Call
  <2> HIDE DEF Ready
  <2> QED BY <1>3, <1>15, <2>1
<1>17. ASSUME NEW n \in Node, CallDetach(n) PROVE RecursionInv'
  <2>1. stack = <<>> /\ stack' = <<Frame("detach", n, "loop", pre_nodes[n])>> /\ UNCHANGED <<subscribers, doomed>>
    BY <1>17 DEF CallDetach, Call, graphVars
  <2> HIDE DEF Ready
  <2> QED BY <1>4, <1>14, <1>15, <2>1
<1>18. ASSUME NEW n \in Node, NEW names \in SUBSET Node, CallDetachFrom(n, names) PROVE RecursionInv'
  <2>1. stack = <<>> /\ stack' = <<Frame("detach_from", n, "loop", Keep(pre_nodes[n], names))>>
        /\ UNCHANGED <<subscribers, doomed>>
    BY <1>18 DEF CallDetachFrom, Call, graphVars
  <2> HIDE DEF Ready
  <2> QED BY <1>4, <1>14, <1>15, <2>1
<1>19. ASSUME NEW n \in Node, CallDetachRecursively(n) PROVE RecursionInv'
  <2>1. /\ stack' = <<Frame("detach", n, "loop", pre_nodes[n]), Frame("detach_recursively", n, "next", <<>>)>>
        /\ doomed' = Below(n) /\ UNCHANGED subscribers
    BY <1>19 DEF CallDetachRecursively, graphVars
  <2>2. Ready
    BY <2>1 DEF Running, Top, Frame
  <2>3. n \in Pending'
    <3>1. /\ Len(stack') = 2 /\ stack'[2].fn = "detach_recursively" /\ stack'[2].at = "next" /\ stack'[2].node = n
      BY <2>1 DEF Frame
    <3>2. PendingOf(stack'[2]) = {n} /\ 2 \in 1..Len(stack')
      BY <3>1 DEF PendingOf
    <3>3. Pending' = UNION {PendingOf(stack'[i]) : i \in 1..Len(stack')}
      BY DEF Pending, PendingOf
    <3> QED BY <3>2, <3>3
  <2>4. \A u \in Node : NextNodes(u)' = NextNodes(u) /\ NextNodes(u) \subseteq Node
    BY <1>1, <2>1 DEF NextNodes, ToSet, TypeOK
  <2>5. ASSUME NEW x \in Below(n), NEW y \in NextNodes(x) PROVE y \in Below(n)
    <3>1. x \in Node /\ y \in Node
      BY <2>4, <2>5 DEF Below
    <3>2. ASSUME NEW C \in SUBSET Node, n \in C, Closed(C) PROVE y \in C
      BY <2>5, <3>2 DEF Below, Closed
    <3> QED BY <3>1, <3>2 DEF Below
  <2>6. \A x \in doomed' : x \in Node
    BY <2>1 DEF Below
  <2>7. \A x \in doomed' : NextNodes(x)' \subseteq doomed'
    BY <2>1, <2>4, <2>5, <2>6
  <2>8. ASSUME NEW C \in SUBSET Node, \A x \in C : NextNodes(x)' \subseteq C, Pending' \subseteq C
        PROVE  doomed' \subseteq C
    <3>1. Closed(C) /\ n \in C
      BY <2>3, <2>4, <2>8 DEF Closed
    <3> QED BY <2>1, <3>1 DEF Below
  <2>9. Reach
    BY <2>8
  <2> HIDE DEF Reach, Ready
  <2> QED BY <1>2, <2>2, <2>7, <2>9
<1>20. CASE Calls
  <2>1. stack = <<>>
    BY <1>20 DEF Calls, CallAttachTo, CallDetach, CallDetachFrom, CallDetachRecursively
  <2> QED BY <1>16, <1>17, <1>18, <1>19, <1>20 DEF Calls
<1>21. CASE GraphThread
  BY <1>8, <1>9, <1>10, <1>11, <1>12, <1>13, <1>21 DEF GraphThread
<1> QED BY <1>6, <1>7, <1>20, <1>21 DEF Next

(* After detach_recursively every node below its own is isolated.  The     *)
(* invariant relates what is still subscribed to what the stack has still  *)
(* to visit: with an empty stack nobody subscribes a node of doomed.  It   *)
(* cannot follow the paths of the graph when the call began, because those *)
(* are cut while it runs.                                                  *)
THEOREM RecursionDetachesAllBelow == ASSUME NoDesAttached PROVE Spec => []RecursionIsolates
<1>1. Init => RecursionInv
  <2> SUFFICES ASSUME Init PROVE RecursionInv
    OBVIOUS
  <2> QED BY DEF Init, RecursionInv, Closed, Running
<1>2. GraphInv /\ RecursionInv => RecursionIsolates
  <2> SUFFICES ASSUME GraphInv, RecursionInv, stack = <<>>, NEW x \in doomed
               PROVE  /\ pre_nodes[x] = <<>> /\ subscribers[x] = <<>>
                      /\ \A u \in Node : x \notin NextNodes(u)
    BY DEF RecursionIsolates
  <2>1. TypeOK /\ x \in Node /\ subscribers[x] \in Seq(Node) /\ pre_nodes[x] \in Seq(Node)
    BY DEF GraphInv, WalkInv, TypeInv, TypeOK
  <2>2. Pending = {}
    BY DEF Pending
  <2>3. \A u \in Node : NextNodes(u) \cap doomed = {}
    BY <2>2 DEF RecursionInv, Closed
  <2>4. NextNodes(x) = {}
    BY <2>1, <2>3 DEF RecursionInv, Closed
  <2>5. \A s \in Seq(Node) : ToSet(s) = {} => s = <<>>
    <3> SUFFICES ASSUME NEW s \in Seq(Node), s # <<>> PROVE ToSet(s) # {}
      OBVIOUS
    <3>1. 1 \in DOMAIN s
      OBVIOUS
    <3> QED BY <3>1 DEF ToSet
  <2>6. \A u \in Node : Count(pre_nodes[x], u) = 0
    <3>1. \A u \in Node : Count(subscribers[u], x) = 0
      BY <2>1, <2>3, CountsAreNat
    <3> QED BY <2>1, <3>1 DEF GraphInv, LinkInv, LinksOf, Running
  <2>7. ToSet(pre_nodes[x]) = {}
    <3>1. ToSet(pre_nodes[x]) \subseteq Node
      BY <2>1 DEF ToSet
    <3> QED BY <2>1, <2>6, <3>1, CountsAreNat
  <2> QED BY <2>1, <2>3, <2>4, <2>5, <2>7 DEF NextNodes
<1>3. GraphInv /\ RecursionInv /\ GraphInv' /\ [Next]_vars => RecursionInv'
  BY RecursionStep
<1> QED BY <1>1, <1>2, <1>3, Graph, PTL DEF Spec

===============================================================================
