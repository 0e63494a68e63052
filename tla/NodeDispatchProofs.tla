-------------------------- MODULE NodeDispatchProofs --------------------------
(***************************************************************************)
(* What holds of the dispatch half of every node, proved for all values of *)
(* the constants.  DispatchInv(k) is the part of a node's inductive        *)
(* invariant that is about this half, k being the number of metas that     *)
(* were pushed to out_queue and not yet signalled; a lemma for each way in *)
(* which a step of a node can touch the half shows that it is kept.        *)
(***************************************************************************)
EXTENDS NodeDispatch, Integers, SequenceTheorems, WellFoundedInduction, TLAPS

(* A signal that the dispatch thread has consumed without having popped    *)
(* the meta it stands for.                                                 *)
DispatchHolds == IF dispatch_pc \in {"front", "leaving", "push", "pop"} THEN 1 ELSE 0

HoldsMeta == dispatch_pc \in {"leaving", "push", "pop"} => out_meta \in Meta

(* Every count of the semaphore stands for a meta of its own in out_queue. *)
Covered(k) == Len(out_queue) >= out_queue_semaphore + DispatchHolds + k

DispatchInv(k) ==
  /\ DispatchTypeOK
  /\ HoldsMeta
  /\ PopRemovesPushed
  /\ Covered(k)

-------------------------------------------------------------------------------
(* Appending to a sequence keeps its type and its head.                    *)
LEMMA AppendKeepsHead ==
  ASSUME NEW S, NEW s \in Seq(S), NEW x \in S
  PROVE  /\ Append(s, x) \in Seq(S)
         /\ Len(Append(s, x)) = Len(s) + 1
         /\ s # <<>> => Append(s, x) # <<>> /\ Head(Append(s, x)) = Head(s)
  OBVIOUS

(* Initially nothing is queued and nothing is signalled.                   *)
LEMMA DispatchInitInv == DispatchInit => DispatchInv(0)
  BY MetaAssumption, SMT
  DEF DispatchInit, DispatchInv, DispatchTypeOK, DispatchPc, HoldsMeta, PopRemovesPushed, Covered,
      DispatchHolds, Meta

(* The dispatch thread consumes a count and its meta together.             *)
LEMMA DispatchThreadInv ==
  ASSUME NEW k \in Nat, DispatchInv(k), DispatchThread, UNCHANGED alive
  PROVE  DispatchInv(k)'
<1> USE MetaAssumption DEF DispatchInv, DispatchTypeOK, DispatchPc, HoldsMeta, PopRemovesPushed,
                           Covered, DispatchHolds
<1>1. CASE DispatchLoop
  BY <1>1 DEF DispatchLoop
<1>2. CASE DispatchWait
  BY <1>2 DEF DispatchWait, WaitOut
<1>3. CASE DispatchFront
  BY <1>3 DEF DispatchFront
<1>4. CASE DispatchLeaving
  BY <1>4 DEF DispatchLeaving, Hook, Arriving, Leaving
<1>5. CASE DispatchPush
  BY <1>5 DEF DispatchPush, PushMeta
<1>6. CASE DispatchPop
  BY <1>6 DEF DispatchPop
<1> QED BY <1>1, <1>2, <1>3, <1>4, <1>5, <1>6 DEF DispatchThread

(* A push to out_queue that another thread has still to signal.            *)
LEMMA PushOutInv ==
  ASSUME NEW k \in Nat, DispatchInv(k), NEW m \in Meta \cup {nullptr},
         out_queue' = Append(out_queue, m),
         UNCHANGED <<alive, out_queue_semaphore, dispatch_pc, out_meta, pushed, hooked>>
  PROVE  DispatchInv(k + 1)'
<1>1. out_queue \in Seq(Meta \cup {nullptr})
  BY DEF DispatchInv, DispatchTypeOK
<1>2. /\ out_queue' \in Seq(Meta \cup {nullptr})
      /\ Len(out_queue') = Len(out_queue) + 1
      /\ out_queue # <<>> => out_queue' # <<>> /\ Head(out_queue') = Head(out_queue)
  BY <1>1, AppendKeepsHead
<1> QED BY <1>1, <1>2
        DEF DispatchInv, DispatchTypeOK, HoldsMeta, PopRemovesPushed, Covered, DispatchHolds

(* The signal for a push.                                                  *)
LEMMA SignalOutInv ==
  ASSUME NEW k \in Nat, DispatchInv(k + 1), SignalOut,
         UNCHANGED <<alive, out_queue, dispatch_pc, out_meta, pushed, hooked>>
  PROVE  DispatchInv(k)'
  BY DEF DispatchInv, DispatchTypeOK, HoldsMeta, PopRemovesPushed, Covered, DispatchHolds, SignalOut

(* A hooker of another thread, and steps that leave the half alone but for *)
(* the alive flag.                                                         *)
LEMMA HookInv ==
  ASSUME NEW k \in Nat, DispatchInv(k), NEW p \in Arriving..Leaving, NEW m, Hook(p, m),
         UNCHANGED <<alive, out_queue, out_queue_semaphore, dispatch_pc, out_meta, pushed>>
  PROVE  DispatchInv(k)'
  BY DEF DispatchInv, DispatchTypeOK, HoldsMeta, PopRemovesPushed, Covered, DispatchHolds, Hook

LEMMA UnchangedInv ==
  ASSUME NEW k \in Nat, DispatchInv(k), alive' \in BOOLEAN, UNCHANGED dispatchVars
  PROVE  DispatchInv(k)'
  BY DEF DispatchInv, DispatchTypeOK, HoldsMeta, PopRemovesPushed, Covered, DispatchHolds,
         dispatchVars

(* The counting is what keeps Front away from an empty queue.              *)
LEMMA FrontFromInv ==
  ASSUME NEW k \in Nat, DispatchInv(k)
  PROVE  FrontNeverEmpty
  BY DEF DispatchInv, DispatchTypeOK, Covered, DispatchHolds, FrontNeverEmpty

-------------------------------------------------------------------------------
(* What the frames of a sequence are.  The induction on its length is by   *)
(* the least counterexample.                                               *)

(* Every nonempty set of naturals has a least element.                     *)
LEMMA LeastNat ==
  ASSUME NEW T, T \subseteq Nat, T # {}
  PROVE  \E n \in T : \A m \in T : n <= m
<1> DEFINE R == OpToRel(<, Nat)
<1>1. IsWellFoundedOn(R, Nat)
  BY NatLessThanWellFounded
<1>2. PICK n \in T : \A m \in T : <<m, n>> \notin R
  <2> HIDE DEF R
  <2> QED BY <1>1, WFMin
<1>3. ASSUME NEW m \in T PROVE n <= m
  <2>1. <<m, n>> \notin R
    BY <1>2
  <2>2. ~(m < n)
    BY <2>1 DEF OpToRel
  <2> QED BY <2>2
<1> QED BY <1>3

(* The function of which Frames chooses one.                               *)
FramesUpTo(g, s, n) ==
  g = [i \in 0..n |-> IF i = 0 THEN <<>>
                      ELSE IF s[i] \in Frame THEN Append(g[i - 1], s[i]) ELSE g[i - 1]]

(* There is such a function up to any length.                              *)
LEMMA FramesUpToExists ==
  ASSUME NEW s
  PROVE  \A n \in Nat : \E g : FramesUpTo(g, s, n)
<1> DEFINE Without == {n \in Nat : ~ \E g : FramesUpTo(g, s, n)}
<1> SUFFICES ASSUME Without # {} PROVE FALSE
  OBVIOUS
<1>1. PICK n \in Without : \A m \in Without : n <= m
  BY LeastNat
<1>2. CASE n = 0
  <2>1. FramesUpTo([i \in 0..0 |-> <<>>], s, 0)
    BY DEF FramesUpTo
  <2> QED BY <1>2, <2>1
<1>3. CASE n # 0
  <2>1. n - 1 \in Nat /\ n - 1 \notin Without
    BY <1>1, <1>3
  <2>2. PICK g : FramesUpTo(g, s, n - 1)
    BY <2>1
  <2> DEFINE last == IF s[n] \in Frame THEN Append(g[n - 1], s[n]) ELSE g[n - 1]
             h == [i \in 0..n |-> IF i = n THEN last ELSE g[i]]
  <2>3. \A i \in 0..n : i # n => h[i] = g[i] /\ (i # 0 => h[i - 1] = g[i - 1])
    OBVIOUS
  <2>4. h[n] = IF s[n] \in Frame THEN Append(h[n - 1], s[n]) ELSE h[n - 1]
    BY <1>3, <2>3
  <2>5. \A i \in 0..n : h[i] = IF i = 0 THEN <<>>
                      ELSE IF s[i] \in Frame THEN Append(h[i - 1], s[i]) ELSE h[i - 1]
    <3> HIDE DEF h
    <3> SUFFICES ASSUME NEW i \in 0..n
                 PROVE  h[i] = IF i = 0 THEN <<>>
                      ELSE IF s[i] \in Frame THEN Append(h[i - 1], s[i]) ELSE h[i - 1]
      OBVIOUS
    <3>1. CASE i = n
      BY <3>1, <2>4, <1>3
    <3>2. CASE i # n
      <4>1. i \in 0..n-1
        BY <3>2
      <4>2. g[i] = IF i = 0 THEN <<>>
                      ELSE IF s[i] \in Frame THEN Append(g[i - 1], s[i]) ELSE g[i - 1]
        BY <2>2, <4>1 DEF FramesUpTo
      <4> QED BY <4>2, <2>3, <3>2
    <3> QED BY <3>1, <3>2
  <2>6. FramesUpTo(h, s, n)
    <3>1. h = [i \in 0..n |-> h[i]]
      OBVIOUS
    <3> HIDE DEF h
    <3> QED BY <2>5, <3>1 DEF FramesUpTo
  <2> QED BY <2>6
<1> QED BY <1>2, <1>3

(* Frames therefore is the last value of one.                              *)
LEMMA FramesAre ==
  ASSUME NEW s, Len(s) \in Nat
  PROVE  \E g : FramesUpTo(g, s, Len(s)) /\ Frames(s) = g[Len(s)]
<1> DEFINE P(g) == FramesUpTo(g, s, Len(s))
<1>1. \E g : P(g)
  BY FramesUpToExists
<1>2. P(CHOOSE g : P(g))
  BY <1>1, Zenon
<1>3. Frames(s) = (CHOOSE g : P(g))[Len(s)]
  BY DEF Frames, FramesUpTo
<1> QED BY <1>2, <1>3

(* The frames of nothing, of a longer sequence, and of two in a row.       *)
LEMMA FramesEmpty == Frames(<<>>) = <<>>
<1>1. PICK g : FramesUpTo(g, <<>>, 0) /\ Frames(<<>>) = g[0]
  BY FramesAre
<1> QED BY <1>1 DEF FramesUpTo

LEMMA FramesAppend ==
  ASSUME NEW S, NEW s \in Seq(S), NEW x \in S
  PROVE  Frames(Append(s, x)) = IF x \in Frame THEN Append(Frames(s), x) ELSE Frames(s)
<1> DEFINE t == Append(s, x)
           n == Len(s)
<1>1. n \in Nat /\ Len(t) = n + 1 /\ t[n + 1] = x /\ \A i \in 1..n : s[i] = t[i]
  BY AppendProperties
<1>2. PICK g : FramesUpTo(g, s, n) /\ Frames(s) = g[n]
  BY <1>1, FramesAre
<1> HIDE DEF t
<1>3. PICK h : FramesUpTo(h, t, n + 1) /\ Frames(t) = h[n + 1]
  <2>1. Len(t) \in Nat
    BY <1>1
  <2>2. \E h : FramesUpTo(h, t, Len(t)) /\ Frames(t) = h[Len(t)]
    BY <2>1, FramesAre
  <2> QED BY <1>1, <2>2
<1> HIDE DEF n
<1>4. g[n] = h[n]
  <2> DEFINE Differ == {i \in 0..n : g[i] # h[i]}
  <2> SUFFICES ASSUME Differ # {} PROVE FALSE
    BY <1>1
  <2>1. PICK i \in Differ : \A j \in Differ : i <= j
    <3>1. Differ \subseteq Nat
      OBVIOUS
    <3> HIDE DEF Differ
    <3> QED BY <3>1, LeastNat
  <2>2. i \in 0..n /\ i \in 0..n + 1 /\ g[i] # h[i]
    BY <1>1
  <2>3. i # 0 => g[i - 1] = h[i - 1] /\ s[i] = t[i]
    <3>1. i # 0 => i - 1 \in 0..n /\ i - 1 \notin Differ /\ i \in 1..n
      BY <1>1, <2>1, <2>2
    <3> QED BY <1>1, <3>1
  <2>4. /\ g[i] = IF i = 0 THEN <<>>
                  ELSE IF s[i] \in Frame THEN Append(g[i - 1], s[i]) ELSE g[i - 1]
        /\ h[i] = IF i = 0 THEN <<>>
                  ELSE IF t[i] \in Frame THEN Append(h[i - 1], t[i]) ELSE h[i - 1]
    BY <1>2, <1>3, <2>2 DEF FramesUpTo
  <2> QED BY <2>2, <2>3, <2>4
<1>5. h[n + 1] = IF t[n + 1] \in Frame THEN Append(h[n], t[n + 1]) ELSE h[n]
  <2>1. n + 1 \in 0..n + 1 /\ n + 1 # 0 /\ (n + 1) - 1 = n
    BY <1>1
  <2> QED BY <1>3, <2>1 DEF FramesUpTo
<1> QED BY <1>1, <1>2, <1>3, <1>4, <1>5 DEF t

LEMMA FramesType ==
  ASSUME NEW S
  PROVE  \A s \in Seq(S) : Frames(s) \in Seq(S \cap Frame)
<1> DEFINE Wrong == {n \in Nat : \E s \in Seq(S) : Len(s) = n /\ Frames(s) \notin Seq(S \cap Frame)}
<1> SUFFICES ASSUME Wrong # {} PROVE FALSE
  <2>1. \A s \in Seq(S) : Len(s) \in Nat
    OBVIOUS
  <2> QED BY <2>1
<1>1. PICK n \in Wrong : \A m \in Wrong : n <= m
  <2>1. Wrong \subseteq Nat
    OBVIOUS
  <2> HIDE DEF Wrong
  <2> QED BY <2>1, LeastNat
<1>2. PICK s \in Seq(S) : Len(s) = n /\ Frames(s) \notin Seq(S \cap Frame)
  OBVIOUS
<1>3. s # <<>>
  BY <1>2, FramesEmpty
<1>4. PICK f \in Seq(S), x \in S : s = Append(f, x)
  BY <1>3, SequenceEmptyOrAppend
<1>5. Len(f) \in Nat /\ Len(f) = n - 1
  BY <1>2, <1>4, AppendProperties
<1>6. Frames(f) \in Seq(S \cap Frame)
  BY <1>1, <1>5
<1>7. Frames(s) = IF x \in Frame THEN Append(Frames(f), x) ELSE Frames(f)
  BY <1>4, FramesAppend
<1> QED BY <1>2, <1>6, <1>7

LEMMA FramesConcat ==
  ASSUME NEW S, NEW s \in Seq(S)
  PROVE  \A t \in Seq(S) : Frames(s \o t) = Frames(s) \o Frames(t)
<1> DEFINE Wrong == {n \in Nat : \E t \in Seq(S) : Len(t) = n /\ Frames(s \o t) # Frames(s) \o Frames(t)}
<1> SUFFICES ASSUME Wrong # {} PROVE FALSE
  <2>1. \A t \in Seq(S) : Len(t) \in Nat
    OBVIOUS
  <2> QED BY <2>1
<1>0. \A u \in Seq(S) : Frames(u) \in Seq(S \cap Frame)
  BY FramesType
<1>1. PICK n \in Wrong : \A m \in Wrong : n <= m
  <2>1. Wrong \subseteq Nat
    OBVIOUS
  <2> HIDE DEF Wrong
  <2> QED BY <2>1, LeastNat
<1>2. PICK t \in Seq(S) : Len(t) = n /\ Frames(s \o t) # Frames(s) \o Frames(t)
  OBVIOUS
<1>3. t # <<>>
  <2>1. s \o <<>> = s
    OBVIOUS
  <2>2. Frames(s) \o <<>> = Frames(s)
    BY <1>0
  <2> QED BY <1>2, <2>1, <2>2, FramesEmpty
<1>4. PICK f \in Seq(S), x \in S : t = Append(f, x)
  BY <1>3, SequenceEmptyOrAppend
<1>5. Len(f) \in Nat /\ Len(f) = n - 1
  BY <1>2, <1>4, AppendProperties
<1>6. Frames(s \o f) = Frames(s) \o Frames(f)
  BY <1>1, <1>5, SMTT(30)
<1>7. Frames(t) = IF x \in Frame THEN Append(Frames(f), x) ELSE Frames(f)
  BY <1>4, FramesAppend
<1>8. s \o t = Append(s \o f, x) /\ s \o f \in Seq(S)
  <2> HIDE DEF Wrong
  <2>1. <<x>> \in Seq(S) /\ s \o f \in Seq(S)
    OBVIOUS
  <2>2. t = f \o <<x>> /\ Append(s \o f, x) = (s \o f) \o <<x>>
    BY <1>4, <2>1, AppendIsConcat
  <2>3. (s \o f) \o <<x>> = s \o (f \o <<x>>)
    BY <2>1, ConcatAssociative, SMTT(30)
  <2> QED BY <2>1, <2>2, <2>3
<1>9. Frames(s \o t) = IF x \in Frame THEN Append(Frames(s \o f), x) ELSE Frames(s \o f)
  <2> DEFINE r == s \o f
  <2>1. r \in Seq(S) /\ s \o t = Append(r, x)
    BY <1>8
  <2> HIDE DEF r, Wrong
  <2>2. Frames(Append(r, x)) = IF x \in Frame THEN Append(Frames(r), x) ELSE Frames(r)
    BY <2>1, FramesAppend
  <2> QED BY <2>1, <2>2 DEF r
<1>10. ASSUME x \in Frame
       PROVE  Append(Frames(s) \o Frames(f), x) = Frames(s) \o Append(Frames(f), x)
  <2> DEFINE F == S \cap Frame
             u == Frames(s)
             v == Frames(f)
  <2>1. u \in Seq(F) /\ v \in Seq(F) /\ x \in F
    BY <1>0, <1>10
  <2> HIDE DEF F, u, v, Wrong
  <2>2. <<x>> \in Seq(F) /\ u \o v \in Seq(F)
    BY <2>1
  <2>3. Append(u \o v, x) = (u \o v) \o <<x>> /\ Append(v, x) = v \o <<x>>
    BY <2>1, <2>2, AppendIsConcat
  <2>4. (u \o v) \o <<x>> = u \o (v \o <<x>>)
    BY <2>1, <2>2, ConcatAssociative, SMTT(30)
  <2> QED BY <2>3, <2>4 DEF u, v
<1> QED BY <1>2, <1>6, <1>7, <1>9, <1>10

(* The frames that one meta is, and those of a sequence from its head on.  *)
AsFrames(m) == IF m \in Frame THEN <<m>> ELSE <<>>

LEMMA FramesCons ==
  ASSUME NEW S, NEW s \in Seq(S), s # <<>>
  PROVE  Frames(s) = AsFrames(Head(s)) \o Frames(Tail(s))
<1> DEFINE h == Head(s)
           t == Tail(s)
<1>1. h \in S /\ t \in Seq(S) /\ <<h>> \in Seq(S) /\ s = <<h>> \o t
  OBVIOUS
<1> HIDE DEF h, t
<1>2. Frames(s) = Frames(<<h>>) \o Frames(t)
  BY <1>1, FramesConcat
<1>3. Frames(<<h>>) = AsFrames(h)
  <2>1. <<>> \in Seq(S) /\ <<h>> = Append(<<>>, h)
    BY <1>1
  <2>2. Frames(<<h>>) = IF h \in Frame THEN Append(<<>>, h) ELSE <<>>
    <3> DEFINE e == <<>>
    <3>1. e \in Seq(S) /\ h \in S /\ Frames(e) = <<>>
      BY <1>1, FramesEmpty
    <3> HIDE DEF e
    <3>2. Frames(Append(e, h)) = IF h \in Frame THEN Append(Frames(e), h) ELSE Frames(e)
      BY <3>1, FramesAppend
    <3> QED BY <2>1, <3>1, <3>2 DEF e
  <2> QED BY <2>2 DEF AsFrames
<1> QED BY <1>2, <1>3 DEF h, t

(* The frames of a sequence of frames are all of it.                       *)
LEMMA FramesOfFrames == \A s \in Seq(Frame) : Frames(s) = s
<1> DEFINE Wrong == {n \in Nat : \E s \in Seq(Frame) : Len(s) = n /\ Frames(s) # s}
<1> SUFFICES ASSUME Wrong # {} PROVE FALSE
  <2>1. \A s \in Seq(Frame) : Len(s) \in Nat
    OBVIOUS
  <2> QED BY <2>1
<1>1. PICK n \in Wrong : \A m \in Wrong : n <= m
  <2>1. Wrong \subseteq Nat
    OBVIOUS
  <2> HIDE DEF Wrong
  <2> QED BY <2>1, LeastNat
<1>2. PICK s \in Seq(Frame) : Len(s) = n /\ Frames(s) # s
  OBVIOUS
<1>3. PICK f \in Seq(Frame), x \in Frame : s = Append(f, x)
  BY <1>2, FramesEmpty, SequenceEmptyOrAppend
<1>4. Len(f) \in Nat /\ Len(f) = n - 1
  BY <1>2, <1>3, AppendProperties
<1>5. Frames(f) = f
  BY <1>1, <1>4
<1>6. Frames(s) = Append(Frames(f), x)
  BY <1>3, FramesAppend
<1> QED BY <1>2, <1>3, <1>5, <1>6

-------------------------------------------------------------------------------
(* What went through out_queue is a sequence of metas and dead flags.      *)
LEMMA ThroughType ==
  ASSUME NEW k \in Nat, DispatchInv(k)
  PROVE  /\ pushed \in Seq(Meta \cup {nullptr})
         /\ OutBacklog \in Seq(Meta \cup {nullptr})
         /\ Through \in Seq(Meta \cup {nullptr})
<1>1. pushed \in Seq(Meta \cup {nullptr}) /\ out_queue \in Seq(Meta \cup {nullptr})
  BY DEF DispatchInv, DispatchTypeOK
<1>2. dispatch_pc = "pop" => out_queue # <<>>
  BY DEF DispatchInv, PopRemovesPushed
<1>3. OutBacklog \in Seq(Meta \cup {nullptr})
  BY <1>1, <1>2, HeadTailProperties DEF OutBacklog
<1> QED BY <1>1, <1>3, ConcatProperties DEF Through

(* The dispatch thread neither loses, duplicates nor reorders a meta: what *)
(* it pops is what it pushed.                                              *)
LEMMA DispatchKeepsThrough ==
  ASSUME NEW k \in Nat, DispatchInv(k), DispatchThread
  PROVE  Through' = Through
<1> DEFINE E == Meta \cup {nullptr}
<1>0. pushed \in Seq(E) /\ out_queue \in Seq(E)
  BY DEF DispatchInv, DispatchTypeOK
<1>1. CASE DispatchLoop \/ DispatchWait \/ DispatchFront \/ DispatchLeaving
  BY <1>1 DEF DispatchLoop, DispatchWait, DispatchFront, DispatchLeaving, Through, OutBacklog
<1>2. CASE DispatchPush
  <2>1. /\ pushed' = Append(pushed, Head(out_queue))
        /\ out_queue # <<>>
        /\ Through = pushed \o out_queue
        /\ Through' = pushed' \o Tail(out_queue)
    BY <1>2 DEF DispatchPush, PushMeta, DispatchInv, PopRemovesPushed, Through, OutBacklog
  <2> DEFINE h == Head(out_queue)
             t == Tail(out_queue)
  <2>2. h \in E /\ t \in Seq(E) /\ out_queue = <<h>> \o t
    BY <1>0, <2>1
  <2>3. Append(pushed, h) = pushed \o <<h>> /\ <<h>> \in Seq(E)
    BY <1>0, <2>2, AppendIsConcat
  <2> HIDE DEF h, t
  <2>4. (pushed \o <<h>>) \o t = pushed \o (<<h>> \o t)
    BY <1>0, <2>2, <2>3, ConcatAssociative
  <2> QED BY <2>1, <2>2, <2>3, <2>4 DEF h, t
<1>3. CASE DispatchPop
  BY <1>3 DEF DispatchPop, DispatchInv, PopRemovesPushed, Through, OutBacklog
<1> QED BY <1>1, <1>2, <1>3 DEF DispatchThread

(* A meta that is queued is behind all others.                             *)
LEMMA PushExtendsThrough ==
  ASSUME NEW k \in Nat, DispatchInv(k), NEW m \in Meta \cup {nullptr},
         out_queue' = Append(out_queue, m), UNCHANGED <<dispatch_pc, pushed>>
  PROVE  Through' = Append(Through, m)
<1> DEFINE E == Meta \cup {nullptr}
<1>0. pushed \in Seq(E) /\ out_queue \in Seq(E) /\ OutBacklog \in Seq(E)
  BY ThroughType DEF DispatchInv, DispatchTypeOK
<1>1. OutBacklog' = Append(OutBacklog, m)
  <2>1. dispatch_pc = "pop" => out_queue # <<>>
    BY DEF DispatchInv, PopRemovesPushed
  <2> QED BY <1>0, <2>1 DEF OutBacklog
<1> QED BY <1>0, <1>1 DEF Through

===============================================================================
