------------------------------ MODULE VpNodeProofs ------------------------------
(***************************************************************************)
(* Theorems about VpNode, for every set of previous nodes, frames and      *)
(* controls, every batch size and all controls that are consumed or        *)
(* pended.                                                                 *)
(*                                                                         *)
(* The node never relies on the mutex of a queue for more than one call.   *)
(* What makes its separate calls work together is counting: every count of *)
(* a semaphore, and every meta a thread is about to signal or holds after  *)
(* a wait, stands for an element of the queue of its own.  That is the     *)
(* inductive invariant; the properties follow from it.                     *)
(***************************************************************************)
EXTENDS VpNode, NodeDispatchProofs, FiniteSetTheorems

(* Metas in out_queue that the handle thread has still to signal.          *)
Unsignalled ==
  IF handle_pc \in {"pend_handled", "pend_signal", "handled", "signal", "dead_signal"}
  THEN 1 ELSE 0

(* The previous nodes in the middle of meta_flow, between push and signal. *)
Flowing == {u \in Upstream : flow_pc[u] # "idle"}

OwnerOwes == IF owner_pc = "signal" THEN 1 ELSE 0
HandleHolds == IF handle_pc = "pop" THEN 1 ELSE 0

InCovered ==
  Len(in_queue) >= in_queue_semaphore + Cardinality(Flowing) + OwnerOwes + HandleHolds

(* The handle thread has a meta, or a frame of the batch, where it uses it. *)
InHand ==
  /\ handle_pc \in {"handling", "handle"} => in_meta \in Meta
  /\ handle_pc \in {"pend", "pend_handled", "pend_signal"} => in_meta \in Control
  /\ IF handle_pc \in {"emit", "handled", "signal"}
     THEN emitted < Len(frame_meta_batch_cache)
     ELSE emitted = 0

IInv ==
  /\ TypeOK
  /\ DispatchInv(Unsignalled)
  /\ InCovered
  /\ InHand

-------------------------------------------------------------------------------
(* The invariant holds before the threads start.                           *)
LEMMA InitIInv == Init => IInv
<1> SUFFICES ASSUME Init PROVE IInv
  OBVIOUS
<1>1. DispatchInv(0) /\ Unsignalled = 0
  BY DispatchInitInv DEF Init, Unsignalled
<1>2. TypeOK
  BY <1>1 DEF Init, TypeOK, DispatchInv, HandlePc
<1>3. Flowing = {}
  BY DEF Init, Flowing
<1>4. Cardinality(Flowing) = 0
  BY <1>3, FS_EmptySet
<1>5. InCovered /\ InHand
  BY <1>4 DEF Init, InCovered, InHand, OwnerOwes, HandleHolds
<1> QED BY <1>1, <1>2, <1>5 DEF IInv

(* A previous node enters, stays in, or leaves meta_flow.                  *)
LEMMA FlowingFinite == ASSUME TypeOK PROVE IsFiniteSet(Flowing) /\ Cardinality(Flowing) \in Nat
<1>1. Flowing \subseteq Upstream
  BY DEF Flowing
<1>2. IsFiniteSet(Flowing)
  BY <1>1, VpNodeAssumption, FS_Subset
<1> QED BY <1>2, FS_CardinalityType

LEMMA FlowingEnters ==
  ASSUME TypeOK, NEW u \in Upstream, flow_pc[u] = "idle",
         flow_pc' = [flow_pc EXCEPT ![u] = "hook"]
  PROVE  Cardinality(Flowing') = Cardinality(Flowing) + 1
<1>1. Flowing' = Flowing \cup {u} /\ u \notin Flowing
  BY DEF Flowing, TypeOK
<1> QED BY <1>1, FlowingFinite, FS_AddElement

LEMMA FlowingLeaves ==
  ASSUME TypeOK, NEW u \in Upstream, flow_pc[u] = "signal",
         flow_pc' = [flow_pc EXCEPT ![u] = "idle"]
  PROVE  Cardinality(Flowing') = Cardinality(Flowing) - 1
<1>1. Flowing' = Flowing \ {u} /\ u \in Flowing
  BY DEF Flowing, TypeOK
<1> QED BY <1>1, FlowingFinite, FS_RemoveElement

-------------------------------------------------------------------------------
(* What a step of another thread than the dispatch thread may do to the    *)
(* dispatch half: nothing, a hooker, a push, or a signal.                  *)
LEMMA DispatchKept ==
  ASSUME DispatchInv(Unsignalled), alive' \in BOOLEAN, UNCHANGED dispatchVars,
         Unsignalled' = Unsignalled
  PROVE  DispatchInv(Unsignalled)'
<1>1. CASE Unsignalled = 0
  <2>1. DispatchInv(0)'
    BY <1>1, UnchangedInv
  <2> QED BY <1>1, <2>1
<1>2. CASE Unsignalled = 1
  <2>1. DispatchInv(1)'
    BY <1>2, UnchangedInv
  <2> QED BY <1>2, <2>1
<1> QED BY <1>1, <1>2 DEF Unsignalled

LEMMA HookKept ==
  ASSUME DispatchInv(Unsignalled), NEW p \in Arriving..Leaving, NEW m, Hook(p, m),
         UNCHANGED <<alive, outVars, dispatch_pc, out_meta, pushed>>, Unsignalled' = Unsignalled
  PROVE  DispatchInv(Unsignalled)'
<1> USE DEF outVars
<1>1. CASE Unsignalled = 0
  <2>1. DispatchInv(0)'
    BY <1>1, HookInv
  <2> QED BY <1>1, <2>1
<1>2. CASE Unsignalled = 1
  <2>1. DispatchInv(1)'
    BY <1>2, HookInv
  <2> QED BY <1>2, <2>1
<1> QED BY <1>1, <1>2 DEF Unsignalled

LEMMA PushKept ==
  ASSUME DispatchInv(Unsignalled), Unsignalled = 0, Unsignalled' = 1,
         NEW m \in Meta \cup {nullptr}, out_queue' = Append(out_queue, m),
         UNCHANGED <<alive, out_queue_semaphore, dispatch_pc, out_meta, pushed, hooked>>
  PROVE  DispatchInv(Unsignalled)'
<1>1. DispatchInv(0 + 1)'
  BY PushOutInv
<1> QED BY <1>1

LEMMA SignalKept ==
  ASSUME DispatchInv(Unsignalled), Unsignalled = 1, Unsignalled' = 0, SignalOut,
         UNCHANGED <<alive, out_queue, dispatch_pc, out_meta, pushed, hooked>>
  PROVE  DispatchInv(Unsignalled)'
<1>1. DispatchInv(0 + 1)
  OBVIOUS
<1>2. DispatchInv(0)'
  BY <1>1, SignalOutInv
<1> QED BY <1>2

(* Every step of the dispatch thread.                                      *)
LEMMA DispatchIInv == ASSUME IInv, Dispatch PROVE IInv'
<1>1. DispatchThread /\ UNCHANGED <<alive, flowVars, inVars, handleVars, owner_pc>>
  BY DEF Dispatch
<1>2. Unsignalled \in {0, 1} /\ Unsignalled' = Unsignalled
  BY <1>1 DEF Unsignalled, handleVars
<1>3. DispatchInv(Unsignalled)'
  <2>1. CASE Unsignalled = 0
    <3>1. DispatchInv(0)'
      BY <1>1, <2>1, DispatchThreadInv DEF IInv
    <3> QED BY <1>2, <2>1, <3>1
  <2>2. CASE Unsignalled = 1
    <3>1. DispatchInv(1)'
      BY <1>1, <2>2, DispatchThreadInv DEF IInv
    <3> QED BY <1>2, <2>2, <3>1
  <2> QED BY <1>2, <2>1, <2>2
<1>4. TypeOK' /\ InHand'
  BY <1>1, <1>3 DEF IInv, TypeOK, HandlePc, InHand, DispatchInv, flowVars, inVars, handleVars
<1>5. InCovered'
  BY <1>1 DEF IInv, InCovered, Flowing, OwnerOwes, HandleHolds, flowVars, inVars, handleVars
<1> QED BY <1>3, <1>4, <1>5 DEF IInv

-------------------------------------------------------------------------------
(* Every step of a previous node.  Its push and its signal are the two     *)
(* ends of a stretch in which the node counts it among Flowing.            *)
LEMMA UpstreamIInv ==
  ASSUME IInv, NEW u \in Upstream,
         Attach(u) \/ Detach(u) \/ Flow(u) \/ \E m \in Meta : MetaFlowPush(u, m)
  PROVE  IInv'
<1> USE DEF IInv, flowVars, inVars, handleVars, outVars
<1>0. TypeOK /\ DispatchInv(Unsignalled) /\ InCovered /\ InHand
  OBVIOUS
<1>1. CASE Attach(u) \/ Detach(u)
  <2> USE <1>1 DEF Attach, Detach
  <2>1. DispatchInv(Unsignalled)'
    <3>1. alive' \in BOOLEAN /\ UNCHANGED dispatchVars /\ Unsignalled' = Unsignalled
      BY DEF Unsignalled, TypeOK, DispatchTypeOK
    <3> QED BY <3>1, DispatchKept
  <2>2. TypeOK' /\ InHand'
    BY <2>1 DEF TypeOK, HandlePc, InHand, DispatchInv
  <2>3. InCovered'
    BY DEF InCovered, Flowing, OwnerOwes, HandleHolds
  <2> QED BY <2>1, <2>2, <2>3
<1>2. ASSUME NEW m \in Meta, MetaFlowPush(u, m)
      PROVE  IInv'
  <2> USE <1>2 DEF MetaFlowPush
  <2>1. DispatchInv(Unsignalled)'
    <3>1. alive' \in BOOLEAN /\ UNCHANGED dispatchVars /\ Unsignalled' = Unsignalled
      BY DEF Unsignalled, TypeOK, DispatchTypeOK
    <3> QED BY <3>1, DispatchKept
  <2>2. TypeOK' /\ InHand'
    BY <2>1 DEF TypeOK, HandlePc, InHand, DispatchInv
  <2>3. Len(in_queue') = Len(in_queue) + 1
    BY AppendKeepsHead DEF TypeOK
  <2>4. Cardinality(Flowing') = Cardinality(Flowing) + 1
    BY FlowingEnters
  <2>5. InCovered'
    BY <2>3, <2>4, FlowingFinite, SMTT(30) DEF InCovered, OwnerOwes, HandleHolds, TypeOK
  <2> QED BY <2>1, <2>2, <2>5
<1>3. CASE MetaFlowHook(u)
  <2> USE <1>3 DEF MetaFlowHook
  <2>1. DispatchInv(Unsignalled)'
    <3>1. Unsignalled' = Unsignalled /\ Arriving \in Arriving..Leaving
      BY DEF Unsignalled, Arriving, Leaving
    <3> QED BY <3>1, HookKept
  <2>2. TypeOK' /\ InHand'
    BY <2>1 DEF TypeOK, HandlePc, InHand, DispatchInv
  <2>3. Flowing' = Flowing
    BY DEF Flowing, TypeOK
  <2>4. InCovered'
    BY <2>3 DEF InCovered, OwnerOwes, HandleHolds
  <2> QED BY <2>1, <2>2, <2>4
<1>4. CASE MetaFlowSignal(u)
  <2> USE <1>4 DEF MetaFlowSignal, SignalIn
  <2>1. DispatchInv(Unsignalled)'
    <3>1. alive' \in BOOLEAN /\ UNCHANGED dispatchVars /\ Unsignalled' = Unsignalled
      BY DEF Unsignalled, TypeOK, DispatchTypeOK
    <3> QED BY <3>1, DispatchKept
  <2>2. TypeOK' /\ InHand'
    BY <2>1 DEF TypeOK, HandlePc, InHand, DispatchInv
  <2>3. Cardinality(Flowing') = Cardinality(Flowing) - 1
    BY FlowingLeaves
  <2>4. InCovered'
    BY <2>3, FlowingFinite DEF InCovered, OwnerOwes, HandleHolds, TypeOK
  <2> QED BY <2>1, <2>2, <2>4
<1> QED BY <1>1, <1>2, <1>3, <1>4 DEF Flow

(* Every step of the destructor.                                           *)
LEMMA OwnerIInv == ASSUME IInv, Destroy \/ Deinit PROVE IInv'
<1> USE DEF IInv, flowVars, inVars, handleVars
<1>1. alive' \in BOOLEAN /\ UNCHANGED dispatchVars /\ UNCHANGED handleVars
  BY DEF Destroy, Deinit, DeinitPush, DeinitSignal, JoinHandle, JoinDispatch, TypeOK, DispatchTypeOK
<1>2. DispatchInv(Unsignalled)'
  BY <1>1, DispatchKept DEF Unsignalled
<1>3. Flowing' = Flowing /\ Cardinality(Flowing) \in Nat
  BY FlowingFinite
  DEF Flowing, Destroy, Deinit, DeinitPush, DeinitSignal, JoinHandle, JoinDispatch
<1>4. CASE Destroy
  BY <1>2, <1>3, <1>4
  DEF Destroy, TypeOK, HandlePc, InHand, DispatchInv, InCovered, OwnerOwes, HandleHolds
<1>5. CASE DeinitPush
  <2>1. /\ in_queue' \in Seq(Meta \cup {nullptr})
        /\ Len(in_queue') = Len(in_queue) + 1
    BY <1>5, AppendKeepsHead DEF DeinitPush, TypeOK
  <2> QED BY <1>2, <1>3, <1>5, <2>1
          DEF DeinitPush, TypeOK, HandlePc, InHand, DispatchInv, InCovered, OwnerOwes, HandleHolds
<1>6. CASE DeinitSignal
  BY <1>2, <1>3, <1>6
  DEF DeinitSignal, SignalIn, TypeOK, HandlePc, InHand, DispatchInv, InCovered, OwnerOwes,
      HandleHolds
<1>7. CASE JoinHandle \/ JoinDispatch
  BY <1>2, <1>3, <1>7
  DEF JoinHandle, JoinDispatch, TypeOK, HandlePc, InHand, DispatchInv, InCovered, OwnerOwes,
      HandleHolds
<1> QED BY <1>4, <1>5, <1>6, <1>7 DEF Deinit

-------------------------------------------------------------------------------
(* The steps of the handle thread that leave the dispatch half alone.      *)
LEMMA HandleAloneIInv ==
  ASSUME IInv,
         HandleLoop \/ HandleWait \/ HandlePop \/ HandleControl \/ FinishControl \/ HandleFrame
  PROVE  IInv'
<1> USE MetaAssumption, VpNodeAssumption DEF IInv, flowVars, inVars
<1>1. /\ alive' \in BOOLEAN /\ UNCHANGED dispatchVars /\ UNCHANGED <<flowVars, owner_pc>>
      /\ Unsignalled' = Unsignalled
  BY DEF HandleLoop, HandleWait, HandlePop, HandleControl, FinishControl, HandleFrame,
         TypeOK, DispatchTypeOK, Unsignalled
<1>2. DispatchInv(Unsignalled)'
  BY <1>1, DispatchKept
<1>3. Flowing' = Flowing /\ Cardinality(Flowing) \in Nat /\ OwnerOwes' = OwnerOwes
  BY <1>1, FlowingFinite DEF Flowing, OwnerOwes
<1>4. CASE HandleLoop
  BY <1>2, <1>3, <1>4 DEF HandleLoop, TypeOK, HandlePc, InHand, DispatchInv, InCovered, HandleHolds
<1>5. CASE HandleWait
  BY <1>2, <1>3, <1>5
  DEF HandleWait, WaitIn, TypeOK, HandlePc, InHand, DispatchInv, InCovered, HandleHolds, OwnerOwes
<1>6. CASE HandlePop
  <2> USE <1>6 DEF HandlePop
  <2>1. /\ in_queue' \in Seq(Meta \cup {nullptr})
        /\ Len(in_queue') = Len(in_queue) - 1
        /\ in_meta' \in Meta \cup {nullptr}
    BY DEF TypeOK
  <2> QED BY <1>2, <1>3, <2>1
          DEF TypeOK, HandlePc, InHand, DispatchInv, InCovered, HandleHolds, OwnerOwes
<1>7. CASE HandleControl
  BY <1>2, <1>3, <1>7
  DEF HandleControl, TypeOK, HandlePc, InHand, DispatchInv, InCovered, HandleHolds
<1>8. CASE FinishControl
  BY <1>2, <1>3, <1>8
  DEF FinishControl, TypeOK, HandlePc, InHand, DispatchInv, InCovered, HandleHolds
<1>9. CASE HandleFrame
  <2> USE <1>9 DEF HandleFrame
  <2>1. /\ frame_meta_batch_cache' \in Seq(Frame)
        /\ Len(frame_meta_batch_cache') = Len(frame_meta_batch_cache) + 1
    BY AppendKeepsHead DEF TypeOK
  <2>2. emitted' = 0 /\ Len(frame_meta_batch_cache') > 0
    BY <2>1 DEF InHand, TypeOK
  <2> QED BY <1>2, <1>3, <2>1, <2>2
          DEF TypeOK, HandlePc, InHand, DispatchInv, InCovered, HandleHolds
<1> QED BY <1>4, <1>5, <1>6, <1>7, <1>8, <1>9

(* Its steps that invoke a hooker, queue a meta or signal one.             *)
LEMMA HandleOutIInv ==
  ASSUME IInv,
         \/ HandleHandling \/ PendingHandled \/ EmitHandled
         \/ PendingPush \/ EmitPush \/ HandleDeadPush
         \/ PendingSignal \/ EmitSignal \/ HandleDeadSignal
  PROVE  IInv'
<1> USE MetaAssumption DEF IInv, flowVars, inVars, outVars
<1>1. UNCHANGED <<flowVars, inVars, owner_pc>> /\ HandleHolds' = HandleHolds
  BY DEF HandleHandling, PendingHandled, EmitHandled, PendingPush, EmitPush, HandleDeadPush,
         PendingSignal, EmitSignal, HandleDeadSignal, HandleHolds
<1>2. InCovered'
  BY <1>1 DEF InCovered, Flowing, OwnerOwes
<1>3. CASE HandleHandling \/ PendingHandled \/ EmitHandled
  <2> USE <1>3 DEF HandleHandling, PendingHandled, EmitHandled
  <2>1. Unsignalled' = Unsignalled /\ Handling \in Arriving..Leaving /\ Handled \in Arriving..Leaving
    BY DEF Unsignalled, Arriving, Leaving, Handling, Handled
  <2>2. DispatchInv(Unsignalled)'
    BY <2>1, HookKept
  <2> QED BY <1>1, <1>2, <2>2 DEF TypeOK, HandlePc, InHand, DispatchInv
<1>4. CASE PendingPush
  <2> USE <1>4 DEF PendingPush
  <2>1. Unsignalled = 0 /\ Unsignalled' = 1 /\ in_meta \in Meta
    BY DEF Unsignalled, InHand, Meta
  <2>2. DispatchInv(Unsignalled)'
    BY <2>1, PushKept
  <2> QED BY <1>1, <1>2, <2>2 DEF TypeOK, HandlePc, InHand, DispatchInv
<1>5. CASE EmitPush
  <2> USE <1>5 DEF EmitPush
  <2>1. Current \in Meta
    BY DEF InHand, TypeOK, Current, Meta
  <2>2. Unsignalled = 0 /\ Unsignalled' = 1
    BY DEF Unsignalled
  <2>3. DispatchInv(Unsignalled)'
    BY <2>1, <2>2, PushKept
  <2> QED BY <1>1, <1>2, <2>3 DEF TypeOK, HandlePc, InHand, DispatchInv
<1>6. CASE HandleDeadPush
  <2> USE <1>6 DEF HandleDeadPush
  <2>1. Unsignalled = 0 /\ Unsignalled' = 1
    BY DEF Unsignalled
  <2>2. DispatchInv(Unsignalled)'
    BY <2>1, PushKept
  <2> QED BY <1>1, <1>2, <2>2 DEF TypeOK, HandlePc, InHand, DispatchInv
<1>7. CASE PendingSignal \/ HandleDeadSignal
  <2> USE <1>7 DEF PendingSignal, HandleDeadSignal
  <2>1. Unsignalled = 1 /\ Unsignalled' = 0
    BY DEF Unsignalled
  <2>2. DispatchInv(Unsignalled)'
    BY <2>1, SignalKept
  <2> QED BY <1>1, <1>2, <2>2 DEF TypeOK, HandlePc, InHand, DispatchInv
<1>8. CASE EmitSignal
  <2> USE <1>8 DEF EmitSignal
  <2>1. Unsignalled = 1 /\ Unsignalled' = 0
    BY DEF Unsignalled
  <2>2. DispatchInv(Unsignalled)'
    BY <2>1, SignalKept
  <2>3. CASE emitted + 1 < Len(frame_meta_batch_cache)
    BY <1>1, <1>2, <2>2, <2>3 DEF TypeOK, HandlePc, InHand, DispatchInv
  <2>4. CASE ~(emitted + 1 < Len(frame_meta_batch_cache))
    BY <1>1, <1>2, <2>2, <2>4 DEF TypeOK, HandlePc, InHand, DispatchInv
  <2> QED BY <2>3, <2>4
<1> QED BY <1>3, <1>4, <1>5, <1>6, <1>7, <1>8

(* The invariant is inductive.                                             *)
LEMMA NextIInv == ASSUME IInv, [Next]_vars PROVE IInv'
<1>1. CASE UNCHANGED vars
  <2>1. DispatchInv(Unsignalled)'
    BY <1>1, DispatchKept DEF IInv, vars, handleVars, Unsignalled, TypeOK, DispatchTypeOK
  <2>2. TypeOK' /\ InHand'
    BY <1>1, <2>1
    DEF IInv, vars, flowVars, inVars, handleVars, TypeOK, HandlePc, InHand, DispatchInv
  <2>3. InCovered'
    BY <1>1
    DEF IInv, vars, flowVars, inVars, handleVars, InCovered, Flowing, OwnerOwes, HandleHolds
  <2> QED BY <2>1, <2>2, <2>3 DEF IInv
<1>2. CASE Terminated
  BY <1>1, <1>2 DEF Terminated
<1>3. CASE \E u \in Upstream : Attach(u) \/ Detach(u) \/ Flow(u)
  BY <1>3, UpstreamIInv
<1>4. CASE \E u \in Upstream, m \in Meta : MetaFlowPush(u, m)
  BY <1>4, UpstreamIInv
<1>5. CASE HandleThread
  BY <1>5, HandleAloneIInv, HandleOutIInv DEF HandleThread
<1>6. CASE Dispatch \/ Destroy \/ Deinit
  BY <1>6, DispatchIInv, OwnerIInv
<1> QED BY <1>1, <1>2, <1>3, <1>4, <1>5, <1>6 DEF Next

-------------------------------------------------------------------------------
(* The invariant holds throughout: no interleaving of meta_flow, the two   *)
(* threads and deinitialized breaks the counting.                          *)
THEOREM Inductive == Spec => []IInv
<1>1. Init => IInv
  BY InitIInv
<1>2. IInv /\ [Next]_vars => IInv'
  BY NextIInv
<1> QED BY <1>1, <1>2, PTL DEF Spec

(* Every variable of a node keeps its type: in particular no dead flag     *)
(* ever gets into a batch or is forwarded by push_meta.                    *)
THEOREM TypeCorrect == Spec => []TypeOK
<1>1. IInv => TypeOK
  BY DEF IInv
<1> QED BY <1>1, Inductive, PTL

(* dispatch_run never calls Front on an empty queue: it would throw.       *)
THEOREM FrontIsSafe == Spec => []FrontNeverEmpty
<1>1. IInv => FrontNeverEmpty
  <2> SUFFICES ASSUME IInv PROVE FrontNeverEmpty
    OBVIOUS
  <2>1. Len(out_queue) >= out_queue_semaphore + DispatchHolds + Unsignalled
    BY DEF IInv, DispatchInv, Covered
  <2> QED BY <2>1
          DEF IInv, TypeOK, DispatchTypeOK, DispatchHolds, Unsignalled, FrontNeverEmpty
<1> QED BY <1>1, Inductive, PTL

(* The element that dispatch_run pops, in a call of its own, is the one it *)
(* looked at and forwarded, whatever was pushed in between.                *)
THEOREM PopIsSafe == Spec => []PopRemovesPushed
<1>1. IInv => PopRemovesPushed
  BY DEF IInv, DispatchInv
<1> QED BY <1>1, Inductive, PTL

(* The handle thread never blocks in WaitAndPop once it has acquired       *)
(* in_queue_semaphore, however many previous nodes push at the same time.  *)
THEOREM WaitAndPopIsSafe == Spec => []WaitAndPopNeverBlocks
<1>1. IInv => WaitAndPopNeverBlocks
  <2> SUFFICES ASSUME IInv PROVE WaitAndPopNeverBlocks
    OBVIOUS
  <2>1. Cardinality(Flowing) \in Nat
    BY FlowingFinite DEF IInv
  <2> QED BY <2>1
          DEF IInv, TypeOK, InCovered, HandleHolds, OwnerOwes, WaitAndPopNeverBlocks
<1> QED BY <1>1, Inductive, PTL

-------------------------------------------------------------------------------
(* The dead flag of the dispatch thread is the last thing the handle       *)
(* thread queues.                                                          *)
NoFlagYet ==
  handle_pc \notin {"dead_signal", "exit"} => \A i \in DOMAIN out_queue : out_queue[i] # nullptr

FlagInv == NoFlagYet /\ DeadFlagLast

(* The hookers that have run for the metas in each place.  The last meta   *)
(* of out_queue may lack its handled hooker, but not its signal: it is not *)
(* yet within reach of the dispatch thread.                                *)
HandlingDone ==
  /\ handle_pc \in {"handle", "pend", "pend_handled", "pend_signal"} => Handling \in hooked[in_meta]
  /\ \A i \in DOMAIN frame_meta_batch_cache : Handling \in hooked[frame_meta_batch_cache[i]]

Hooking == handle_pc \in {"handled", "pend_handled"}

LastQueued ==
  Hooking => /\ out_queue # <<>>
             /\ out_queue[Len(out_queue)] = IF handle_pc = "handled" THEN Current ELSE in_meta

QueueDone ==
  \A i \in DOMAIN out_queue :
    out_queue[i] # nullptr /\ (i = Len(out_queue) => ~Hooking)
      => {Handling, Handled} \subseteq hooked[out_queue[i]]

HookedInv == HandlingDone /\ LastQueued /\ QueueDone /\ LeavingAfterHandled

-------------------------------------------------------------------------------
(* What a step does to out_queue.                                          *)
Flagged == handle_pc \in {"dead_signal", "exit"}

LEMMA OutQueueSteps ==
  ASSUME IInv, [Next]_vars
  PROVE  \/ out_queue' = out_queue /\ Flagged' = Flagged
         \/ out_queue # <<>> /\ out_queue' = Tail(out_queue) /\ Flagged' = Flagged
         \/ \E m \in Meta : out_queue' = Append(out_queue, m) /\ ~Flagged /\ ~Flagged'
         \/ out_queue' = Append(out_queue, nullptr) /\ ~Flagged /\ Flagged'
<1> USE DEF Flagged
<1>1. CASE UNCHANGED vars \/ Terminated
  BY <1>1 DEF vars, dispatchVars, handleVars, Terminated
<1>2. CASE \E u \in Upstream : Attach(u) \/ Detach(u) \/ Flow(u)
  BY <1>2
  DEF Attach, Detach, Flow, MetaFlowHook, MetaFlowSignal, dispatchVars, outVars, handleVars
<1>3. CASE \E u \in Upstream, m \in Meta : MetaFlowPush(u, m)
  BY <1>3 DEF MetaFlowPush, dispatchVars, handleVars
<1>4. CASE HandleThread
  <2>1. CASE PendingPush
    <3>1. in_meta \in Meta
      BY <2>1 DEF PendingPush, IInv, InHand, Meta
    <3> QED BY <2>1, <3>1 DEF PendingPush
  <2>2. CASE EmitPush
    <3>1. Current \in Meta
      BY <2>2 DEF EmitPush, IInv, InHand, TypeOK, Current, Meta
    <3> QED BY <2>2, <3>1 DEF EmitPush
  <2>3. CASE HandleDeadPush
    BY <2>3 DEF HandleDeadPush
  <2>4. CASE \/ HandleLoop \/ HandleWait \/ HandlePop \/ HandleHandling \/ HandleControl
             \/ PendingHandled \/ PendingSignal \/ FinishControl \/ HandleFrame
             \/ EmitHandled \/ EmitSignal \/ HandleDeadSignal
    BY <2>4
    DEF HandleLoop, HandleWait, HandlePop, HandleHandling, HandleControl, PendingHandled,
        PendingSignal, FinishControl, HandleFrame, EmitHandled, EmitSignal, HandleDeadSignal,
        dispatchVars, outVars
  <2> QED BY <1>4, <2>1, <2>2, <2>3, <2>4 DEF HandleThread
<1>5. CASE Dispatch
  BY <1>5
  DEF Dispatch, DispatchThread, DispatchLoop, DispatchWait, DispatchFront, DispatchLeaving,
      DispatchPush, DispatchPop, handleVars
<1>6. CASE Destroy \/ Deinit
  BY <1>6
  DEF Destroy, Deinit, DeinitPush, DeinitSignal, JoinHandle, JoinDispatch, dispatchVars, handleVars
<1> QED BY <1>1, <1>2, <1>3, <1>4, <1>5, <1>6 DEF Next

LEMMA FlagInvStep == ASSUME IInv, FlagInv, [Next]_vars PROVE FlagInv'
<1> USE DEF FlagInv, NoFlagYet, DeadFlagLast, Flagged
<1>0. out_queue \in Seq(Meta \cup {nullptr})
  BY DEF IInv, TypeOK, DispatchTypeOK
<1>1. CASE out_queue' = out_queue /\ Flagged' = Flagged
  BY <1>1
<1>2. CASE out_queue # <<>> /\ out_queue' = Tail(out_queue) /\ Flagged' = Flagged
  <2>1. /\ Len(out_queue') = Len(out_queue) - 1
        /\ DOMAIN out_queue = 1..Len(out_queue)
        /\ DOMAIN out_queue' = 1..Len(out_queue')
        /\ \A i \in DOMAIN out_queue' : out_queue'[i] = out_queue[i + 1]
    BY <1>0, <1>2
  <2> QED BY <1>0, <1>2, <2>1
<1>3. ASSUME NEW m \in Meta \cup {nullptr}, out_queue' = Append(out_queue, m), ~Flagged,
             m = nullptr <=> Flagged'
      PROVE  FlagInv'
  <2>1. /\ Len(out_queue') = Len(out_queue) + 1
        /\ DOMAIN out_queue = 1..Len(out_queue)
        /\ DOMAIN out_queue' = 1..Len(out_queue')
        /\ \A i \in DOMAIN out_queue : out_queue'[i] = out_queue[i]
        /\ out_queue'[Len(out_queue')] = m
    BY <1>0, <1>3
  <2> QED BY <1>0, <1>3, <2>1
<1> QED BY <1>1, <1>2, <1>3, OutQueueSteps, MetaAssumption

(* No meta is queued behind the dead flag, where it would never be sent.   *)
THEOREM DeadFlagIsLast == Spec => []DeadFlagLast
<1>1. Init => FlagInv
  BY DEF Init, DispatchInit, FlagInv, NoFlagYet, DeadFlagLast
<1>2. IInv /\ FlagInv /\ [Next]_vars => FlagInv'
  BY FlagInvStep
<1>3. FlagInv => DeadFlagLast
  BY DEF FlagInv
<1> QED BY <1>1, <1>2, <1>3, Inductive, PTL DEF Spec

-------------------------------------------------------------------------------
(* While a hooker is due the queue holds a second meta: the one the        *)
(* dispatch thread works on is not the last.                               *)
LEMMA HeadIsNotLast ==
  ASSUME IInv, Hooking, DispatchHolds = 1
  PROVE  Len(out_queue) >= 2
  BY DEF IInv, TypeOK, DispatchTypeOK, DispatchInv, Covered, Unsignalled, Hooking

(* A hooker of the meta at one end of the queue.                           *)
LEMMA HookAdds ==
  ASSUME IInv, NEW p, NEW m \in Meta, Hook(p, m)
  PROVE  \A n \in Meta : hooked'[n] = IF n = m THEN hooked[n] \cup {p} ELSE hooked[n]
  BY DEF IInv, TypeOK, DispatchTypeOK, Hook

(* More hookers do no harm to the metas in the queue.                      *)
LEMMA QueueDoneGrows ==
  ASSUME IInv, QueueDone, UNCHANGED <<out_queue, Hooking>>,
         \A n \in Meta : hooked[n] \subseteq hooked'[n]
  PROVE  QueueDone'
<1>1. \A i \in DOMAIN out_queue : out_queue[i] \in Meta \cup {nullptr}
  BY DEF IInv, TypeOK, DispatchTypeOK
<1>2. SUFFICES ASSUME NEW i \in DOMAIN out_queue, out_queue[i] # nullptr,
                      i = Len(out_queue) => ~Hooking
               PROVE  {Handling, Handled} \subseteq hooked'[out_queue[i]]
  BY DEF QueueDone
<1>3. {Handling, Handled} \subseteq hooked[out_queue[i]]
  BY <1>2 DEF QueueDone
<1> QED BY <1>1, <1>2, <1>3

(* The steps of the dispatch thread.                                       *)
LEMMA DispatchHookedInv == ASSUME IInv, HookedInv, Dispatch PROVE HookedInv'
<1> USE DEF HookedInv, HandlingDone, LastQueued, QueueDone, LeavingAfterHandled, Hooking
<1>0. /\ UNCHANGED <<handle_pc, in_meta, frame_meta_batch_cache, emitted>> /\ Current' = Current
      /\ out_queue \in Seq(Meta \cup {nullptr}) /\ nullptr \notin Meta
      /\ frame_meta_batch_cache \in Seq(Frame) /\ Frame \subseteq Meta
  BY MetaAssumption DEF Dispatch, handleVars, Current, IInv, TypeOK, DispatchTypeOK, Meta
<1>1. CASE DispatchLoop \/ DispatchWait \/ DispatchFront \/ DispatchPush
  <2>1. UNCHANGED <<out_queue, hooked>>
    BY <1>1 DEF DispatchLoop, DispatchWait, DispatchFront, DispatchPush
  <2> QED BY <1>0, <2>1
<1>2. CASE DispatchLeaving
  <2>1. /\ out_meta \in Meta /\ out_queue' = out_queue
        /\ out_queue # <<>> /\ Head(out_queue) = out_meta /\ DispatchHolds = 1
    BY <1>2 DEF DispatchLeaving, IInv, DispatchInv, HoldsMeta, PopRemovesPushed, DispatchHolds
  <2>2. \A n \in Meta : hooked'[n] = IF n = out_meta THEN hooked[n] \cup {Leaving} ELSE hooked[n]
    BY <1>2, <2>1, HookAdds DEF DispatchLeaving
  <2>3. 1 \in DOMAIN out_queue /\ out_queue[1] = out_meta
    BY <1>0, <2>1
  <2>4. Hooking => 1 # Len(out_queue)
    BY <2>1, HeadIsNotLast
  <2>5. {Handling, Handled} \subseteq hooked[out_meta]
    BY <1>0, <2>1, <2>3, <2>4
  <2>6. LeavingAfterHandled'
    BY <2>2, <2>5 DEF Leaving, Handling, Handled
  <2>7. HandlingDone'
    <3>1. handle_pc \in {"handle", "pend", "pend_handled", "pend_signal"} => in_meta \in Meta
      BY DEF IInv, InHand, Meta
    <3>2. \A i \in DOMAIN frame_meta_batch_cache : frame_meta_batch_cache[i] \in Meta
      BY <1>0
    <3> QED BY <1>0, <2>2, <3>1, <3>2
  <2>8. QueueDone'
    BY <1>0, <2>1, <2>2, QueueDoneGrows
  <2> QED BY <1>0, <2>1, <2>6, <2>7, <2>8
<1>3. CASE DispatchPop
  <2>1. /\ out_queue # <<>> /\ out_queue' = Tail(out_queue) /\ hooked' = hooked
        /\ DispatchHolds = 1
    BY <1>3 DEF DispatchPop, IInv, DispatchInv, PopRemovesPushed, DispatchHolds
  <2>2. /\ Len(out_queue') = Len(out_queue) - 1
        /\ DOMAIN out_queue = 1..Len(out_queue)
        /\ DOMAIN out_queue' = 1..Len(out_queue')
        /\ \A i \in DOMAIN out_queue' : out_queue'[i] = out_queue[i + 1]
    BY <1>0, <2>1
  <2>3. Hooking => Len(out_queue) >= 2
    BY <2>1, HeadIsNotLast
  <2>4. LastQueued'
    BY <1>0, <2>1, <2>2, <2>3
  <2>5. QueueDone'
    BY <1>0, <2>1, <2>2
  <2> QED BY <1>0, <2>1, <2>4, <2>5
<1> QED BY <1>1, <1>2, <1>3 DEF Dispatch, DispatchThread

(* The steps of the handle thread.                                         *)
LEMMA HandleHookedInv == ASSUME IInv, HookedInv, HandleThread PROVE HookedInv'
<1> USE DEF HookedInv, HandlingDone, LastQueued, QueueDone, LeavingAfterHandled, Hooking
<1>0. /\ out_queue \in Seq(Meta \cup {nullptr}) /\ nullptr \notin Meta
      /\ frame_meta_batch_cache \in Seq(Frame) /\ Frame \subseteq Meta /\ Control \subseteq Meta
      /\ emitted \in Nat
  BY MetaAssumption DEF IInv, TypeOK, DispatchTypeOK, Meta
<1>1. CASE HandleLoop \/ HandleWait \/ HandlePop \/ HandleControl \/ PendingSignal \/ HandleDeadSignal
  <2>1. UNCHANGED <<out_queue, hooked, frame_meta_batch_cache>>
    BY <1>1
    DEF HandleLoop, HandleWait, HandlePop, HandleControl, PendingSignal, HandleDeadSignal,
        dispatchVars
  <2>2. ~Hooking /\ ~Hooking'
    BY <1>1
    DEF HandleLoop, HandleWait, HandlePop, HandleControl, PendingSignal, HandleDeadSignal
  <2>3. HandlingDone'
    BY <1>1, <2>1
    DEF HandleLoop, HandleWait, HandlePop, HandleControl, PendingSignal, HandleDeadSignal
  <2> QED BY <2>1, <2>2, <2>3
<1>2. CASE HandleHandling
  <2>1. in_meta \in Meta /\ UNCHANGED <<out_queue, in_meta, frame_meta_batch_cache>> /\ ~Hooking'
    BY <1>2 DEF HandleHandling, IInv, InHand, outVars
  <2>2. \A n \in Meta : hooked'[n] = IF n = in_meta THEN hooked[n] \cup {Handling} ELSE hooked[n]
    BY <1>2, <2>1, HookAdds DEF HandleHandling
  <2>3. QueueDone'
    <3>1. \A n \in Meta : hooked[n] \subseteq hooked'[n]
      BY <2>2
    <3>2. ~Hooking
      BY <1>2 DEF HandleHandling
    <3>3. UNCHANGED <<out_queue, Hooking>>
      BY <2>1, <3>2
    <3> QED BY <3>1, <3>3, QueueDoneGrows
  <2>4. LeavingAfterHandled'
    <3>1. Leaving # Handling
      BY DEF Leaving, Handling
    <3> QED BY <2>2, <3>1
  <2>5. HandlingDone'
    <3>1. \A i \in DOMAIN frame_meta_batch_cache : frame_meta_batch_cache[i] \in Meta
      BY <1>0
    <3> QED BY <2>1, <2>2, <3>1
  <2> QED BY <2>1, <2>3, <2>4, <2>5
<1>3. CASE FinishControl
  <2>1. UNCHANGED <<out_queue, hooked>> /\ ~Hooking /\ ~Hooking'
    BY <1>3 DEF FinishControl, dispatchVars
  <2>2. HandlingDone'
    BY <1>3, <2>1 DEF FinishControl
  <2> QED BY <2>1, <2>2
<1>4. CASE HandleFrame
  <2>1. UNCHANGED <<out_queue, hooked>> /\ ~Hooking /\ ~Hooking'
    BY <1>4 DEF HandleFrame, dispatchVars
  <2>2. HandlingDone'
    BY <1>0, <1>4, <2>1 DEF HandleFrame
  <2> QED BY <2>1, <2>2
<1>5. ASSUME NEW m \in Meta \cup {nullptr}, out_queue' = Append(out_queue, m),
             UNCHANGED <<hooked, in_meta, frame_meta_batch_cache, emitted>>, ~Hooking,
             Hooking' => m = IF handle_pc' = "handled" THEN Current ELSE in_meta,
             ~Hooking' => m = nullptr,
             handle_pc' = "pend_handled" => handle_pc = "pend",
             handle_pc' \notin {"handle", "pend", "pend_signal"}
      PROVE  HookedInv'
  <2>1. /\ Len(out_queue') = Len(out_queue) + 1
        /\ DOMAIN out_queue = 1..Len(out_queue)
        /\ DOMAIN out_queue' = 1..Len(out_queue')
        /\ \A i \in DOMAIN out_queue : out_queue'[i] = out_queue[i]
        /\ out_queue'[Len(out_queue')] = m
    BY <1>0, <1>5
  <2>2. LastQueued'
    BY <1>0, <1>5, <2>1 DEF Current
  <2>3. QueueDone'
    BY <1>0, <1>5, <2>1
  <2>4. HandlingDone'
    BY <1>5
  <2> QED BY <1>5, <2>2, <2>3, <2>4
<1>6. CASE PendingPush
  BY <1>0, <1>5, <1>6 DEF PendingPush, IInv, InHand
<1>7. CASE EmitPush
  <2>1. Current \in Meta
    BY <1>0, <1>7 DEF EmitPush, IInv, InHand, Current
  <2> QED BY <1>5, <1>7, <2>1 DEF EmitPush
<1>8. CASE HandleDeadPush
  BY <1>5, <1>8 DEF HandleDeadPush
<1>9. ASSUME NEW m \in Meta, Hooking, ~Hooking', Hook(Handled, m), Handling \in hooked[m],
             out_queue[Len(out_queue)] = m,
             UNCHANGED <<out_queue, in_meta, frame_meta_batch_cache>>,
             handle_pc' = "pend_signal" => handle_pc = "pend_handled",
             handle_pc' \in {"signal", "pend_signal"}
      PROVE  HookedInv'
  <2>1. \A n \in Meta : hooked'[n] = IF n = m THEN hooked[n] \cup {Handled} ELSE hooked[n]
    BY <1>9, HookAdds
  <2>2. QueueDone'
    <3> SUFFICES ASSUME NEW i \in DOMAIN out_queue, out_queue[i] # nullptr
                 PROVE  {Handling, Handled} \subseteq hooked'[out_queue[i]]
      BY <1>9
    <3>1. out_queue[i] \in Meta
      BY <1>0
    <3>2. CASE i = Len(out_queue)
      BY <1>9, <2>1, <3>2
    <3>3. CASE i # Len(out_queue)
      BY <2>1, <3>1, <3>3
    <3> QED BY <3>2, <3>3
  <2>3. LeavingAfterHandled'
    BY <1>9, <2>1
  <2>4. HandlingDone'
    <3>1. \A i \in DOMAIN frame_meta_batch_cache : frame_meta_batch_cache[i] \in Meta
      BY <1>0
    <3>2. handle_pc' = "pend_signal" => in_meta \in Meta
      BY <1>0, <1>9 DEF IInv, InHand
    <3> QED BY <1>9, <2>1, <3>1, <3>2
  <2> QED BY <1>9, <2>2, <2>3, <2>4
<1>10. CASE PendingHandled
  <2>1. in_meta \in Meta /\ Hooking
    BY <1>0, <1>10 DEF PendingHandled, IInv, InHand
  <2> QED BY <1>9, <1>10, <2>1 DEF PendingHandled, outVars
<1>11. CASE EmitHandled
  <2>1. Current \in Meta /\ Hooking /\ Handling \in hooked[Current]
    BY <1>0, <1>11 DEF EmitHandled, IInv, InHand, Current
  <2> QED BY <1>9, <1>11, <2>1 DEF EmitHandled, outVars
<1>12. CASE EmitSignal
  <2>1. UNCHANGED <<out_queue, hooked>> /\ ~Hooking /\ ~Hooking'
    BY <1>12 DEF EmitSignal
  <2>2. HandlingDone'
    BY <1>12, <2>1 DEF EmitSignal
  <2> QED BY <2>1, <2>2
<1> QED BY <1>1, <1>2, <1>3, <1>4, <1>6, <1>7, <1>8, <1>10, <1>11, <1>12 DEF HandleThread

(* The steps of the previous nodes and of the owner.                       *)
LEMMA OthersHookedInv ==
  ASSUME IInv, HookedInv,
         \/ UNCHANGED vars
         \/ \E u \in Upstream : Attach(u) \/ Detach(u) \/ Flow(u)
         \/ \E u \in Upstream, m \in Meta : MetaFlowPush(u, m)
         \/ Destroy \/ Deinit
  PROVE  HookedInv'
<1>0. UNCHANGED <<out_queue, handle_pc, in_meta, frame_meta_batch_cache, emitted>>
  BY DEF vars, Attach, Detach, Flow, MetaFlowHook, MetaFlowSignal, MetaFlowPush, Destroy, Deinit,
         DeinitPush, DeinitSignal, JoinHandle, JoinDispatch, dispatchVars, outVars, handleVars
<1>1. UNCHANGED hooked \/ \E u \in Upstream : MetaFlowHook(u)
  BY DEF vars, Attach, Detach, Flow, MetaFlowSignal, MetaFlowPush, Destroy, Deinit,
         DeinitPush, DeinitSignal, JoinHandle, JoinDispatch, dispatchVars
<1>2. LastQueued' /\ UNCHANGED <<out_queue, Hooking>>
  BY <1>0 DEF HookedInv, LastQueued, Hooking, Current
<1>3. /\ \A n \in Meta : hooked[n] \subseteq hooked'[n]
      /\ \A n \in Meta : Leaving \in hooked'[n] => Leaving \in hooked[n]
  <2>1. CASE UNCHANGED hooked
    BY <2>1
  <2>2. ASSUME NEW u \in Upstream, MetaFlowHook(u)
        PROVE  /\ \A n \in Meta : hooked[n] \subseteq hooked'[n]
               /\ \A n \in Meta : Leaving \in hooked'[n] => Leaving \in hooked[n]
    BY <2>2 DEF MetaFlowHook, Hook, IInv, TypeOK, DispatchTypeOK, Arriving, Leaving
  <2> QED BY <1>1, <2>1, <2>2
<1>4. QueueDone'
  BY <1>2, <1>3, QueueDoneGrows DEF HookedInv
<1>5. LeavingAfterHandled'
  BY <1>3 DEF HookedInv, LeavingAfterHandled
<1>6. HandlingDone'
  <2>1. handle_pc \in {"handle", "pend", "pend_handled", "pend_signal"} => in_meta \in Meta
    BY DEF IInv, InHand, Meta
  <2>2. \A i \in DOMAIN frame_meta_batch_cache : frame_meta_batch_cache[i] \in Meta
    BY DEF IInv, TypeOK, Meta
  <2> QED BY <1>0, <1>3, <2>1, <2>2 DEF HookedInv, HandlingDone
<1> QED BY <1>2, <1>4, <1>5, <1>6 DEF HookedInv

LEMMA HookedInvInit == Init => HookedInv
<1> SUFFICES ASSUME Init PROVE HookedInv
  OBVIOUS
<1>1. \A m \in Meta : hooked[m] = {}
  BY DEF Init, DispatchInit
<1> QED BY <1>1
        DEF Init, DispatchInit, HookedInv, HandlingDone, LastQueued, QueueDone, Hooking,
            LeavingAfterHandled

LEMMA HookedInvStep == ASSUME IInv, HookedInv, [Next]_vars PROVE HookedInv'
  BY DispatchHookedInv, HandleHookedInv, OthersHookedInv DEF Next, Terminated

(* The leaving hooker of a meta finds the two hookers of the handle thread *)
(* done, in the order of the node's ports.                                 *)
THEOREM LeavingComesLast == Spec => []LeavingAfterHandled
<1>1. Init => HookedInv
  BY HookedInvInit
<1>2. IInv /\ HookedInv /\ [Next]_vars => HookedInv'
  BY HookedInvStep
<1>3. HookedInv => LeavingAfterHandled
  BY DEF HookedInv
<1> QED BY <1>1, <1>2, <1>3, Inductive, PTL DEF Spec

-------------------------------------------------------------------------------
(* A control meta that is consumed takes the collected frames with it: no  *)
(* frame is lost if none is consumed, or if none is collected because      *)
(* batches are of one frame.                                               *)
NothingDropped == Consumed = {} \/ frame_meta_handle_batch <= 1

Emitting == handle_pc \in {"emit", "handled", "signal"}

(* The handle thread has a meta only where it works on it, and a full      *)
(* batch only where it moves it out.                                       *)
HandInv ==
  /\ handle_pc \in {"loop", "wait", "pop", "dead", "dead_signal", "exit"} \/ Emitting
       => in_meta = nullptr
  /\ handle_pc \in {"pend", "pend_handled", "pend_signal", "returned"} => in_meta \in Control
  /\ ~Emitting => \/ frame_meta_batch_cache = <<>>
                  \/ Len(frame_meta_batch_cache) < frame_meta_handle_batch

(* The frames that did not get to out_queue yet, and the order of all.     *)
InBacklog == BatchBacklog \o (AsFrames(in_meta) \o Frames(in_queue))

Fifo == Frames(arrived) = Frames(Through) \o InBacklog

FifoInv == HandInv /\ Fifo

(* Moving one element past a border between sequences.                     *)
LEMMA MoveLeft ==
  ASSUME NEW S, NEW x \in S
  PROVE  \A s, t \in Seq(S) : s \o (<<x>> \o t) = Append(s, x) \o t
<1> SUFFICES ASSUME NEW s \in Seq(S), NEW t \in Seq(S)
             PROVE  s \o (<<x>> \o t) = Append(s, x) \o t
  OBVIOUS
<1>1. <<x>> \in Seq(S) /\ Append(s, x) = s \o <<x>>
  BY AppendIsConcat
<1> QED BY <1>1, ConcatAssociative

LEMMA AppendLast ==
  ASSUME NEW S, NEW x \in S
  PROVE  \A s, t \in Seq(S) : Append(s \o t, x) = s \o Append(t, x)
<1> SUFFICES ASSUME NEW s \in Seq(S), NEW t \in Seq(S)
             PROVE  Append(s \o t, x) = s \o Append(t, x)
  OBVIOUS
<1>1. <<x>> \in Seq(S) /\ Append(t, x) = t \o <<x>> /\ s \o t \in Seq(S)
  BY AppendIsConcat, ConcatProperties
<1>2. Append(s \o t, x) = (s \o t) \o <<x>>
  BY <1>1, AppendIsConcat
<1> QED BY <1>1, <1>2, ConcatAssociative

(* Every place holds frames.                                               *)
LEMMA BacklogType ==
  ASSUME IInv
  PROVE  /\ Through \in Seq(Meta \cup {nullptr})
         /\ Frames(Through) \in Seq(Frame)
         /\ BatchBacklog \in Seq(Frame)
         /\ AsFrames(in_meta) \in Seq(Frame)
         /\ Frames(in_queue) \in Seq(Frame)
         /\ AsFrames(in_meta) \o Frames(in_queue) \in Seq(Frame)
         /\ InBacklog \in Seq(Frame)
<1> DEFINE E == Meta \cup {nullptr}
<1>1. Through \in Seq(E)
  <2>1. \E k \in Nat : DispatchInv(k)
    BY DEF IInv, Unsignalled
  <2> QED BY <2>1, ThroughType
<1>2. in_queue \in Seq(E) /\ frame_meta_batch_cache \in Seq(Frame) /\ emitted \in Nat
  BY DEF IInv, TypeOK
<1>3. E \cap Frame = Frame
  BY DEF Meta
<1>4. Frames(Through) \in Seq(Frame) /\ Frames(in_queue) \in Seq(Frame)
  BY <1>1, <1>2, <1>3, FramesType
<1>5. BatchBacklog \in Seq(Frame)
  BY <1>2 DEF BatchBacklog
<1>6. AsFrames(in_meta) \in Seq(Frame)
  BY DEF AsFrames
<1> QED BY <1>1, <1>4, <1>5, <1>6, ConcatProperties DEF InBacklog

(* What the handle thread holds.                                           *)
LEMMA HandInvStep == ASSUME IInv, HandInv, [Next]_vars PROVE HandInv'
<1> USE MetaAssumption DEF HandInv, Emitting
<1>0. /\ frame_meta_batch_cache \in Seq(Frame) /\ handle_pc \in HandlePc
      /\ in_meta \in Meta \cup {nullptr} /\ in_queue \in Seq(Meta \cup {nullptr})
      /\ frame_meta_handle_batch \in Nat
  BY VpNodeAssumption DEF IInv, TypeOK
<1>1. CASE HandleThread
  <2>1. CASE HandlePop
    BY <1>0, <2>1 DEF HandlePop
  <2>2. CASE HandleFrame
    BY <1>0, <2>2 DEF HandleFrame
  <2>3. CASE HandleControl \/ FinishControl
    BY <1>0, <2>3 DEF HandleControl, FinishControl
  <2>4. CASE EmitSignal
    BY <1>0, <2>4 DEF EmitSignal
  <2>5. CASE \/ HandleLoop \/ HandleWait \/ HandleHandling \/ PendingPush \/ PendingHandled
             \/ PendingSignal \/ EmitPush \/ EmitHandled \/ HandleDeadPush \/ HandleDeadSignal
    BY <2>5
    DEF HandleLoop, HandleWait, HandleHandling, PendingPush, PendingHandled, PendingSignal,
        EmitPush, EmitHandled, HandleDeadPush, HandleDeadSignal
  <2> QED BY <1>1, <2>1, <2>2, <2>3, <2>4, <2>5 DEF HandleThread
<1>2. ASSUME UNCHANGED handleVars
      PROVE  HandInv'
  BY <1>2 DEF handleVars
<1>3. HandleThread \/ UNCHANGED handleVars
  BY DEF Next, vars, Terminated, Attach, Detach, Flow, MetaFlowHook, MetaFlowSignal, MetaFlowPush,
         Dispatch, Destroy, Deinit, DeinitPush, DeinitSignal, JoinHandle, JoinDispatch
<1> QED BY <1>1, <1>2, <1>3

(* A frame arrives at the end of in_queue.                                 *)
LEMMA ArriveFifo ==
  ASSUME IInv, Fifo, NEW u \in Upstream, NEW m \in Meta, MetaFlowPush(u, m)
  PROVE  Fifo'
<1> DEFINE A == Frames(arrived)
           T == Frames(Through)
           B == BatchBacklog
           H == AsFrames(in_meta)
           Q == Frames(in_queue)
<1>0. T \in Seq(Frame) /\ B \in Seq(Frame) /\ H \in Seq(Frame) /\ Q \in Seq(Frame)
  BY BacklogType
<1>1. arrived \in Seq(Meta) /\ in_queue \in Seq(Meta \cup {nullptr}) /\ m \in Meta \cup {nullptr}
  BY DEF IInv, TypeOK
<1>2. /\ A' = IF m \in Frame THEN Append(A, m) ELSE A
      /\ Q' = IF m \in Frame THEN Append(Q, m) ELSE Q
  BY <1>1, FramesAppend DEF MetaFlowPush
<1>3. T' = T /\ B' = B /\ H' = H
  BY DEF MetaFlowPush, Through, OutBacklog, BatchBacklog, dispatchVars, handleVars
<1>4. A = T \o (B \o (H \o Q))
  BY DEF Fifo, InBacklog
<1> SUFFICES A' = T' \o (B' \o (H' \o Q'))
  BY DEF Fifo, InBacklog
<1> HIDE DEF A, T, B, H, Q
<1>5. ASSUME m \in Frame
      PROVE  Append(T \o (B \o (H \o Q)), m) = T \o (B \o (H \o Append(Q, m)))
  <2>1. H \o Q \in Seq(Frame) /\ B \o (H \o Q) \in Seq(Frame)
    BY <1>0, ConcatProperties
  <2>2. \A s, t \in Seq(Frame) : Append(s \o t, m) = s \o Append(t, m)
    BY <1>5, AppendLast
  <2>3. Append(T \o (B \o (H \o Q)), m) = T \o Append(B \o (H \o Q), m)
    BY <1>0, <2>1, <2>2
  <2>4. Append(B \o (H \o Q), m) = B \o Append(H \o Q, m)
    BY <1>0, <2>1, <2>2
  <2>5. Append(H \o Q, m) = H \o Append(Q, m)
    BY <1>0, <2>2
  <2> QED BY <2>3, <2>4, <2>5
<1> QED BY <1>2, <1>3, <1>4, <1>5

(* WaitAndPop takes the first one.                                         *)
LEMMA PopFifo == ASSUME IInv, FifoInv, HandlePop PROVE Fifo'
<1>1. in_queue \in Seq(Meta \cup {nullptr}) /\ in_queue # <<>> /\ in_meta = nullptr
  BY DEF IInv, TypeOK, HandlePop, FifoInv, HandInv
<1>2. in_queue' = Tail(in_queue) /\ in_meta' = Head(in_queue)
  BY DEF HandlePop
<1>3. Frames(in_queue) = AsFrames(in_meta)' \o Frames(in_queue)'
  BY <1>1, <1>2, FramesCons DEF AsFrames
<1>4. AsFrames(in_meta) = <<>>
  BY <1>1, MetaAssumption DEF AsFrames, Meta
<1>5. <<>> \o Frames(in_queue) = Frames(in_queue)
  BY BacklogType
<1>6. AsFrames(in_meta) \o Frames(in_queue) = AsFrames(in_meta)' \o Frames(in_queue)'
  BY <1>3, <1>4, <1>5
<1>7. UNCHANGED <<arrived, pushed, out_queue, dispatch_pc, frame_meta_batch_cache, emitted>>
  BY DEF HandlePop, dispatchVars
<1>8. BatchBacklog' = BatchBacklog
  BY <1>7 DEF BatchBacklog, HandlePop
<1> QED BY <1>6, <1>7, <1>8 DEF FifoInv, Fifo, InBacklog, Through, OutBacklog

(* The frame in hand becomes the last one of the batch.                    *)
LEMMA BatchFifo == ASSUME IInv, FifoInv, HandleFrame PROVE Fifo'
<1> DEFINE Q == Frames(in_queue)
           c == frame_meta_batch_cache
<1>1. c \in Seq(Frame) /\ in_meta \in Frame /\ Q \in Seq(Frame)
  BY BacklogType DEF IInv, TypeOK, HandleFrame
<1>2. handle_pc = "handle" /\ handle_pc' \notin {"handled", "signal"} /\ emitted' = emitted
  BY DEF HandleFrame
<1>3. emitted = 0
  BY <1>2 DEF IInv, InHand
<1>4. BatchBacklog = c /\ BatchBacklog' = Append(c, in_meta)
  BY <1>1, <1>2, <1>3 DEF HandleFrame, BatchBacklog
<1>5. AsFrames(in_meta) = <<in_meta>> /\ AsFrames(in_meta)' = <<>>
  BY MetaAssumption DEF HandleFrame, AsFrames, Meta
<1>6. Q' = Q /\ <<>> \o Q = Q
  BY <1>1 DEF HandleFrame, inVars
<1> HIDE DEF Q
<1>7. c \o (<<in_meta>> \o Q) = Append(c, in_meta) \o Q
  BY <1>1, MoveLeft
<1>8. InBacklog' = InBacklog
  BY <1>4, <1>5, <1>6, <1>7 DEF InBacklog, Q
<1> QED BY <1>8 DEF FifoInv, Fifo, HandleFrame, Through, OutBacklog, dispatchVars, inVars

(* The first frame of the batch goes to out_queue.                         *)
LEMMA EmitFifo == ASSUME IInv, FifoInv, EmitPush PROVE Fifo'
<1> DEFINE T == Frames(Through)
           B == BatchBacklog
           R == AsFrames(in_meta) \o Frames(in_queue)
           x == Current
<1>1. /\ frame_meta_batch_cache \in Seq(Frame) /\ emitted \in Nat
      /\ emitted < Len(frame_meta_batch_cache) /\ handle_pc = "emit"
  BY DEF IInv, TypeOK, EmitPush, InHand
<1>2. x \in Frame /\ x \in Meta \cup {nullptr}
  BY <1>1 DEF Current, Meta
<1>3. B = <<x>> \o B' /\ B' \in Seq(Frame)
  BY <1>1 DEF BatchBacklog, EmitPush, Current
<1>4. T' = Append(T, x)
  <2>1. \E k \in Nat : DispatchInv(k)
    BY DEF IInv, Unsignalled
  <2>2. Through' = Append(Through, x)
    BY <1>2, <2>1, PushExtendsThrough DEF EmitPush
  <2> QED BY <1>2, <2>2, BacklogType, FramesAppend
<1>5. R' = R /\ arrived' = arrived
  BY DEF EmitPush, inVars
<1>6. T \in Seq(Frame) /\ R \in Seq(Frame)
  BY BacklogType
<1>7. Frames(arrived) = T \o (B \o R)
  BY DEF FifoInv, Fifo, InBacklog
<1> SUFFICES Frames(arrived)' = T' \o (B' \o R')
  BY DEF Fifo, InBacklog
<1> HIDE DEF T, B, R, x
<1>8. (<<x>> \o B') \o R = <<x>> \o (B' \o R) /\ B' \o R \in Seq(Frame)
  <2>1. <<x>> \in Seq(Frame)
    BY <1>2
  <2> QED BY <1>3, <1>6, <2>1, ConcatAssociative, ConcatProperties
<1>9. T \o (<<x>> \o (B' \o R)) = Append(T, x) \o (B' \o R)
  <2> DEFINE t == B' \o R
  <2>1. t \in Seq(Frame)
    BY <1>8
  <2> HIDE DEF t
  <2>2. T \o (<<x>> \o t) = Append(T, x) \o t
    BY <1>2, <1>6, <2>1, MoveLeft
  <2> QED BY <2>2 DEF t
<1> QED BY <1>3, <1>4, <1>5, <1>7, <1>8, <1>9

(* A control meta, and a dead flag, pass the frames by.                    *)
LEMMA ControlFifo ==
  ASSUME IInv, FifoInv, NothingDropped,
         PendingPush \/ HandleDeadPush \/ FinishControl \/ DeinitPush
  PROVE  Fifo'
<1> DEFINE E == Meta \cup {nullptr}
<1>0. /\ in_queue \in Seq(E) /\ frame_meta_batch_cache \in Seq(Frame)
      /\ frame_meta_handle_batch \in Nat
  BY VpNodeAssumption DEF IInv, TypeOK
<1>1. CASE PendingPush \/ HandleDeadPush
  <2>1. PICK m \in E : m \notin Frame /\ out_queue' = Append(out_queue, m)
    BY <1>1, MetaAssumption DEF PendingPush, HandleDeadPush, FifoInv, HandInv, Meta
  <2>2. UNCHANGED <<dispatch_pc, pushed, arrived, in_queue, in_meta>>
    BY <1>1 DEF PendingPush, HandleDeadPush, inVars
  <2>3. Through' = Append(Through, m)
    <3>1. \E k \in Nat : DispatchInv(k)
      BY DEF IInv, Unsignalled
    <3> QED BY <2>1, <2>2, <3>1, PushExtendsThrough
  <2>4. Frames(Through)' = Frames(Through)
    BY <2>1, <2>3, BacklogType, FramesAppend
  <2>5. BatchBacklog' = BatchBacklog
    BY <1>1 DEF PendingPush, HandleDeadPush, BatchBacklog
  <2> QED BY <2>2, <2>4, <2>5 DEF FifoInv, Fifo, InBacklog
<1>2. CASE FinishControl
  <2>1. in_meta \notin Frame /\ in_meta' \notin Frame
    BY <1>2, MetaAssumption DEF FinishControl, FifoInv, HandInv, Meta
  <2>2. AsFrames(in_meta)' = AsFrames(in_meta)
    BY <2>1 DEF AsFrames
  <2>3. frame_meta_batch_cache' = frame_meta_batch_cache
    <3>1. CASE Consumed = {}
      BY <1>2, <3>1 DEF FinishControl
    <3>2. CASE frame_meta_handle_batch <= 1
      BY <1>0, <1>2, <3>2 DEF FinishControl, FifoInv, HandInv, Emitting
    <3> QED BY <3>1, <3>2 DEF NothingDropped
  <2>4. BatchBacklog' = BatchBacklog
    BY <1>2, <2>3 DEF FinishControl, BatchBacklog
  <2> QED BY <1>2, <2>2, <2>4
          DEF FinishControl, FifoInv, Fifo, InBacklog, Through, OutBacklog, dispatchVars, inVars
<1>3. CASE DeinitPush
  <2>1. in_queue' = Append(in_queue, nullptr) /\ nullptr \notin Frame
    BY <1>3, MetaAssumption DEF DeinitPush, Meta
  <2>2. Frames(in_queue)' = Frames(in_queue)
    BY <1>0, <2>1, FramesAppend
  <2>3. BatchBacklog' = BatchBacklog
    BY <1>3 DEF DeinitPush, BatchBacklog, handleVars
  <2> QED BY <1>3, <2>2, <2>3
          DEF DeinitPush, FifoInv, Fifo, InBacklog, Through, OutBacklog, dispatchVars, handleVars
<1> QED BY <1>1, <1>2, <1>3

(* Steps that leave every place as it is.                                  *)
LEMMA StillFifo ==
  ASSUME Fifo,
         UNCHANGED <<arrived, in_queue, in_meta>>, Through' = Through, BatchBacklog' = BatchBacklog
  PROVE  Fifo'
  BY DEF Fifo, InBacklog

LEMMA FifoInvStep == ASSUME IInv, FifoInv, NothingDropped, [Next]_vars PROVE FifoInv'
<1> SUFFICES Fifo'
  BY HandInvStep DEF FifoInv
<1>1. CASE \E u \in Upstream, m \in Meta : MetaFlowPush(u, m)
  BY <1>1, ArriveFifo DEF FifoInv
<1>2. CASE HandlePop \/ HandleFrame \/ EmitPush
  BY <1>2, PopFifo, BatchFifo, EmitFifo
<1>3. CASE PendingPush \/ HandleDeadPush \/ FinishControl \/ DeinitPush
  BY <1>3, ControlFifo
<1>4. CASE Dispatch
  <2>1. UNCHANGED <<arrived, in_queue, in_meta>> /\ BatchBacklog' = BatchBacklog
    BY <1>4 DEF Dispatch, inVars, handleVars, BatchBacklog
  <2>2. Through' = Through
    <3>1. \E k \in Nat : DispatchInv(k)
      BY DEF IInv, Unsignalled
    <3> QED BY <1>4, <3>1, DispatchKeepsThrough DEF Dispatch
  <2> QED BY <2>1, <2>2, StillFifo DEF FifoInv
<1>5. CASE EmitSignal
  <2>1. UNCHANGED <<arrived, in_queue, in_meta>> /\ Through' = Through
    BY <1>5 DEF EmitSignal, inVars, Through, OutBacklog
  <2>2. /\ frame_meta_batch_cache \in Seq(Frame) /\ emitted \in Nat
        /\ emitted < Len(frame_meta_batch_cache)
    BY <1>5 DEF EmitSignal, IInv, TypeOK, InHand
  <2>3. BatchBacklog' = BatchBacklog
    BY <1>5, <2>2 DEF EmitSignal, BatchBacklog
  <2> QED BY <2>1, <2>3, StillFifo DEF FifoInv
<1>6. CASE \/ HandleLoop \/ HandleWait \/ HandleHandling \/ HandleControl \/ PendingHandled
           \/ PendingSignal \/ EmitHandled \/ HandleDeadSignal
           \/ UNCHANGED vars \/ Terminated \/ Destroy
           \/ Deinit /\ ~DeinitPush
           \/ \E u \in Upstream : Attach(u) \/ Detach(u) \/ Flow(u)
  <2>1. /\ UNCHANGED <<arrived, in_queue, in_meta, pushed, out_queue, dispatch_pc,
                       frame_meta_batch_cache, emitted>>
        /\ handle_pc' \in {"handled", "signal"} <=> handle_pc \in {"handled", "signal"}
    BY <1>6
    DEF HandleLoop, HandleWait, HandleHandling, HandleControl, PendingHandled, PendingSignal,
        EmitHandled, HandleDeadSignal, vars, Terminated, Destroy, Deinit, DeinitSignal, JoinHandle,
        JoinDispatch, Attach, Detach, Flow, MetaFlowHook, MetaFlowSignal, dispatchVars, outVars,
        inVars, handleVars
  <2>2. BatchBacklog' = BatchBacklog
    BY <2>1 DEF BatchBacklog
  <2>3. Through' = Through
    BY <2>1 DEF Through, OutBacklog
  <2> QED BY <2>1, <2>2, <2>3, StillFifo DEF FifoInv
<1> QED BY <1>1, <1>2, <1>3, <1>4, <1>5, <1>6 DEF Next, HandleThread

LEMMA FifoInvInit == Init => FifoInv
<1> SUFFICES ASSUME Init PROVE FifoInv
  OBVIOUS
<1>1. HandInv
  BY MetaAssumption DEF Init, HandInv, Emitting
<1>2. Through = <<>> /\ BatchBacklog = <<>> /\ AsFrames(in_meta) = <<>>
  BY MetaAssumption DEF Init, DispatchInit, Through, OutBacklog, BatchBacklog, AsFrames, Meta
<1>3. arrived = <<>> /\ in_queue = <<>>
  BY DEF Init
<1>4. <<>> \o <<>> = <<>>
  OBVIOUS
<1> QED BY <1>1, <1>2, <1>3, <1>4, FramesEmpty DEF FifoInv, Fifo, InBacklog

(* The invariant in the words of VpNode: one sequence, of all the places.  *)
LEMMA FrameFifoFromInv == ASSUME IInv, Fifo PROVE FrameFifo
<1> DEFINE E == Meta \cup {nullptr}
           B == BatchBacklog
           M == <<in_meta>>
<1>1. Through \in Seq(E) /\ B \in Seq(E) /\ M \in Seq(E) /\ in_queue \in Seq(E)
  <2>1. B \in Seq(Frame) /\ Frame \subseteq E
    BY BacklogType DEF Meta
  <2> QED BY <2>1, BacklogType DEF IInv, TypeOK
<1>2. Frames(B) = B
  BY BacklogType, FramesOfFrames
<1>3. Frames(M) = AsFrames(in_meta)
  <2>1. Frames(M) = AsFrames(Head(M)) \o Frames(Tail(M))
    <3>1. M # <<>>
      OBVIOUS
    <3> HIDE DEF M
    <3> QED BY <1>1, <3>1, FramesCons
  <2>2. Head(M) = in_meta /\ Tail(M) = <<>>
    OBVIOUS
  <2>3. AsFrames(in_meta) \o <<>> = AsFrames(in_meta)
    BY BacklogType
  <2> QED BY <2>1, <2>2, <2>3, FramesEmpty
<1> HIDE DEF E, B, M
<1>4. Through \o B \in Seq(E) /\ (Through \o B) \o M \in Seq(E)
  BY <1>1, ConcatProperties
<1>5. \A s, t \in Seq(E) : Frames(s \o t) = Frames(s) \o Frames(t)
  BY FramesConcat
<1>6. Frames(((Through \o B) \o M) \o in_queue)
        = ((Frames(Through) \o Frames(B)) \o Frames(M)) \o Frames(in_queue)
  <2>1. Frames(Through \o B) = Frames(Through) \o Frames(B)
    BY <1>1, <1>5
  <2>2. Frames((Through \o B) \o M) = Frames(Through \o B) \o Frames(M)
    BY <1>1, <1>4, <1>5
  <2>3. Frames(((Through \o B) \o M) \o in_queue) = Frames((Through \o B) \o M) \o Frames(in_queue)
    BY <1>1, <1>4, <1>5
  <2> QED BY <2>1, <2>2, <2>3
<1> DEFINE t == Frames(Through)
           h == AsFrames(in_meta)
           q == Frames(in_queue)
<1>7. /\ t \in Seq(Frame) /\ B \in Seq(Frame) /\ h \in Seq(Frame) /\ q \in Seq(Frame)
      /\ h \o q \in Seq(Frame)
  BY BacklogType DEF B
<1>8. Fifo => Frames(arrived) = t \o (B \o (h \o q))
  BY DEF Fifo, InBacklog, B
<1> HIDE DEF t, h, q
<1>9. t \o B \in Seq(Frame)
  BY <1>7, ConcatProperties
<1>10. ((t \o B) \o h) \o q = (t \o B) \o (h \o q)
  BY <1>7, <1>9, ConcatAssociative, SMTT(30)
<1>11. (t \o B) \o (h \o q) = t \o (B \o (h \o q))
  BY <1>7, <1>9, ConcatAssociative, SMTT(30)
<1> QED BY <1>2, <1>3, <1>6, <1>8, <1>10, <1>11 DEF FrameFifo, B, M, t, h, q

(* No frame is lost, duplicated or overtaken in a node whose control metas *)
(* never take a batch with them: vp_node's own handle_control_meta returns *)
(* the meta, and a batch of one frame is never incomplete.                 *)
THEOREM FramesKeepOrder == ASSUME NothingDropped PROVE Spec => []FrameFifo
<1>1. IInv /\ FifoInv /\ [Next]_vars => FifoInv'
  BY FifoInvStep
<1>2. IInv /\ FifoInv => FrameFifo
  BY FrameFifoFromInv DEF FifoInv
<1> QED BY <1>1, <1>2, FifoInvInit, Inductive, PTL DEF Spec

(* The forwarded frames are the first of those that arrived.               *)
LEMMA ForwardedFirst ==
  ASSUME IInv, Fifo
  PROVE  /\ Frames(pushed) \in Seq(Frame)
         /\ Frames(arrived) \in Seq(Frame)
         /\ \A i \in DOMAIN Frames(pushed) :
              i \in DOMAIN Frames(arrived) /\ Frames(arrived)[i] = Frames(pushed)[i]
<1> DEFINE E == Meta \cup {nullptr}
           p == Frames(pushed)
           q == Frames(OutBacklog)
           r == InBacklog
<1>1. pushed \in Seq(E) /\ OutBacklog \in Seq(E) /\ E \cap Frame = Frame
  <2>1. \E k \in Nat : DispatchInv(k)
    BY DEF IInv, Unsignalled
  <2> QED BY <2>1, ThroughType DEF Meta
<1>2. p \in Seq(Frame) /\ q \in Seq(Frame) /\ r \in Seq(Frame)
  BY <1>1, FramesType, BacklogType
<1>3. Frames(Through) = p \o q
  <2> HIDE DEF E
  <2> QED BY <1>1, FramesConcat DEF Through
<1>4. Frames(arrived) = (p \o q) \o r
  BY <1>3 DEF Fifo
<1> HIDE DEF p, q, r
<1> DEFINE t == p \o q
<1>5. t \in Seq(Frame) /\ \A i \in DOMAIN p : i \in DOMAIN t /\ t[i] = p[i]
  BY <1>2
<1> HIDE DEF t
<1>6. t \o r \in Seq(Frame) /\ \A i \in DOMAIN t : i \in DOMAIN (t \o r) /\ (t \o r)[i] = t[i]
  BY <1>2, <1>5
<1> QED BY <1>2, <1>4, <1>5, <1>6 DEF p, t

-------------------------------------------------------------------------------
(* The steps of the node, seen as steps of the channel: a frame is         *)
(* accepted when it is pushed into in_queue, and forwarded by push_meta.   *)
LEMMA ArriveAccepts ==
  ASSUME IInv, NEW u \in Upstream, NEW m \in Meta, MetaFlowPush(u, m)
  PROVE  (Channel!Accept(m) /\ m \in Frame) \/ UNCHANGED <<Frames(arrived), Frames(pushed)>>
<1>1. arrived \in Seq(Meta) /\ arrived' = Append(arrived, m) /\ pushed' = pushed
  BY DEF IInv, TypeOK, MetaFlowPush, dispatchVars
<1>2. Frames(arrived)' = IF m \in Frame THEN Append(Frames(arrived), m) ELSE Frames(arrived)
  BY <1>1, FramesAppend
<1>3. \A i \in DOMAIN Frames(arrived) : Frames(arrived)[i] # m
  <2> DEFINE Others == Meta \ {m}
  <2>1. arrived \in Seq(Others)
    <3>1. /\ arrived = [i \in 1..Len(arrived) |-> arrived[i]] /\ Len(arrived) \in Nat
          /\ \A i \in 1..Len(arrived) : arrived[i] \in Others
      BY <1>1 DEF MetaFlowPush
    <3> QED BY <3>1
  <2> HIDE DEF Others
  <2>2. Frames(arrived) \in Seq(Others \cap Frame)
    BY <2>1, FramesType
  <2> QED BY <2>2 DEF Others
<1> QED BY <1>1, <1>2, <1>3 DEF Channel!Accept

LEMMA PushForwards ==
  ASSUME IInv, Fifo, DispatchPush, arrived' = arrived
  PROVE  Channel!Forward \/ UNCHANGED <<Frames(arrived), Frames(pushed)>>
<1> DEFINE E == Meta \cup {nullptr}
           P == Frames(pushed)
           A == Frames(arrived)
           m == out_meta
<1>1. /\ pushed \in Seq(E) /\ out_queue \in Seq(E) /\ out_queue # <<>>
      /\ Head(out_queue) = m /\ m \in E /\ Through = pushed \o out_queue
  BY DEF IInv, TypeOK, DispatchTypeOK, DispatchInv, PopRemovesPushed, DispatchPush, Through,
         OutBacklog
<1>2. pushed' = Append(pushed, m)
  BY DEF DispatchPush, PushMeta
<1>3. P' = IF m \in Frame THEN Append(P, m) ELSE P
  BY <1>1, <1>2, FramesAppend
<1>4. CASE m \notin Frame
  BY <1>3, <1>4
<1>5. CASE m \in Frame
  <2> DEFINE t == Frames(Tail(out_queue))
  <2>1. Frames(out_queue) = <<m>> \o t
    BY <1>1, <1>5, FramesCons DEF AsFrames
  <2>2. Frames(Through) = P \o Frames(out_queue)
    BY <1>1, FramesConcat
  <2>3. A = (P \o (<<m>> \o t)) \o InBacklog
    BY <2>1, <2>2 DEF Fifo
  <2>4. E \cap Frame = Frame /\ Tail(out_queue) \in Seq(E)
    BY <1>1 DEF Meta
  <2>5. P \in Seq(Frame) /\ t \in Seq(Frame) /\ InBacklog \in Seq(Frame)
    BY <1>1, <2>4, FramesType, BacklogType
  <2> HIDE DEF P, t, A
  <2>6. Len(P) < Len(A) /\ A[Len(P) + 1] = m
    <3>1. <<m>> \o t \in Seq(Frame) /\ Len(<<m>> \o t) >= 1 /\ (<<m>> \o t)[1] = m
      BY <1>5, <2>5
    <3> DEFINE w == <<m>> \o t
    <3>2. w \in Seq(Frame) /\ Len(w) >= 1 /\ w[1] = m
      BY <3>1
    <3> HIDE DEF w
    <3>3. P \o w \in Seq(Frame) /\ Len(P \o w) > Len(P) /\ (P \o w)[Len(P) + 1] = m
      BY <2>5, <3>2
    <3> DEFINE v == P \o w
    <3>4. v \in Seq(Frame) /\ Len(v) > Len(P) /\ v[Len(P) + 1] = m
      BY <3>3
    <3> HIDE DEF v
    <3>5. Len(v \o InBacklog) >= Len(v) /\ (v \o InBacklog)[Len(P) + 1] = v[Len(P) + 1]
      BY <2>5, <3>4
    <3> QED BY <2>3, <2>5, <3>4, <3>5 DEF v, w
  <2>7. P' = Append(P, A[Len(P) + 1]) /\ A' = A
    BY <1>3, <1>5, <2>6 DEF A, P
  <2> QED BY <2>6, <2>7 DEF Channel!Forward, A, P
<1> QED BY <1>4, <1>5

LEMMA StepsOfChannel ==
  ASSUME IInv, Fifo, [Next]_vars
  PROVE  [Channel!Next]_<<Frames(arrived), Frames(pushed)>>
<1>1. CASE \E u \in Upstream, m \in Meta : MetaFlowPush(u, m)
  BY <1>1, ArriveAccepts DEF Channel!Next
<1>2. CASE Dispatch /\ DispatchPush
  BY <1>2, PushForwards DEF Channel!Next, Dispatch, inVars
<1>3. CASE \/ HandleThread \/ Destroy \/ Deinit \/ UNCHANGED vars \/ Terminated
           \/ Dispatch /\ ~DispatchPush
           \/ \E u \in Upstream : Attach(u) \/ Detach(u) \/ Flow(u)
  <2>1. UNCHANGED <<arrived, pushed>>
    <3>1. CASE HandleThread
      BY <3>1
      DEF HandleThread, HandleLoop, HandleWait, HandlePop, HandleHandling, HandleControl,
          PendingPush, PendingHandled, PendingSignal, FinishControl, HandleFrame, EmitPush,
          EmitHandled, EmitSignal, HandleDeadPush, HandleDeadSignal, dispatchVars, inVars
    <3>2. CASE Dispatch /\ ~DispatchPush
      BY <3>2
      DEF Dispatch, DispatchThread, DispatchLoop, DispatchWait, DispatchFront, DispatchLeaving,
          DispatchPop, inVars
    <3>3. CASE Destroy \/ Deinit \/ UNCHANGED vars \/ Terminated
      BY <3>3
      DEF Destroy, Deinit, DeinitPush, DeinitSignal, JoinHandle, JoinDispatch, vars, Terminated,
          dispatchVars, inVars
    <3>4. CASE \E u \in Upstream : Attach(u) \/ Detach(u) \/ Flow(u)
      BY <3>4 DEF Attach, Detach, Flow, MetaFlowHook, MetaFlowSignal, dispatchVars, inVars
    <3> QED BY <1>3, <3>1, <3>2, <3>3, <3>4
  <2> QED BY <2>1
<1> QED BY <1>1, <1>2, <1>3 DEF Next

(* A node is a channel: it forwards the frames it accepted, each once and  *)
(* in the order of their arrival, whatever its threads, queues and         *)
(* previous nodes do, unless a consumed control meta takes frames away.    *)
THEOREM NodeIsChannel == ASSUME NothingDropped PROVE Spec => ImplementsChannel
<1>1. Init => Channel!Init
  BY FramesEmpty DEF Init, DispatchInit, Channel!Init
<1>2. IInv /\ FifoInv /\ [Next]_vars => FifoInv'
  BY FifoInvStep
<1>3. IInv /\ FifoInv /\ [Next]_vars => [Channel!Next]_<<Frames(arrived), Frames(pushed)>>
  BY StepsOfChannel DEF FifoInv
<1> QED BY <1>1, <1>2, <1>3, FifoInvInit, Inductive, PTL DEF Spec, ImplementsChannel, Channel!Spec

-------------------------------------------------------------------------------
(* A previous node whose threads push one at a time, and that detaches     *)
(* between two pushes, is never in the middle of two calls of meta_flow,   *)
(* nor in one once the destructor runs.                                    *)
OneFlow ==
  /\ \A u, v \in Upstream : flow_pc[u] # "idle" /\ flow_pc[v] # "idle" => u = v
  /\ owner_pc # "live" => \A u \in Upstream : flow_pc[u] = "idle"

(* The arriving hooker has run for all that is in in_queue, but for the    *)
(* meta at its end while its meta_flow has not come to the hooker.  The    *)
(* semaphore does not count that one: the handle thread cannot take it.    *)
Entering == \E u \in Upstream : flow_pc[u] = "hook"

EnteringLast ==
  \A u \in Upstream :
    flow_pc[u] = "hook" => in_queue # <<>> /\ in_queue[Len(in_queue)] = flow_meta[u]

ArrivedDone ==
  /\ \A i \in DOMAIN in_queue :
       in_queue[i] \in Meta /\ (i = Len(in_queue) => ~Entering) => Arriving \in hooked[in_queue[i]]
  /\ handle_pc = "handling" => Arriving \in hooked[in_meta]

PortOrder ==
  \A m \in Meta : /\ Handling \in hooked[m] => Arriving \in hooked[m]
                  /\ Handled \in hooked[m] => Handling \in hooked[m]

ArrivingInv == EnteringLast /\ ArrivedDone /\ PortOrder

LEMMA HookOrderFromInv == ASSUME IInv, HookedInv, ArrivingInv PROVE HookOrder
<1> SUFFICES ASSUME NEW m \in Meta, NEW p \in hooked[m], NEW q \in Arriving..p
             PROVE  q \in hooked[m]
  BY DEF HookOrder
<1>1. p \in {1, 2, 3, 4} /\ q \in {1, 2, 3, 4} /\ q <= p
  <2>1. hooked[m] \subseteq Arriving..Leaving
    BY DEF IInv, TypeOK, DispatchTypeOK
  <2>2. p \in 1..4 /\ q \in 1..p
    BY <2>1 DEF Arriving, Leaving
  <2> QED BY <2>2
<1>2. /\ 2 \in hooked[m] => 1 \in hooked[m]
      /\ 3 \in hooked[m] => 2 \in hooked[m]
      /\ 4 \in hooked[m] => 2 \in hooked[m] /\ 3 \in hooked[m]
  BY DEF ArrivingInv, PortOrder, HookedInv, LeavingAfterHandled, Arriving, Handling, Handled, Leaving
<1> QED BY <1>1, <1>2

(* The steps of the previous nodes.                                        *)
LEMMA FlowArrivingInv ==
  ASSUME IInv, ArrivingInv, OneFlow, NEW u \in Upstream,
         Flow(u) \/ \E m \in Meta : MetaFlowPush(u, m) /\ \A v \in Upstream : flow_pc[v] = "idle"
  PROVE  ArrivingInv'
<1> USE DEF ArrivingInv, EnteringLast, ArrivedDone, PortOrder, Entering
<1>0. /\ in_queue \in Seq(Meta \cup {nullptr}) /\ nullptr \notin Meta
      /\ flow_pc \in [Upstream -> {"idle", "hook", "signal"}]
      /\ flow_meta \in [Upstream -> Meta \cup {nullptr}]
      /\ handle_pc = "handling" => in_meta \in Meta
  BY MetaAssumption DEF IInv, TypeOK, InHand
<1>1. ASSUME NEW m \in Meta, MetaFlowPush(u, m), \A v \in Upstream : flow_pc[v] = "idle"
      PROVE  ArrivingInv'
  <2>1. /\ Len(in_queue') = Len(in_queue) + 1
        /\ DOMAIN in_queue = 1..Len(in_queue)
        /\ DOMAIN in_queue' = 1..Len(in_queue')
        /\ \A i \in DOMAIN in_queue : in_queue'[i] = in_queue[i]
        /\ in_queue'[Len(in_queue')] = m /\ in_queue' # <<>>
    BY <1>0, <1>1 DEF MetaFlowPush
  <2>2. /\ flow_meta' = [flow_meta EXCEPT ![u] = m]
        /\ flow_pc' = [flow_pc EXCEPT ![u] = "hook"]
        /\ UNCHANGED <<hooked, handle_pc, in_meta>>
    BY <1>1 DEF MetaFlowPush, dispatchVars, handleVars
  <2>3. \A v \in Upstream : flow_pc'[v] = "hook" => v = u
    BY <1>0, <1>1, <2>2
  <2>4. flow_pc'[u] = "hook" /\ flow_meta'[u] = m
    BY <1>0, <2>2
  <2>5. EnteringLast'
    BY <2>1, <2>3, <2>4
  <2>6. ArrivedDone'
    BY <1>1, <2>1, <2>2, <2>4
  <2> QED BY <2>2, <2>5, <2>6
<1>2. CASE MetaFlowHook(u)
  <2>1. /\ in_queue # <<>> /\ in_queue[Len(in_queue)] = flow_meta[u]
        /\ UNCHANGED <<in_queue, flow_meta, handle_pc, in_meta>>
        /\ flow_pc' = [flow_pc EXCEPT ![u] = "signal"]
    BY <1>2 DEF MetaFlowHook, inVars, handleVars
  <2>2. flow_meta[u] \in Meta \cup {nullptr}
    BY <1>0
  <2>3. \A n \in Meta : hooked'[n] = IF n = flow_meta[u] THEN hooked[n] \cup {Arriving} ELSE hooked[n]
    BY <1>2 DEF MetaFlowHook, Hook, IInv, TypeOK, DispatchTypeOK
  <2>4. \A v \in Upstream : flow_pc'[v] # "hook"
    BY <1>0, <1>2, <2>1 DEF MetaFlowHook, OneFlow
  <2>5. PortOrder'
    <3> SUFFICES ASSUME NEW n \in Meta
                 PROVE  /\ Handling \in hooked'[n] => Arriving \in hooked'[n]
                        /\ Handled \in hooked'[n] => Handling \in hooked'[n]
      OBVIOUS
    <3>1. /\ Handling \in hooked[n] => Arriving \in hooked[n]
          /\ Handled \in hooked[n] => Handling \in hooked[n]
      OBVIOUS
    <3>2. hooked'[n] = hooked[n] \/ hooked'[n] = hooked[n] \cup {Arriving}
      BY <2>3
    <3>3. Handling \notin {Arriving} /\ Handled \notin {Arriving}
      BY DEF Arriving, Handling, Handled
    <3> QED BY <3>1, <3>2, <3>3
  <2>6. ArrivedDone'
    <3>1. \A i \in DOMAIN in_queue : in_queue[i] \in Meta => Arriving \in hooked'[in_queue[i]]
      <4> SUFFICES ASSUME NEW i \in DOMAIN in_queue, in_queue[i] \in Meta
                   PROVE  Arriving \in hooked'[in_queue[i]]
        OBVIOUS
      <4>1. CASE i = Len(in_queue)
        BY <2>1, <2>3, <4>1
      <4>2. CASE i # Len(in_queue)
        BY <2>3, <4>2
      <4> QED BY <4>1, <4>2
    <3>2. handle_pc = "handling" => Arriving \in hooked'[in_meta]
      BY <1>0, <2>3
    <3> QED BY <2>1, <3>1, <3>2
  <2> QED BY <2>4, <2>5, <2>6
<1>3. CASE MetaFlowSignal(u)
  <2>1. /\ UNCHANGED <<in_queue, hooked, handle_pc, in_meta>>
        /\ flow_pc' = [flow_pc EXCEPT ![u] = "idle"]
    BY <1>3 DEF MetaFlowSignal, dispatchVars, handleVars
  <2>2. \A v \in Upstream : flow_pc[v] # "hook" /\ flow_pc'[v] # "hook"
    BY <1>0, <1>3, <2>1 DEF MetaFlowSignal, OneFlow
  <2> QED BY <2>1, <2>2
<1> QED BY <1>1, <1>2, <1>3 DEF Flow

(* A hooker of a later port, for a meta whose earlier one is done.         *)
LEMMA LaterHook ==
  ASSUME IInv, ArrivingInv, NEW p, NEW m \in Meta, Hook(p, m),
         \/ p = Handling /\ Arriving \in hooked[m]
         \/ p = Handled /\ Handling \in hooked[m]
         \/ p = Leaving,
         UNCHANGED <<in_queue, flow_pc, flow_meta, in_meta>>,
         handle_pc' = "handling" => handle_pc = "handling"
  PROVE  ArrivingInv'
<1>0. /\ in_queue \in Seq(Meta \cup {nullptr})
      /\ handle_pc = "handling" => in_meta \in Meta
  BY DEF IInv, TypeOK, InHand
<1>1. \A n \in Meta : hooked'[n] = IF n = m THEN hooked[n] \cup {p} ELSE hooked[n]
  BY HookAdds
<1>2. \A n \in Meta : hooked[n] \subseteq hooked'[n]
  BY <1>1
<1>3. EnteringLast' /\ Entering' = Entering
  BY DEF ArrivingInv, EnteringLast, Entering
<1>4. ArrivedDone'
  BY <1>0, <1>2, <1>3 DEF ArrivingInv, ArrivedDone
<1>5. PortOrder'
  <2> SUFFICES ASSUME NEW n \in Meta
               PROVE  /\ Handling \in hooked'[n] => Arriving \in hooked'[n]
                      /\ Handled \in hooked'[n] => Handling \in hooked'[n]
    BY DEF PortOrder
  <2>1. /\ Handling \in hooked[n] => Arriving \in hooked[n]
        /\ Handled \in hooked[n] => Handling \in hooked[n]
    BY DEF ArrivingInv, PortOrder
  <2>2. CASE n = m
    <3>1. hooked'[n] = hooked[n] \cup {p}
      BY <1>1, <2>2
    <3> QED BY <2>1, <2>2, <3>1 DEF Handling, Handled, Leaving
  <2>3. CASE n # m
    <3>1. hooked'[n] = hooked[n]
      BY <1>1, <2>3
    <3> QED BY <2>1, <3>1
  <2> QED BY <2>2, <2>3
<1> QED BY <1>3, <1>4, <1>5 DEF ArrivingInv

(* What the handle thread takes has been through the arriving hooker.      *)
LEMMA PopArrivingInv == ASSUME IInv, ArrivingInv, HandlePop PROVE ArrivingInv'
<1> USE DEF ArrivingInv
<1>1. /\ in_queue \in Seq(Meta \cup {nullptr}) /\ in_queue # <<>> /\ in_queue' = Tail(in_queue)
      /\ in_meta' = Head(in_queue) /\ UNCHANGED <<flow_pc, flow_meta, hooked>>
      /\ Head(in_queue) = nullptr => handle_pc' # "handling"
  BY DEF HandlePop, flowVars, dispatchVars, IInv, TypeOK
<1>2. Entering => Len(in_queue) >= 2
  <2> SUFFICES ASSUME Entering PROVE Len(in_queue) >= 2
    OBVIOUS
  <2>1. Flowing # {}
    BY DEF Entering, Flowing
  <2>2. Cardinality(Flowing) \in Nat /\ Cardinality(Flowing) # 0
    BY <2>1, FlowingFinite, FS_EmptySet DEF IInv
  <2>3. /\ Len(in_queue) >= in_queue_semaphore + Cardinality(Flowing) + OwnerOwes + 1
        /\ in_queue_semaphore \in Nat /\ OwnerOwes \in Nat
    BY DEF HandlePop, IInv, TypeOK, InCovered, HandleHolds, OwnerOwes
  <2> QED BY <1>1, <2>2, <2>3
<1>3. /\ Len(in_queue') = Len(in_queue) - 1 /\ Len(in_queue) >= 1
      /\ DOMAIN in_queue = 1..Len(in_queue)
      /\ DOMAIN in_queue' = 1..Len(in_queue')
      /\ \A i \in DOMAIN in_queue' : in_queue'[i] = in_queue[i + 1]
      /\ Head(in_queue) = in_queue[1]
  BY <1>1
<1>4. EnteringLast'
  <2> SUFFICES ASSUME NEW u \in Upstream, flow_pc[u] = "hook"
               PROVE  in_queue' # <<>> /\ in_queue'[Len(in_queue')] = flow_meta[u]
    BY <1>1 DEF EnteringLast
  <2>1. in_queue[Len(in_queue)] = flow_meta[u]
    BY DEF EnteringLast
  <2>2. Len(in_queue') >= 1
    BY <1>2, <1>3 DEF Entering
  <2> QED BY <1>3, <2>1, <2>2
<1>5. \A i \in DOMAIN in_queue :
        in_queue[i] \in Meta /\ (i = Len(in_queue) => ~Entering) => Arriving \in hooked[in_queue[i]]
  BY DEF ArrivedDone
<1>6. handle_pc' = "handling" => Arriving \in hooked[Head(in_queue)]
  <2> SUFFICES ASSUME handle_pc' = "handling" PROVE Arriving \in hooked[Head(in_queue)]
    OBVIOUS
  <2>1. in_queue[1] \in Meta /\ 1 \in DOMAIN in_queue
    <3>1. 1 \in DOMAIN in_queue
      BY <1>3
    <3>2. in_queue[1] \in Meta \cup {nullptr} /\ in_queue[1] # nullptr
      BY <1>1, <1>3, <3>1
    <3> QED BY <3>1, <3>2
  <2>2. 1 = Len(in_queue) => ~Entering
    BY <1>1, <1>2
  <2>3. Arriving \in hooked[in_queue[1]]
    BY <1>5, <2>1, <2>2
  <2> QED BY <1>3, <2>3
<1>7. Entering' = Entering
  BY <1>1 DEF Entering
<1>8. ArrivedDone'
  <2>1. ASSUME NEW i \in DOMAIN in_queue', in_queue'[i] \in Meta, i = Len(in_queue') => ~Entering
        PROVE  Arriving \in hooked[in_queue'[i]]
    <3>1. /\ i + 1 \in DOMAIN in_queue /\ in_queue[i + 1] = in_queue'[i]
          /\ i + 1 = Len(in_queue) => ~Entering
      BY <1>3, <2>1
    <3> QED BY <1>5, <2>1, <3>1
  <2> QED BY <1>1, <1>6, <1>7, <2>1 DEF ArrivedDone
<1>9. PortOrder'
  BY <1>1 DEF PortOrder
<1> QED BY <1>4, <1>8, <1>9

LEMMA ArrivingInvStep ==
  ASSUME IInv, HookedInv, ArrivingInv, OneFlow, OneFlow', [Next]_vars
  PROVE  ArrivingInv'
<1>1. CASE \E u \in Upstream : Flow(u)
  BY <1>1, FlowArrivingInv
<1>2. ASSUME NEW u \in Upstream, NEW m \in Meta, MetaFlowPush(u, m)
      PROVE  ArrivingInv'
  <2>1. \A v \in Upstream : flow_pc[v] = "idle"
    <3> SUFFICES ASSUME NEW v \in Upstream, flow_pc[v] # "idle" PROVE FALSE
      OBVIOUS
    <3>1. u # v /\ flow_pc'[u] = "hook" /\ flow_pc'[v] # "idle"
      BY <1>2 DEF MetaFlowPush, IInv, TypeOK
    <3> QED BY <3>1 DEF OneFlow
  <2> QED BY <1>2, <2>1, FlowArrivingInv
<1>3. CASE HandlePop
  BY <1>3, PopArrivingInv
<1>4. CASE HandleHandling
  <2>1. in_meta \in Meta /\ Arriving \in hooked[in_meta] /\ Hook(Handling, in_meta)
    BY <1>4 DEF HandleHandling, IInv, InHand, ArrivingInv, ArrivedDone
  <2>2. UNCHANGED <<in_queue, flow_pc, flow_meta, in_meta>> /\ handle_pc' # "handling"
    BY <1>4 DEF HandleHandling, inVars, flowVars
  <2> QED BY <2>1, <2>2, LaterHook
<1>5. CASE PendingHandled \/ EmitHandled
  <2>1. PICK m \in Meta : Handling \in hooked[m] /\ Hook(Handled, m)
    <3>1. CASE PendingHandled
      BY <3>1 DEF PendingHandled, IInv, InHand, Meta, HookedInv, HandlingDone
    <3>2. CASE EmitHandled
      <4>1. /\ frame_meta_batch_cache \in Seq(Frame) /\ emitted \in Nat
            /\ emitted < Len(frame_meta_batch_cache)
        BY <3>2 DEF EmitHandled, IInv, TypeOK, InHand
      <4>2. emitted + 1 \in DOMAIN frame_meta_batch_cache /\ Current \in Meta
        BY <4>1 DEF Current, Meta
      <4>3. Handling \in hooked[Current]
        BY <4>2 DEF Current, HookedInv, HandlingDone
      <4> QED BY <3>2, <4>2, <4>3 DEF EmitHandled
    <3> QED BY <1>5, <3>1, <3>2
  <2>2. UNCHANGED <<in_queue, flow_pc, flow_meta, in_meta>> /\ handle_pc' # "handling"
    BY <1>5 DEF PendingHandled, EmitHandled, inVars, flowVars
  <2> QED BY <2>1, <2>2, LaterHook
<1>6. CASE Dispatch /\ DispatchLeaving
  <2>1. out_meta \in Meta /\ Hook(Leaving, out_meta)
    BY <1>6 DEF DispatchLeaving, IInv, DispatchInv, HoldsMeta
  <2>2. UNCHANGED <<in_queue, flow_pc, flow_meta, in_meta, handle_pc>>
    BY <1>6 DEF Dispatch, inVars, flowVars, handleVars
  <2> QED BY <2>1, <2>2, LaterHook
<1>7. CASE DeinitPush
  <2>1. \A u \in Upstream : flow_pc[u] # "hook"
    BY <1>7 DEF DeinitPush, OneFlow
  <2>2. /\ in_queue \in Seq(Meta \cup {nullptr}) /\ nullptr \notin Meta
        /\ in_queue' = Append(in_queue, nullptr)
        /\ UNCHANGED <<flow_pc, hooked, handle_pc, in_meta>>
    BY <1>7, MetaAssumption DEF DeinitPush, IInv, TypeOK, flowVars, dispatchVars, handleVars
  <2> QED BY <2>1, <2>2 DEF ArrivingInv, EnteringLast, ArrivedDone, PortOrder, Entering
<1>8. CASE \/ HandleLoop \/ HandleWait \/ HandleControl \/ PendingPush \/ PendingSignal
           \/ FinishControl \/ HandleFrame \/ EmitPush \/ EmitSignal \/ HandleDeadPush
           \/ HandleDeadSignal
           \/ Dispatch /\ ~DispatchLeaving
           \/ Destroy \/ (Deinit /\ ~DeinitPush) \/ Terminated \/ UNCHANGED vars
           \/ \E u \in Upstream : Attach(u) \/ Detach(u)
  <2>1. /\ UNCHANGED <<in_queue, flow_pc, flow_meta, hooked>>
        /\ handle_pc' = "handling" => handle_pc = "handling" /\ in_meta' = in_meta
    BY <1>8
    DEF HandleLoop, HandleWait, HandleControl, PendingPush, PendingSignal, FinishControl,
        HandleFrame, EmitPush, EmitSignal, HandleDeadPush, HandleDeadSignal, Dispatch,
        DispatchThread, DispatchLoop, DispatchWait, DispatchFront, DispatchPush, DispatchPop,
        Destroy, Deinit, DeinitSignal, JoinHandle, JoinDispatch, Terminated, vars, Attach, Detach,
        flowVars, dispatchVars, inVars, handleVars
  <2> QED BY <2>1 DEF ArrivingInv, EnteringLast, ArrivedDone, PortOrder, Entering
<1> QED BY <1>1, <1>2, <1>3, <1>4, <1>5, <1>6, <1>7, <1>8 DEF Next, HandleThread

LEMMA ArrivingInvInit == Init => ArrivingInv
  BY DEF Init, DispatchInit, ArrivingInv, EnteringLast, ArrivedDone, PortOrder, Entering

(* A node is in no call of meta_flow when it is let go.                    *)
CallsAttached ==
  /\ \A u \in Upstream : flow_pc[u] # "idle" => u \in attached
  /\ owner_pc # "live" => attached = {}

(* With one previous node the hookers of a meta are invoked in the order   *)
(* of the ports, although meta_flow queues the meta before its arriving    *)
(* hooker.  With two the signal of one lets the handle thread take a meta  *)
(* of the other before its hooker.                                         *)
THEOREM HookersFollowPorts ==
  ASSUME \A u, v \in Upstream : u = v
  PROVE  Spec => []HookOrder
<1>1. Init => CallsAttached /\ HookedInv /\ ArrivingInv
  BY HookedInvInit, ArrivingInvInit DEF Init, CallsAttached
<1>2. IInv /\ CallsAttached /\ [Next]_vars => CallsAttached'
  <2> SUFFICES ASSUME IInv, CallsAttached, [Next]_vars PROVE CallsAttached'
    OBVIOUS
  <2>0. flow_pc \in [Upstream -> {"idle", "hook", "signal"}] /\ attached \subseteq Upstream
    BY DEF IInv, TypeOK
  <2>1. CASE \E u \in Upstream : Attach(u) \/ Detach(u)
    BY <2>0, <2>1 DEF Attach, Detach, CallsAttached
  <2>2. CASE \E u \in Upstream : Flow(u) \/ \E m \in Meta : MetaFlowPush(u, m)
    BY <2>0, <2>2 DEF Flow, MetaFlowHook, MetaFlowSignal, MetaFlowPush, CallsAttached
  <2>3. CASE Destroy
    BY <2>3 DEF Destroy, flowVars, CallsAttached
  <2>4. CASE Deinit
    BY <2>4 DEF Deinit, DeinitPush, DeinitSignal, JoinHandle, JoinDispatch, flowVars, CallsAttached
  <2>5. CASE HandleThread \/ Dispatch \/ Terminated \/ UNCHANGED vars
    <3>1. UNCHANGED <<flowVars, owner_pc>>
      BY <2>5
      DEF HandleThread, HandleLoop, HandleWait, HandlePop, HandleHandling, HandleControl,
          PendingPush, PendingHandled, PendingSignal, FinishControl, HandleFrame, EmitPush,
          EmitHandled, EmitSignal, HandleDeadPush, HandleDeadSignal, Dispatch, Terminated, vars
    <3> QED BY <3>1 DEF flowVars, CallsAttached
  <2> QED BY <2>1, <2>2, <2>3, <2>4, <2>5 DEF Next
<1>3. IInv /\ HookedInv /\ [Next]_vars => HookedInv'
  BY HookedInvStep
<1>4. CallsAttached => OneFlow
  BY DEF CallsAttached, OneFlow
<1>5. IInv /\ HookedInv /\ ArrivingInv /\ OneFlow /\ OneFlow' /\ [Next]_vars => ArrivingInv'
  BY ArrivingInvStep
<1>6. IInv /\ HookedInv /\ ArrivingInv => HookOrder
  BY HookOrderFromInv
<1> QED BY <1>1, <1>2, <1>3, <1>4, <1>5, <1>6, Inductive, PTL DEF Spec

-------------------------------------------------------------------------------
(* Attaching and detaching disturbs none of the invariants: it may be      *)
(* composed with the node in any way.                                      *)
LEMMA AttachingKeeps ==
  ASSUME IInv, FifoInv, HookedInv, ArrivingInv, attached' \subseteq Upstream,
         UNCHANGED <<alive, dispatchVars, flow_pc, flow_meta, inVars, handleVars, owner_pc>>
  PROVE  IInv' /\ FifoInv' /\ HookedInv' /\ ArrivingInv'
<1>1. DispatchInv(Unsignalled)'
  BY DispatchKept DEF IInv, TypeOK, DispatchTypeOK, Unsignalled, handleVars
<1>2. IInv'
  BY <1>1
  DEF IInv, TypeOK, DispatchTypeOK, HandlePc, InCovered, Flowing, OwnerOwes, HandleHolds, InHand,
      DispatchInv, dispatchVars, inVars, handleVars
<1>3. FifoInv'
  BY DEF FifoInv, HandInv, Emitting, Fifo, InBacklog, BatchBacklog, Through, OutBacklog,
         dispatchVars, inVars, handleVars
<1>4. HookedInv'
  BY DEF HookedInv, HandlingDone, LastQueued, QueueDone, LeavingAfterHandled, Hooking, Current,
         dispatchVars, handleVars
<1>5. ArrivingInv'
  BY DEF ArrivingInv, EnteringLast, ArrivedDone, PortOrder, Entering, dispatchVars, inVars,
         handleVars
<1> QED BY <1>2, <1>3, <1>4, <1>5

===============================================================================
