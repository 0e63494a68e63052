----------------------------- MODULE NodeDispatch -----------------------------
(***************************************************************************)
(* The downstream half of a vp_node (nodes/common/src/vp_node.cpp): the    *)
(* out_queue with its semaphore, and the dispatch thread that forwards     *)
(* every meta of that queue to the next nodes.  The half is the same for   *)
(* every kind of node; what fills the queue differs, and is modelled by    *)
(* the modules that extend this one (VpNode for the base class, VpSrcNode  *)
(* for source nodes).                                                      *)
(*                                                                         *)
(* ThreadSafeQueue and vp_semaphore operations are atomic steps here:      *)
(* each of them runs inside one critical section of the object's mutex     *)
(* (VpSemaphore.tla models the condition variable below that step).        *)
(***************************************************************************)
EXTENDS Naturals, Sequences, FiniteSets

CONSTANTS
  Frame,    \* frame metas: vp_meta_type::FRAME
  Control,  \* control metas: vp_meta_type::CONTROL
  nullptr   \* the null shared_ptr, which the queues carry as "dead flag"

Meta == Frame \cup Control

ASSUME MetaAssumption ==
  /\ Frame \cap Control = {}
  /\ nullptr \notin Meta

VARIABLES
  alive,                \* vp_node::alive, a plain bool read by every thread
  out_queue,            \* metas waiting for the dispatch thread
  out_queue_semaphore,  \* its count_
  dispatch_pc,          \* where the dispatch thread is
  out_meta,             \* the meta it is forwarding, nullptr if none
  pushed,               \* history: metas given to push_meta, in order
  hooked                \* history: the ports whose hookers were invoked, per meta

dispatchVars == <<out_queue, out_queue_semaphore, dispatch_pc, out_meta, pushed, hooked>>

-------------------------------------------------------------------------------
(* The four ports of vp_meta_hookable: a hooker is a callback that must    *)
(* not block, so invoking one is a step that only leaves its trace.        *)
Arriving == 1
Handling == 2
Handled == 3
Leaving == 4

Hook(p, m) == hooked' = [hooked EXCEPT ![m] = @ \cup {p}]

(* vp_semaphore::signal and the wait that returns.                         *)
SignalOut == out_queue_semaphore' = out_queue_semaphore + 1

WaitOut ==
  /\ out_queue_semaphore > 0
  /\ out_queue_semaphore' = out_queue_semaphore - 1

(* vp_meta_publisher::push_meta: every subscriber gets the meta.           *)
PushMeta(m) == pushed' = Append(pushed, m)

-------------------------------------------------------------------------------
(* dispatch_run, one action per step another thread can interleave with.   *)

DispatchLoop ==
  /\ dispatch_pc = "loop"
  /\ dispatch_pc' = IF alive THEN "wait" ELSE "exit"
  /\ UNCHANGED <<out_queue, out_queue_semaphore, out_meta, pushed, hooked>>

DispatchWait ==
  /\ dispatch_pc = "wait"
  /\ WaitOut
  /\ dispatch_pc' = "front"
  /\ UNCHANGED <<out_queue, out_meta, pushed, hooked>>

(* Front throws on an empty queue, and nobody catches it: the action has   *)
(* no successor there, FrontNeverEmpty says that this never happens.  The  *)
(* dead flag stays in the queue.                                           *)
DispatchFront ==
  /\ dispatch_pc = "front"
  /\ out_queue # <<>>
  /\ out_meta' = Head(out_queue)
  /\ dispatch_pc' = IF Head(out_queue) = nullptr THEN "loop" ELSE "leaving"
  /\ UNCHANGED <<out_queue, out_queue_semaphore, pushed, hooked>>

DispatchLeaving ==
  /\ dispatch_pc = "leaving"
  /\ Hook(Leaving, out_meta)
  /\ dispatch_pc' = "push"
  /\ UNCHANGED <<out_queue, out_queue_semaphore, out_meta, pushed>>

DispatchPush ==
  /\ dispatch_pc = "push"
  /\ PushMeta(out_meta)
  /\ dispatch_pc' = "pop"
  /\ UNCHANGED <<out_queue, out_queue_semaphore, out_meta, hooked>>

(* Variant with a bug: the forwarded meta stays in the queue.              *)
DispatchPopForgotten ==
  /\ dispatch_pc = "pop"
  /\ out_meta' = nullptr
  /\ dispatch_pc' = "loop"
  /\ UNCHANGED <<out_queue, out_queue_semaphore, pushed, hooked>>

(* ThreadSafeQueue::Pop does nothing on an empty queue.                    *)
DispatchPop ==
  /\ dispatch_pc = "pop"
  /\ out_queue' = IF out_queue = <<>> THEN <<>> ELSE Tail(out_queue)
  /\ out_meta' = nullptr
  /\ dispatch_pc' = "loop"
  /\ UNCHANGED <<out_queue_semaphore, pushed, hooked>>

DispatchThread ==
  \/ DispatchLoop
  \/ DispatchWait
  \/ DispatchFront
  \/ DispatchLeaving
  \/ DispatchPush
  \/ DispatchPop

-------------------------------------------------------------------------------
DispatchInit ==
  /\ alive = TRUE
  /\ out_queue = <<>>
  /\ out_queue_semaphore = 0
  /\ dispatch_pc = "loop"
  /\ out_meta = nullptr
  /\ pushed = <<>>
  /\ hooked = [m \in Meta |-> {}]

DispatchPc == {"loop", "wait", "front", "leaving", "push", "pop", "exit"}

DispatchTypeOK ==
  /\ alive \in BOOLEAN
  /\ out_queue \in Seq(Meta \cup {nullptr})
  /\ out_queue_semaphore \in Nat
  /\ dispatch_pc \in DispatchPc
  /\ out_meta \in Meta \cup {nullptr}
  /\ pushed \in Seq(Meta)
  /\ hooked \in [Meta -> SUBSET (Arriving..Leaving)]

-------------------------------------------------------------------------------
(* Properties that every kind of node has.                                 *)

(* dispatch_run never calls Front on an empty out_queue, which would throw *)
(* and end the process, although pushes and signals are separate steps.    *)
FrontNeverEmpty == dispatch_pc = "front" => out_queue # <<>>

(* What Pop removes is the meta that Front returned and push_meta sent:    *)
(* dispatch_run does not hold the queue's mutex in between.                *)
PopRemovesPushed ==
  dispatch_pc \in {"leaving", "push", "pop"} =>
    out_queue # <<>> /\ Head(out_queue) = out_meta

(* Nothing is queued behind the dead flag of the dispatch thread, which    *)
(* that thread never removes: such a meta would never be forwarded.        *)
DeadFlagLast ==
  \A i \in DOMAIN out_queue : out_queue[i] = nullptr => i = Len(out_queue)

-------------------------------------------------------------------------------
(* The frames among a sequence of metas: what SelectSeq yields, as a       *)
(* function of the length, which the proofs can unfold.                    *)
Frames(s) ==
  LET upTo[i \in 0..Len(s)] ==
        IF i = 0 THEN <<>>
        ELSE IF s[i] \in Frame THEN Append(upTo[i - 1], s[i]) ELSE upTo[i - 1]
  IN  upTo[Len(s)]

(* What went through out_queue, in order: the forwarded metas and those    *)
(* that wait, the head of the queue being forwarded before it is popped.   *)
OutBacklog == IF dispatch_pc = "pop" THEN Tail(out_queue) ELSE out_queue
Through == pushed \o OutBacklog

===============================================================================
