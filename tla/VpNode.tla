-------------------------------- MODULE VpNode --------------------------------
(***************************************************************************)
(* A vp_node in the middle of a pipeline (nodes/common/src/vp_node.cpp):   *)
(* previous nodes push metas into its in_queue, the handle thread takes    *)
(* them one by one, groups frames into batches and moves every complete    *)
(* batch to the out_queue, the dispatch thread forwards it (NodeDispatch), *)
(* and the owner, once every previous node has let go of it, destroys it.  *)
(*                                                                         *)
(* A previous node is one pusher: it holds its own subscribers_lock for    *)
(* the whole of meta_flow, so its pushes are sequential, while the pushes  *)
(* of different previous nodes interleave.                                 *)
(***************************************************************************)
EXTENDS NodeDispatch

CONSTANTS
  Upstream,                 \* the previous nodes
  frame_meta_handle_batch,  \* vp_node::frame_meta_handle_batch
  Consumed,                 \* controls for which handle_control_meta returns nullptr
  Pended                    \* controls that it sends on itself, with pending_meta

ASSUME VpNodeAssumption ==
  /\ frame_meta_handle_batch \in Nat
  /\ Consumed \subseteq Control
  /\ Pended \subseteq Control
  /\ IsFiniteSet(Upstream)

VARIABLES
  attached,            \* previous nodes that have this node among their subscribers
  flow_pc, flow_meta,  \* per previous node: its position in meta_flow, the meta it pushes
  in_queue,            \* metas waiting for the handle thread
  in_queue_semaphore,  \* its count_
  handle_pc, in_meta,  \* where the handle thread is, the meta it works on
  frame_meta_batch_cache,  \* frames of the batch being collected or moved out
  emitted,             \* how many frames of a complete batch are already in out_queue
  owner_pc,            \* where the destructor is, "live" before it starts
  arrived              \* history: metas pushed to in_queue, in order

flowVars == <<attached, flow_pc, flow_meta>>
inVars == <<in_queue, in_queue_semaphore, arrived>>
handleVars == <<handle_pc, in_meta, frame_meta_batch_cache, emitted>>
outVars == <<out_queue, out_queue_semaphore>>
vars == <<alive, dispatchVars, flowVars, inVars, handleVars, owner_pc>>

SignalIn == in_queue_semaphore' = in_queue_semaphore + 1

WaitIn ==
  /\ in_queue_semaphore > 0
  /\ in_queue_semaphore' = in_queue_semaphore - 1

-------------------------------------------------------------------------------
(* The previous nodes.  attach_to and detach put the node into, and take   *)
(* it out of, the subscribers of one of them under its subscribers_lock,   *)
(* never in the middle of a push of that node.                             *)

Attach(u) ==
  /\ owner_pc = "live"
  /\ u \notin attached
  /\ flow_pc[u] = "idle"
  /\ attached' = attached \cup {u}
  /\ UNCHANGED <<alive, dispatchVars, flow_pc, flow_meta, inVars, handleVars, owner_pc>>

Detach(u) ==
  /\ u \in attached
  /\ flow_pc[u] = "idle"
  /\ attached' = attached \ {u}
  /\ UNCHANGED <<alive, dispatchVars, flow_pc, flow_meta, inVars, handleVars, owner_pc>>

(* meta_flow: push, arriving hooker, signal.  No two pushes carry the same *)
(* meta: the graph upstream of the node is a tree.                         *)
MetaFlowPush(u, m) ==
  /\ u \in attached
  /\ flow_pc[u] = "idle"
  /\ \A i \in DOMAIN arrived : arrived[i] # m
  /\ in_queue' = Append(in_queue, m)
  /\ arrived' = Append(arrived, m)
  /\ flow_meta' = [flow_meta EXCEPT ![u] = m]
  /\ flow_pc' = [flow_pc EXCEPT ![u] = "hook"]
  /\ UNCHANGED <<alive, dispatchVars, attached, in_queue_semaphore, handleVars, owner_pc>>

MetaFlowHook(u) ==
  /\ flow_pc[u] = "hook"
  /\ Hook(Arriving, flow_meta[u])
  /\ flow_pc' = [flow_pc EXCEPT ![u] = "signal"]
  /\ UNCHANGED <<alive, outVars, dispatch_pc, out_meta, pushed, attached, flow_meta,
                 inVars, handleVars, owner_pc>>

MetaFlowSignal(u) ==
  /\ flow_pc[u] = "signal"
  /\ SignalIn
  /\ flow_meta' = [flow_meta EXCEPT ![u] = nullptr]
  /\ flow_pc' = [flow_pc EXCEPT ![u] = "idle"]
  /\ UNCHANGED <<alive, dispatchVars, attached, in_queue, arrived, handleVars, owner_pc>>

-------------------------------------------------------------------------------
(* handle_run.                                                             *)

HandleLoop ==
  /\ handle_pc = "loop"
  /\ handle_pc' = IF alive THEN "wait" ELSE "dead"
  /\ UNCHANGED <<alive, dispatchVars, flowVars, inVars, in_meta, frame_meta_batch_cache,
                 emitted, owner_pc>>

HandleWait ==
  /\ handle_pc = "wait"
  /\ WaitIn
  /\ handle_pc' = "pop"
  /\ UNCHANGED <<alive, dispatchVars, flowVars, in_queue, arrived, in_meta,
                 frame_meta_batch_cache, emitted, owner_pc>>

(* WaitAndPop.  The dead flag sends the thread back to the loop test.      *)
HandlePop ==
  /\ handle_pc = "pop"
  /\ in_queue # <<>>
  /\ in_queue' = Tail(in_queue)
  /\ in_meta' = Head(in_queue)
  /\ handle_pc' = IF Head(in_queue) = nullptr THEN "loop" ELSE "handling"
  /\ UNCHANGED <<alive, dispatchVars, flowVars, in_queue_semaphore, arrived,
                 frame_meta_batch_cache, emitted, owner_pc>>

HandleHandling ==
  /\ handle_pc = "handling"
  /\ Hook(Handling, in_meta)
  /\ handle_pc' = "handle"
  /\ UNCHANGED <<alive, outVars, dispatch_pc, out_meta, pushed, flowVars, inVars, in_meta,
                 frame_meta_batch_cache, emitted, owner_pc>>

(* A control meta: handle_control_meta may call pending_meta, and returns  *)
(* the meta or nullptr.                                                    *)
HandleControl ==
  /\ handle_pc = "handle"
  /\ in_meta \in Control
  /\ handle_pc' = IF in_meta \in Pended THEN "pend" ELSE "returned"
  /\ UNCHANGED <<alive, dispatchVars, flowVars, inVars, in_meta, frame_meta_batch_cache,
                 emitted, owner_pc>>

(* pending_meta: push, handled hooker, signal.                             *)
PendingPush ==
  /\ handle_pc = "pend"
  /\ out_queue' = Append(out_queue, in_meta)
  /\ handle_pc' = "pend_handled"
  /\ UNCHANGED <<alive, out_queue_semaphore, dispatch_pc, out_meta, pushed, hooked, flowVars,
                 inVars, in_meta, frame_meta_batch_cache, emitted, owner_pc>>

PendingHandled ==
  /\ handle_pc = "pend_handled"
  /\ Hook(Handled, in_meta)
  /\ handle_pc' = "pend_signal"
  /\ UNCHANGED <<alive, outVars, dispatch_pc, out_meta, pushed, flowVars, inVars, in_meta,
                 frame_meta_batch_cache, emitted, owner_pc>>

PendingSignal ==
  /\ handle_pc = "pend_signal"
  /\ SignalOut
  /\ handle_pc' = "returned"
  /\ UNCHANGED <<alive, out_queue, dispatch_pc, out_meta, pushed, hooked, flowVars, inVars,
                 in_meta, frame_meta_batch_cache, emitted, owner_pc>>

(* A control meta that is returned goes no further, batch_complete being   *)
(* false; one that is consumed takes the incomplete batch with it.         *)
FinishControl ==
  /\ handle_pc = "returned"
  /\ frame_meta_batch_cache' = IF in_meta \in Consumed THEN <<>> ELSE frame_meta_batch_cache
  /\ in_meta' = nullptr
  /\ handle_pc' = "loop"
  /\ UNCHANGED <<alive, dispatchVars, flowVars, inVars, emitted, owner_pc>>

(* A frame joins the batch; a complete batch is handled and moved out.     *)
HandleFrame ==
  /\ handle_pc = "handle"
  /\ in_meta \in Frame
  /\ frame_meta_batch_cache' = Append(frame_meta_batch_cache, in_meta)
  /\ in_meta' = nullptr
  /\ handle_pc' = IF Len(frame_meta_batch_cache) + 1 >= frame_meta_handle_batch
                  THEN "emit" ELSE "loop"
  /\ UNCHANGED <<alive, dispatchVars, flowVars, inVars, emitted, owner_pc>>

(* One round of the loop over the batch: push, handled hooker, signal.     *)
Current == frame_meta_batch_cache[emitted + 1]

EmitPush ==
  /\ handle_pc = "emit"
  /\ out_queue' = Append(out_queue, Current)
  /\ handle_pc' = "handled"
  /\ UNCHANGED <<alive, out_queue_semaphore, dispatch_pc, out_meta, pushed, hooked, flowVars,
                 inVars, in_meta, frame_meta_batch_cache, emitted, owner_pc>>

(* Variant with a bug: the handled hooker is not invoked.                  *)
EmitHandledSkipped ==
  /\ handle_pc = "handled"
  /\ handle_pc' = "signal"
  /\ UNCHANGED <<alive, dispatchVars, flowVars, inVars, in_meta, frame_meta_batch_cache,
                 emitted, owner_pc>>

EmitHandled ==
  /\ handle_pc = "handled"
  /\ Hook(Handled, Current)
  /\ handle_pc' = "signal"
  /\ UNCHANGED <<alive, outVars, dispatch_pc, out_meta, pushed, flowVars, inVars, in_meta,
                 frame_meta_batch_cache, emitted, owner_pc>>

(* Variants with a bug: the batch is not cleared after it was moved out;   *)
(* the dispatch thread is signalled once for the whole batch.              *)
EmitSignalKeepsBatch ==
  /\ handle_pc = "signal"
  /\ SignalOut
  /\ IF emitted + 1 < Len(frame_meta_batch_cache)
     THEN emitted' = emitted + 1 /\ handle_pc' = "emit"
     ELSE emitted' = 0 /\ handle_pc' = "loop"
  /\ UNCHANGED <<alive, out_queue, dispatch_pc, out_meta, pushed, hooked, flowVars, inVars,
                 in_meta, frame_meta_batch_cache, owner_pc>>

EmitSignalOnce ==
  /\ handle_pc = "signal"
  /\ IF emitted + 1 < Len(frame_meta_batch_cache)
     THEN /\ emitted' = emitted + 1
          /\ handle_pc' = "emit"
          /\ UNCHANGED <<out_queue_semaphore, frame_meta_batch_cache>>
     ELSE /\ SignalOut
          /\ emitted' = 0
          /\ handle_pc' = "loop"
          /\ frame_meta_batch_cache' = <<>>
  /\ UNCHANGED <<alive, out_queue, dispatch_pc, out_meta, pushed, hooked, flowVars, inVars,
                 in_meta, owner_pc>>

EmitSignal ==
  /\ handle_pc = "signal"
  /\ SignalOut
  /\ IF emitted + 1 < Len(frame_meta_batch_cache)
     THEN /\ emitted' = emitted + 1
          /\ handle_pc' = "emit"
          /\ UNCHANGED frame_meta_batch_cache
     ELSE /\ emitted' = 0
          /\ handle_pc' = "loop"
          /\ frame_meta_batch_cache' = <<>>
  /\ UNCHANGED <<alive, out_queue, dispatch_pc, out_meta, pushed, hooked, flowVars, inVars,
                 in_meta, owner_pc>>

(* Variants with a bug: the flag is signalled but not queued; the flag     *)
(* takes the place of everything still in the queue.                       *)
HandleDeadNoPush ==
  /\ handle_pc = "dead"
  /\ handle_pc' = "dead_signal"
  /\ UNCHANGED <<alive, dispatchVars, flowVars, inVars, in_meta, frame_meta_batch_cache,
                 emitted, owner_pc>>

HandleDeadReplaces ==
  /\ handle_pc = "dead"
  /\ out_queue' = <<nullptr>>
  /\ handle_pc' = "dead_signal"
  /\ UNCHANGED <<alive, out_queue_semaphore, dispatch_pc, out_meta, pushed, hooked, flowVars,
                 inVars, in_meta, frame_meta_batch_cache, emitted, owner_pc>>

(* After the loop: the dead flag for the dispatch thread.                  *)
HandleDeadPush ==
  /\ handle_pc = "dead"
  /\ out_queue' = Append(out_queue, nullptr)
  /\ handle_pc' = "dead_signal"
  /\ UNCHANGED <<alive, out_queue_semaphore, dispatch_pc, out_meta, pushed, hooked, flowVars,
                 inVars, in_meta, frame_meta_batch_cache, emitted, owner_pc>>

HandleDeadSignal ==
  /\ handle_pc = "dead_signal"
  /\ SignalOut
  /\ handle_pc' = "exit"
  /\ UNCHANGED <<alive, out_queue, dispatch_pc, out_meta, pushed, hooked, flowVars, inVars,
                 in_meta, frame_meta_batch_cache, emitted, owner_pc>>

HandleThread ==
  \/ HandleLoop \/ HandleWait \/ HandlePop \/ HandleHandling
  \/ HandleControl \/ PendingPush \/ PendingHandled \/ PendingSignal \/ FinishControl
  \/ HandleFrame
  \/ EmitPush \/ EmitHandled \/ EmitSignal
  \/ HandleDeadPush \/ HandleDeadSignal

-------------------------------------------------------------------------------
(* ~vp_node and deinitialized.  A previous node keeps a shared_ptr to the  *)
(* node among its subscribers: the destructor runs when none has it.       *)

(* Variant with a bug: the destructor leaves alive set.                    *)
DestroyAlive ==
  /\ owner_pc = "live"
  /\ attached = {}
  /\ owner_pc' = "push"
  /\ UNCHANGED <<alive, dispatchVars, flowVars, inVars, handleVars>>

Destroy ==
  /\ owner_pc = "live"
  /\ attached = {}
  /\ alive' = FALSE
  /\ owner_pc' = "push"
  /\ UNCHANGED <<dispatchVars, flowVars, inVars, handleVars>>

(* Variants with a bug: the flag is signalled but not queued; the          *)
(* destructor also sends the flag of the dispatch thread itself.           *)
DeinitNoPush ==
  /\ owner_pc = "push"
  /\ owner_pc' = "signal"
  /\ UNCHANGED <<alive, dispatchVars, flowVars, inVars, handleVars>>

DeinitPushBoth ==
  /\ owner_pc = "push"
  /\ in_queue' = Append(in_queue, nullptr)
  /\ out_queue' = Append(out_queue, nullptr)
  /\ out_queue_semaphore' = out_queue_semaphore + 1
  /\ owner_pc' = "signal"
  /\ UNCHANGED <<alive, dispatch_pc, out_meta, pushed, hooked, flowVars, in_queue_semaphore,
                 arrived, handleVars>>

DeinitPush ==
  /\ owner_pc = "push"
  /\ in_queue' = Append(in_queue, nullptr)
  /\ owner_pc' = "signal"
  /\ UNCHANGED <<alive, dispatchVars, flowVars, in_queue_semaphore, arrived, handleVars>>

DeinitSignal ==
  /\ owner_pc = "signal"
  /\ SignalIn
  /\ owner_pc' = "join_handle"
  /\ UNCHANGED <<alive, dispatchVars, flowVars, in_queue, arrived, handleVars>>

JoinHandle ==
  /\ owner_pc = "join_handle"
  /\ handle_pc = "exit"
  /\ owner_pc' = "join_dispatch"
  /\ UNCHANGED <<alive, dispatchVars, flowVars, inVars, handleVars>>

JoinDispatch ==
  /\ owner_pc = "join_dispatch"
  /\ dispatch_pc = "exit"
  /\ owner_pc' = "destroyed"
  /\ UNCHANGED <<alive, dispatchVars, flowVars, inVars, handleVars>>

Deinit == DeinitPush \/ DeinitSignal \/ JoinHandle \/ JoinDispatch

(* The destructor has returned: nothing is left to happen.                 *)
Terminated == owner_pc = "destroyed" /\ UNCHANGED vars

-------------------------------------------------------------------------------
Init ==
  /\ DispatchInit
  /\ attached = {}
  /\ flow_pc = [u \in Upstream |-> "idle"]
  /\ flow_meta = [u \in Upstream |-> nullptr]
  /\ in_queue = <<>>
  /\ in_queue_semaphore = 0
  /\ handle_pc = "loop"
  /\ in_meta = nullptr
  /\ frame_meta_batch_cache = <<>>
  /\ emitted = 0
  /\ owner_pc = "live"
  /\ arrived = <<>>

Dispatch == DispatchThread /\ UNCHANGED <<alive, flowVars, inVars, handleVars, owner_pc>>

Flow(u) == MetaFlowHook(u) \/ MetaFlowSignal(u)

Next ==
  \/ \E u \in Upstream : Attach(u) \/ Detach(u) \/ Flow(u)
  \/ \E u \in Upstream, m \in Meta : MetaFlowPush(u, m)
  \/ HandleThread
  \/ Dispatch
  \/ Destroy
  \/ Deinit
  \/ Terminated

Spec == Init /\ [][Next]_vars

(* The operating system runs every thread that can run.  Nothing makes a   *)
(* previous node send, or the owner let go of the node.                    *)
Fairness ==
  /\ \A u \in Upstream : WF_vars(Flow(u))
  /\ WF_vars(HandleThread)
  /\ WF_vars(Dispatch)
  /\ WF_vars(Deinit)

FairSpec == Spec /\ Fairness

-------------------------------------------------------------------------------
(* Every variable has its type, the queues hold metas and dead flags.      *)
HandlePc == {"loop", "wait", "pop", "handling", "handle", "pend", "pend_handled",
             "pend_signal", "returned", "emit", "handled", "signal",
             "dead", "dead_signal", "exit"}

TypeOK ==
  /\ DispatchTypeOK
  /\ attached \subseteq Upstream
  /\ flow_pc \in [Upstream -> {"idle", "hook", "signal"}]
  /\ flow_meta \in [Upstream -> Meta \cup {nullptr}]
  /\ in_queue \in Seq(Meta \cup {nullptr})
  /\ in_queue_semaphore \in Nat
  /\ handle_pc \in HandlePc
  /\ in_meta \in Meta \cup {nullptr}
  /\ frame_meta_batch_cache \in Seq(Frame)
  /\ emitted \in Nat
  /\ owner_pc \in {"live", "push", "signal", "join_handle", "join_dispatch", "destroyed"}
  /\ arrived \in Seq(Meta)

(* WaitAndPop never blocks once the semaphore was acquired, although       *)
(* several previous nodes push and signal in separate steps.               *)
WaitAndPopNeverBlocks == handle_pc = "pop" => in_queue # <<>>

(* No frame is lost, duplicated or overtaken: the frames that arrived are, *)
(* in this order, the forwarded ones, those in out_queue, those in the     *)
(* batch, the one in hand and those in in_queue.                           *)
BatchBacklog ==
  LET first == IF handle_pc \in {"handled", "signal"} THEN emitted + 2 ELSE emitted + 1
  IN SubSeq(frame_meta_batch_cache, first, Len(frame_meta_batch_cache))

FrameFifo ==
  Frames(arrived) = Frames(Through \o BatchBacklog \o <<in_meta>> \o in_queue)

(* The node implements the channel of FrameChannel.tla.                    *)
Channel == INSTANCE FrameChannel
             WITH accepted <- Frames(arrived), forwarded <- Frames(pushed)

ImplementsChannel == Channel!Spec

(* The hookers of a meta are invoked in the order of the node's four       *)
(* ports, as vp_meta_hookable.h numbers them: a hooker that already ran    *)
(* finds the hookers of the earlier ports done.                            *)
HookOrder == \A m \in Meta : \A p \in hooked[m] : Arriving..p \subseteq hooked[m]

(* The hookers of the handle thread come before that of the dispatch       *)
(* thread for the same meta, whatever the previous nodes do.               *)
LeavingAfterHandled ==
  \A m \in Meta : Leaving \in hooked[m] => {Handling, Handled} \subseteq hooked[m]

(* A control meta that handle_control_meta does not turn into nullptr is   *)
(* sent on: it is in out_queue or already forwarded when its turn is over. *)
ControlForwarded ==
  [][\A m \in Control \ Consumed :
       in_meta = m /\ in_meta' = nullptr =>
         \E i \in DOMAIN (pushed \o out_queue) : (pushed \o out_queue)[i] = m]_vars

(* deinitialized returns: both threads of the node end.                    *)
DeinitReturns == owner_pc = "push" ~> owner_pc = "destroyed"

(* Every frame of a complete batch is eventually forwarded, unless the     *)
(* node is destroyed before.                                               *)
BatchSize == IF frame_meta_handle_batch = 0 THEN 1 ELSE frame_meta_handle_batch

InCompleteBatch(f) ==
  LET frames == Frames(arrived)
  IN \E i \in 1..((Len(frames) \div BatchSize) * BatchSize) : frames[i] = f

CompleteBatchForwarded ==
  \A f \in Frame :
    InCompleteBatch(f) ~> (owner_pc # "live" \/ \E i \in DOMAIN pushed : pushed[i] = f)

===============================================================================
