------------------------------- MODULE Pipeline -------------------------------
(***************************************************************************)
(* A source node and the node that attach_to has put behind it: VpSrcNode  *)
(* composed with an instance of VpNode whose metas are those the source    *)
(* pushes.  Two threads push: the dispatch thread of the source and the    *)
(* owner in speak().  push_meta of vp_meta_publisher.cpp holds             *)
(* subscribers_lock from before the first meta_flow until the last one has *)
(* returned; attach_to and detach need the same lock.                      *)
(*                                                                         *)
(* The nodes hold each other: subscribers of the source keeps the node     *)
(* alive, pre_nodes of the node keeps the source alive.  Either destructor *)
(* therefore runs only when the two are detached.                          *)
(***************************************************************************)
EXTENDS VpSrcNode

VARIABLES
  subscribers_lock,  \* the thread that holds the source's lock, nullptr if none
  mid_alive, mid_out_queue, mid_out_queue_semaphore, mid_dispatch_pc, mid_out_meta,
  mid_pushed, mid_hooked, mid_attached, mid_flow_pc, mid_flow_meta, mid_in_queue,
  mid_in_queue_semaphore, mid_handle_pc, mid_in_meta, mid_frame_meta_batch_cache,
  mid_emitted, mid_owner_pc, mid_arrived

(* Of the next node, everything but whether it is attached.                *)
midInnerVars ==
  <<mid_alive, mid_out_queue, mid_out_queue_semaphore, mid_dispatch_pc, mid_out_meta,
    mid_pushed, mid_hooked, mid_flow_pc, mid_flow_meta, mid_in_queue,
    mid_in_queue_semaphore, mid_handle_pc, mid_in_meta, mid_frame_meta_batch_cache,
    mid_emitted, mid_owner_pc, mid_arrived>>
midVars == <<midInnerVars, mid_attached>>
pipelineVars == <<vars, midVars, subscribers_lock>>

Pushers == {"dispatch", "speak"}

(* subscribers_lock tells its holder from nobody.                          *)
ASSUME PipelineAssumption == nullptr \notin Pushers

(* The node after the source: it handles frame by frame, and sends control *)
(* metas on with pending_meta, returning nullptr.                          *)
Mid == INSTANCE VpNode WITH
  Upstream <- Pushers, frame_meta_handle_batch <- 1, Consumed <- Control, Pended <- Control,
  alive <- mid_alive, out_queue <- mid_out_queue,
  out_queue_semaphore <- mid_out_queue_semaphore, dispatch_pc <- mid_dispatch_pc,
  out_meta <- mid_out_meta, pushed <- mid_pushed, hooked <- mid_hooked,
  attached <- mid_attached, flow_pc <- mid_flow_pc, flow_meta <- mid_flow_meta,
  in_queue <- mid_in_queue, in_queue_semaphore <- mid_in_queue_semaphore,
  handle_pc <- mid_handle_pc, in_meta <- mid_in_meta,
  frame_meta_batch_cache <- mid_frame_meta_batch_cache, emitted <- mid_emitted,
  owner_pc <- mid_owner_pc, arrived <- mid_arrived

-------------------------------------------------------------------------------
(* push_meta.  What a thread pushes: the dispatch thread the meta that     *)
(* Front returned, the owner a control meta that speak() created.          *)

Pushes(t, m) ==
  \/ t = "dispatch" /\ dispatch_pc = "push" /\ m = out_meta
  \/ t = "speak" /\ owner_pc = "live" /\ m \in Control /\ \A i \in DOMAIN pushed : pushed[i] # m

(* push_meta has returned: the thread goes on.                             *)
Pushed(t, m) ==
  \/ /\ t = "dispatch"
     /\ DispatchPush
     /\ UNCHANGED <<alive, sourceVars, inVars, py_call, handleVars, owner_pc>>
  \/ t = "speak" /\ Speak(m)

(* Variant with a bug: push_meta does not lock.                            *)
PushBeginUnlocked(t, m) ==
  /\ Pushes(t, m)
  /\ Mid!MetaFlowPush(t, m)
  /\ UNCHANGED <<vars, subscribers_lock>>

(* Lock, and the first step of meta_flow of the one subscriber.            *)
PushBegin(t, m) ==
  /\ subscribers_lock = nullptr
  /\ Pushes(t, m)
  /\ Mid!MetaFlowPush(t, m)
  /\ subscribers_lock' = t
  /\ UNCHANGED vars

PushHook(t) ==
  /\ Mid!MetaFlowHook(t)
  /\ UNCHANGED <<vars, subscribers_lock>>

(* The last step of meta_flow, and unlock.                                 *)
PushEnd(t) ==
  /\ Mid!MetaFlowSignal(t)
  /\ Pushed(t, mid_flow_meta[t])
  /\ subscribers_lock' = nullptr

(* With no subscriber the meta is gone.                                    *)
PushNobody(t, m) ==
  /\ subscribers_lock = nullptr
  /\ mid_attached = {}
  /\ Pushes(t, m)
  /\ Pushed(t, m)
  /\ UNCHANGED <<midVars, subscribers_lock>>

Push(t) ==
  \/ \E m \in Meta : PushBegin(t, m) \/ PushNobody(t, m)
  \/ PushHook(t)
  \/ PushEnd(t)

-------------------------------------------------------------------------------
(* One thread owns both nodes.  It attaches and detaches the node after    *)
(* the source, with the lock, and does nothing else while it is inside     *)
(* speak() or a destructor.                                                *)

OwnerFree == mid_flow_pc["speak"] = "idle" /\ mid_owner_pc \in {"live", "destroyed"}

SetAttached(s) ==
  /\ mid_attached' = s
  /\ UNCHANGED <<vars, subscribers_lock, midInnerVars>>

AttachMid ==
  /\ OwnerFree
  /\ mid_attached = {}
  /\ owner_pc = "live" /\ mid_owner_pc = "live"
  /\ subscribers_lock = nullptr
  /\ SetAttached(Pushers)

(* Variant with a bug: remove_subscriber does not lock.                    *)
DetachMidUnlocked ==
  /\ mid_attached # {}
  /\ OwnerFree
  /\ SetAttached({})

DetachMid ==
  /\ mid_attached # {}
  /\ OwnerFree
  /\ subscribers_lock = nullptr
  /\ SetAttached({})

(* The rest of what the owner does to the source.  It does not call stop() *)
(* here: a closed gate only delays the handle thread, which is as slow as  *)
(* it likes without (VpSrcNode.tla has it).                                *)
Own ==
  /\ OwnerFree
  /\ \/ Start \/ StartNotify
     \/ mid_attached = {} /\ DestroyClose
     \/ Deinit
  /\ UNCHANGED <<midVars, subscribers_lock>>

-------------------------------------------------------------------------------
(* The threads of the source that do not push, and those of the node.      *)

SrcHandle ==
  (HandleThread \/ HandleWakesSpuriously) /\ UNCHANGED <<midVars, subscribers_lock>>

SrcDispatch ==
  /\ DispatchLoop \/ DispatchWait \/ DispatchFront \/ DispatchLeaving \/ DispatchPop
  /\ UNCHANGED <<alive, sourceVars, inVars, py_call, handleVars, owner_pc, midVars,
                 subscribers_lock>>

MidHandle == Mid!HandleThread /\ UNCHANGED <<vars, subscribers_lock>>
MidDispatch == Mid!Dispatch /\ UNCHANGED <<vars, subscribers_lock>>
MidDestroy ==
  owner_pc \in {"live", "destroyed"} /\ Mid!Destroy /\ UNCHANGED <<vars, subscribers_lock>>
MidDeinit == Mid!Deinit /\ UNCHANGED <<vars, subscribers_lock>>

PipelineInit ==
  /\ Init
  /\ Mid!Init
  /\ subscribers_lock = nullptr

PipelineNext ==
  \/ \E t \in Pushers : Push(t)
  \/ AttachMid \/ DetachMid
  \/ Own
  \/ SrcHandle \/ SrcDispatch
  \/ MidHandle \/ MidDispatch
  \/ MidDestroy \/ MidDeinit

PipelineSpec == PipelineInit /\ [][PipelineNext]_pipelineVars

-------------------------------------------------------------------------------
(* At the node every meta meets the hookers in the order of the ports,     *)
(* although two threads push and meta_flow signals last: under the lock    *)
(* the only signals in flight are for metas whose arriving hooker has run. *)
MidHookOrder == Mid!HookOrder

(* From end to end frames keep the order of the source, and none comes     *)
(* twice, whatever is spoken in between and however often the node is      *)
(* detached and attached again.                                            *)
EndToEndOrder ==
  \A i, j \in DOMAIN Frames(mid_pushed) : i < j => Frames(mid_pushed)[i] < Frames(mid_pushed)[j]

(* detach returns only when no meta_flow of the node is in progress: a     *)
(* node that is being destroyed (vp_node.cpp:15) is not inside meta_flow.  *)
DestroyedUncalled ==
  mid_owner_pc # "live" => \A t \in Pushers : mid_flow_pc[t] = "idle"

===============================================================================
