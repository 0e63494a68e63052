------------------------------- MODULE VpSrcNode -------------------------------
(***************************************************************************)
(* A source node (nodes/common/src/vp_src_node.cpp).  Its handle thread    *)
(* reads frames from the data source while the gate is open, queues each   *)
(* of them, hands it to the Python script and only then signals the        *)
(* dispatch thread (NodeDispatch).  The owner opens and closes the gate,   *)
(* sends control metas past the queue, and finally destroys the node while *)
(* both threads run.                                                       *)
(*                                                                         *)
(* A frame meta is named by the index it was created with, which the       *)
(* script may change later; reading fails at the latest after the last     *)
(* index of Frame, which bounds the model.                                 *)
(***************************************************************************)
EXTENDS NodeDispatch, Integers

CONSTANT MaxFrames  \* bound: how many frames the data source can deliver

ASSUME VpSrcNodeAssumption ==
  /\ MaxFrames \in Nat
  /\ Frame = 0..(MaxFrames - 1)

VARIABLES
  opened,              \* vp_gate::opened_
  is_opened,           \* vp_data_source::is_opened
  frame_index,         \* vp_data_source::frame_index, that of the last frame
  in_queue,            \* nobody takes anything out of a source node's in_queue
  in_queue_semaphore,
  py_call,             \* whether the Python caller exists
  handle_pc, in_meta,  \* where the handle thread is, the frame it works on
  owner_pc,            \* where the destructor is, "live" before it starts
  processed,           \* history: frames that handle_frame_meta has finished with
  last_index           \* history: the last index that stop() allows

sourceVars == <<opened, is_opened, frame_index, last_index>>
inVars == <<in_queue, in_queue_semaphore>>
handleVars == <<handle_pc, in_meta, processed>>
vars == <<alive, dispatchVars, sourceVars, inVars, py_call, handleVars, owner_pc>>

-------------------------------------------------------------------------------
(* handle_run.                                                             *)

(* open() succeeds if the file exists; otherwise the thread returns        *)
(* without a dead flag.                                                    *)
HandleOpen ==
  /\ handle_pc = "open"
  /\ \/ /\ is_opened' = TRUE
        /\ handle_pc' = "loop"
     \/ /\ is_opened' = FALSE
        /\ handle_pc' = "exit"
  /\ UNCHANGED <<alive, dispatchVars, opened, frame_index, last_index, inVars, py_call,
                 in_meta, processed, owner_pc>>

(* The two operands of the loop condition are read one after the other.    *)
HandleLoop ==
  /\ handle_pc = "loop"
  /\ handle_pc' = IF alive THEN "is_open" ELSE "dead"
  /\ UNCHANGED <<alive, dispatchVars, sourceVars, inVars, py_call, in_meta, processed, owner_pc>>

HandleIsOpen ==
  /\ handle_pc = "is_open"
  /\ handle_pc' = IF is_opened THEN "knock" ELSE "dead"
  /\ UNCHANGED <<alive, dispatchVars, sourceVars, inVars, py_call, in_meta, processed, owner_pc>>

(* Variant with a bug: the loop does not wait for the gate.                *)
HandleKnockIgnored ==
  /\ handle_pc = "knock"
  /\ handle_pc' = "knocked"
  /\ UNCHANGED <<alive, dispatchVars, sourceVars, inVars, py_call, in_meta, processed, owner_pc>>

(* vp_gate::knock: with the mutex locked, the thread passes an open gate   *)
(* or falls asleep on the condition variable; it tests again when woken.   *)
HandleKnock ==
  /\ handle_pc = "knock"
  /\ handle_pc' = IF opened THEN "knocked" ELSE "gate_asleep"
  /\ UNCHANGED <<alive, dispatchVars, sourceVars, inVars, py_call, in_meta, processed, owner_pc>>

(* A condition variable may wake a thread for no reason.                   *)
HandleWakesSpuriously ==
  /\ handle_pc = "gate_asleep"
  /\ handle_pc' = "knock"
  /\ UNCHANGED <<alive, dispatchVars, sourceVars, inVars, py_call, in_meta, processed, owner_pc>>

HandleAlive ==
  /\ handle_pc = "knocked"
  /\ handle_pc' = IF alive THEN "read" ELSE "dead"
  /\ UNCHANGED <<alive, dispatchVars, sourceVars, inVars, py_call, in_meta, processed, owner_pc>>

(* get_frame_meta: read() fails on a closed source and when the image      *)
(* cannot be decoded; a frame gets the next index.                         *)
HandleRead ==
  /\ handle_pc = "read"
  /\ \/ /\ is_opened
        /\ frame_index + 1 \in Frame
        /\ frame_index' = frame_index + 1
        /\ in_meta' = frame_index + 1
        /\ handle_pc' = "push"
     \/ /\ handle_pc' = "dead"
        /\ UNCHANGED <<frame_index, in_meta>>
  /\ UNCHANGED <<alive, dispatchVars, opened, is_opened, last_index, inVars, py_call,
                 processed, owner_pc>>

(* Variant with a bug: the dispatch thread is signalled with the push,     *)
(* before the script has run.                                              *)
HandlePushSignals ==
  /\ handle_pc = "push"
  /\ out_queue' = Append(out_queue, in_meta)
  /\ SignalOut
  /\ handle_pc' = "process"
  /\ UNCHANGED <<alive, dispatch_pc, out_meta, pushed, hooked, sourceVars,
                 inVars, py_call, in_meta, processed, owner_pc>>

HandlePush ==
  /\ handle_pc = "push"
  /\ out_queue' = Append(out_queue, in_meta)
  /\ handle_pc' = "process"
  /\ UNCHANGED <<alive, out_queue_semaphore, dispatch_pc, out_meta, pushed, hooked, sourceVars,
                 inVars, py_call, in_meta, processed, owner_pc>>

(* PythonMethod::process with the GIL: the script modifies the frame in    *)
(* place.  None, the frame itself and a Python error all leave the frame   *)
(* as the script left it.                                                  *)
CallScript ==
  /\ py_call
  /\ processed' = processed \cup {in_meta}

(* handle_frame_meta.  A different frame that the script returned would    *)
(* replace a local variable only: in_meta is the one that is in out_queue. *)
HandleProcess ==
  /\ handle_pc = "process"
  /\ CallScript
  /\ handle_pc' = "signal"
  /\ UNCHANGED <<alive, dispatchVars, sourceVars, inVars, py_call, in_meta, owner_pc>>

(* Variant with a bug: the dispatch thread is not signalled.               *)
HandleSignalForgotten ==
  /\ handle_pc = "signal"
  /\ in_meta' = nullptr
  /\ handle_pc' = "loop"
  /\ UNCHANGED <<alive, dispatchVars, sourceVars, inVars, py_call, processed, owner_pc>>

HandleSignal ==
  /\ handle_pc = "signal"
  /\ SignalOut
  /\ in_meta' = nullptr
  /\ handle_pc' = "loop"
  /\ UNCHANGED <<alive, out_queue, dispatch_pc, out_meta, pushed, hooked, sourceVars,
                 inVars, py_call, processed, owner_pc>>

(* After the loop: the dead flag for the dispatch thread.                  *)
HandleDeadPush ==
  /\ handle_pc = "dead"
  /\ out_queue' = Append(out_queue, nullptr)
  /\ handle_pc' = "dead_signal"
  /\ UNCHANGED <<alive, out_queue_semaphore, dispatch_pc, out_meta, pushed, hooked, sourceVars,
                 inVars, py_call, in_meta, processed, owner_pc>>

HandleDeadSignal ==
  /\ handle_pc = "dead_signal"
  /\ SignalOut
  /\ handle_pc' = "exit"
  /\ UNCHANGED <<alive, out_queue, dispatch_pc, out_meta, pushed, hooked, sourceVars,
                 inVars, py_call, in_meta, processed, owner_pc>>

HandleThread ==
  \/ HandleOpen \/ HandleLoop \/ HandleIsOpen \/ HandleKnock \/ HandleAlive
  \/ HandleRead \/ HandlePush \/ HandleProcess \/ HandleSignal
  \/ HandleDeadPush \/ HandleDeadSignal

-------------------------------------------------------------------------------
(* The owner: start, stop and speak, in any order.                         *)

(* Variant with a bug: the gate opens without a notification.              *)
OpenGateSilently(pc, next) ==
  /\ owner_pc = pc
  /\ opened' = TRUE
  /\ owner_pc' = IF next = "start_notify" THEN "live" ELSE "alive"
  /\ UNCHANGED <<alive, dispatchVars, is_opened, frame_index, last_index, inVars, py_call,
                 handleVars>>

(* vp_gate::open opens the gate, releases its mutex, and then notifies.    *)
OpenGate(pc, next) ==
  /\ owner_pc = pc
  /\ opened' = TRUE
  /\ owner_pc' = next
  /\ UNCHANGED <<alive, dispatchVars, is_opened, frame_index, last_index, inVars, py_call,
                 handleVars>>

NotifyGate(pc, next) ==
  /\ owner_pc = pc
  /\ handle_pc' = IF handle_pc = "gate_asleep" THEN "knock" ELSE handle_pc
  /\ owner_pc' = next
  /\ UNCHANGED <<alive, dispatchVars, sourceVars, inVars, py_call, in_meta, processed>>

Start == OpenGate("live", "start_notify")
StartNotify == NotifyGate("start_notify", "live")

(* One frame may be on its way past the gate when it closes.               *)
Stop ==
  /\ owner_pc = "live"
  /\ opened' = FALSE
  /\ last_index' = IF opened THEN frame_index + 1 ELSE last_index
  /\ UNCHANGED <<alive, dispatchVars, is_opened, frame_index, inVars, py_call,
                 handleVars, owner_pc>>

(* Each call creates a new control meta and pushes it from this thread.    *)
Speak(c) ==
  /\ owner_pc = "live"
  /\ \A i \in DOMAIN pushed : pushed[i] # c
  /\ PushMeta(c)
  /\ UNCHANGED <<alive, out_queue, out_queue_semaphore, dispatch_pc, out_meta, hooked,
                 sourceVars, inVars, py_call, handleVars, owner_pc>>

-------------------------------------------------------------------------------
(* ~vp_src_node: close the source, deinitialized() (open the gate, then    *)
(* that of vp_node), drop the Python caller; ~vp_node then runs the base   *)
(* deinitialized() again, which finds nothing left to join.                *)

DestroyClose ==
  /\ owner_pc = "live"
  /\ is_opened' = FALSE
  /\ owner_pc' = "gate"
  /\ UNCHANGED <<alive, dispatchVars, opened, frame_index, last_index, inVars, py_call, handleVars>>

DestroyGate == OpenGate("gate", "gate_notify")
DestroyGateNotify == NotifyGate("gate_notify", "alive")

(* Variant with a bug: deinitialized leaves alive set.                     *)
DeinitAliveForgotten ==
  /\ owner_pc = "alive"
  /\ owner_pc' = "push"
  /\ UNCHANGED <<alive, dispatchVars, sourceVars, inVars, py_call, handleVars>>

DeinitAlive ==
  /\ owner_pc = "alive"
  /\ alive' = FALSE
  /\ owner_pc' = "push"
  /\ UNCHANGED <<dispatchVars, sourceVars, inVars, py_call, handleVars>>

(* The dead flag for a handle thread that waits for in_queue: here it does *)
(* not.  The second round, from ~vp_node, ends the destructor.             *)
DeinitPush ==
  /\ owner_pc \in {"push", "base_push"}
  /\ in_queue' = Append(in_queue, nullptr)
  /\ owner_pc' = IF owner_pc = "push" THEN "signal" ELSE "base_signal"
  /\ UNCHANGED <<alive, dispatchVars, sourceVars, in_queue_semaphore, py_call, handleVars>>

DeinitSignal ==
  /\ owner_pc \in {"signal", "base_signal"}
  /\ in_queue_semaphore' = in_queue_semaphore + 1
  /\ owner_pc' = IF owner_pc = "signal" THEN "join_handle" ELSE "destroyed"
  /\ UNCHANGED <<alive, dispatchVars, sourceVars, in_queue, py_call, handleVars>>

JoinHandle ==
  /\ owner_pc = "join_handle"
  /\ handle_pc = "exit"
  /\ owner_pc' = "join_dispatch"
  /\ UNCHANGED <<alive, dispatchVars, sourceVars, inVars, py_call, handleVars>>

JoinDispatch ==
  /\ owner_pc = "join_dispatch"
  /\ dispatch_pc = "exit"
  /\ owner_pc' = "py"
  /\ UNCHANGED <<alive, dispatchVars, sourceVars, inVars, py_call, handleVars>>

ResetPy ==
  /\ owner_pc = "py"
  /\ py_call' = FALSE
  /\ owner_pc' = "base_push"
  /\ UNCHANGED <<alive, dispatchVars, sourceVars, inVars, handleVars>>

Deinit ==
  \/ DestroyGate \/ DestroyGateNotify \/ DeinitAlive \/ DeinitPush \/ DeinitSignal
  \/ JoinHandle \/ JoinDispatch \/ ResetPy

Terminated == owner_pc = "destroyed" /\ UNCHANGED vars

-------------------------------------------------------------------------------
(* The constructor has returned: both threads exist, the gate is closed.   *)
Init ==
  /\ DispatchInit
  /\ opened = FALSE
  /\ is_opened = FALSE
  /\ frame_index = -1
  /\ in_queue = <<>>
  /\ in_queue_semaphore = 0
  /\ py_call = TRUE
  /\ handle_pc = "open"
  /\ in_meta = nullptr
  /\ owner_pc = "live"
  /\ processed = {}
  /\ last_index = -1

Dispatch ==
  DispatchThread /\ UNCHANGED <<alive, sourceVars, inVars, py_call, handleVars, owner_pc>>

Next ==
  \/ HandleThread
  \/ Dispatch
  \/ HandleWakesSpuriously
  \/ Start
  \/ StartNotify
  \/ Stop
  \/ \E c \in Control : Speak(c)
  \/ DestroyClose
  \/ Deinit
  \/ Terminated

Spec == Init /\ [][Next]_vars

(* The threads run whenever they can, the script returns, and a start() or *)
(* a destructor that began goes on; nothing makes the owner call them, and *)
(* nothing makes a condition variable wake a thread for no reason.         *)
Fairness ==
  /\ WF_vars(HandleThread)
  /\ WF_vars(Dispatch)
  /\ WF_vars(StartNotify)
  /\ WF_vars(Deinit)

FairSpec == Spec /\ Fairness

-------------------------------------------------------------------------------
(* Every variable has its type.                                            *)
TypeOK ==
  /\ DispatchTypeOK
  /\ opened \in BOOLEAN
  /\ is_opened \in BOOLEAN
  /\ frame_index \in -1..(MaxFrames - 1)
  /\ in_queue \in Seq({nullptr})
  /\ in_queue_semaphore \in Nat
  /\ py_call \in BOOLEAN
  /\ handle_pc \in {"open", "loop", "is_open", "knock", "gate_asleep", "knocked", "read", "push",
                    "process", "signal", "dead", "dead_signal", "exit"}
  /\ in_meta \in Frame \cup {nullptr}
  /\ owner_pc \in {"live", "start_notify", "gate", "gate_notify", "alive", "push", "signal",
                   "join_handle", "join_dispatch", "py", "base_push", "base_signal", "destroyed"}
  /\ processed \subseteq Frame
  /\ last_index \in Int

(* The dispatch thread forwards no frame that the script still works on:   *)
(* the frame is queued before handle_frame_meta and signalled after it,    *)
(* and no other signal lets the thread get ahead.                          *)
ProcessedBeforeLeaving ==
  dispatch_pc \in {"leaving", "push", "pop"} /\ out_meta \in Frame => out_meta \in processed

(* Frames are forwarded in the order of their indexes, without gaps,       *)
(* whatever the owner sends past the queue with speak().                   *)
SourceOrder ==
  \A i \in DOMAIN Frames(pushed) : Frames(pushed)[i] = i - 1

(* After stop() at most the one frame already past the gate is read, until *)
(* start() is called; before the first start() there is none.              *)
StopTakesEffect == ~opened => frame_index <= last_index

(* The Python caller outlives the handle thread, its only user             *)
(* (vp_src_node.cpp:24 drops it after the join).                           *)
PyCallOutlivesThread == handle_pc # "exit" => py_call

(* The handle thread never sleeps at an open gate, unless the thread that  *)
(* opened it is about to wake it.                                          *)
GateNoLostWakeup ==
  opened /\ handle_pc = "gate_asleep" => owner_pc \in {"start_notify", "gate_notify"}

(* A frame that was read is forwarded, even when the next read fails and   *)
(* ends the handle thread, unless the node is being destroyed.             *)
FrameForwarded ==
  \A f \in Frame :
    frame_index >= f ~> (owner_pc \notin {"live", "start_notify"} \/ \E i \in DOMAIN pushed : pushed[i] = f)

(* The destructor returns if alive is cleared while the handle thread is   *)
(* still in its loop: the dead flag then finds the dispatch thread ready   *)
(* to leave.                                                               *)
DestructorReturnsInTime ==
  (owner_pc = "push" /\ handle_pc \notin {"open", "exit"}) ~> owner_pc = "destroyed"

(* vp_node.cpp:184, "wait for threads exits in vp_node": the destructor    *)
(* ends both threads and returns, wherever the handle thread is.           *)
DestructorReturns == owner_pc = "gate" ~> owner_pc = "destroyed"

===============================================================================
