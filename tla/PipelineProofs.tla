---------------------------- MODULE PipelineProofs ----------------------------
(***************************************************************************)
(* Theorems about VpSrcNode and about Pipeline, which puts a node behind   *)
(* it, for every number of frames and every set of control metas.          *)
(*                                                                         *)
(* The argument for the source alone is that of VpNodeProofs: what the     *)
(* handle thread queued and has not signalled is out of the dispatch       *)
(* thread's reach, so that the script may go on working on a frame that is *)
(* already in out_queue.                                                   *)
(*                                                                         *)
(* The composition adds nothing to what its two nodes do: a step of it is  *)
(* a step of the source or none, and one of the next node or a change of   *)
(* who is attached.  So the theorems about the nodes hold here, and their  *)
(* inductive invariants are used again.  What is left to show is about the *)
(* calls between them: who holds subscribers_lock, and what it is pushing. *)
(***************************************************************************)
EXTENDS Pipeline, NodeDispatchProofs, FiniteSetTheorems

-------------------------------------------------------------------------------
(* The source node.                                                        *)

(* Metas in out_queue that the handle thread has still to signal.          *)
Unsignalled == IF handle_pc \in {"process", "signal", "dead_signal"} THEN 1 ELSE 0

InHand == handle_pc \in {"push", "process"} => in_meta \in Frame

(* The frame the script works on is the last one in the queue.             *)
LastQueued == handle_pc = "process" => out_queue # <<>> /\ out_queue[Len(out_queue)] = in_meta

QueueProcessed ==
  \A i \in DOMAIN out_queue :
    out_queue[i] \in Frame /\ (handle_pc = "process" => i < Len(out_queue))
      => out_queue[i] \in processed

(* The frame that is past the gate may still be read when the gate closes. *)
PastGate == ~opened /\ handle_pc \in {"knocked", "read"} => frame_index < last_index

(* The Python caller is dropped after the handle thread was joined.        *)
Joined ==
  /\ owner_pc \in {"join_dispatch", "py", "base_push", "base_signal", "destroyed"}
       => handle_pc = "exit"
  /\ ~py_call => owner_pc \in {"base_push", "base_signal", "destroyed"}

(* The frames that went through out_queue are those that were read, but    *)
(* for the one that the handle thread is about to queue.                   *)
Queued == IF handle_pc = "push" THEN frame_index ELSE frame_index + 1

AllQueued ==
  /\ handle_pc = "push" => in_meta = frame_index
  /\ Frames(Through) = [i \in 1..Queued |-> i - 1]

(* The inductive invariant, and those that rest on it.                     *)
IInv == TypeOK /\ DispatchInv(Unsignalled) /\ InHand
QueueInv == LastQueued /\ QueueProcessed
GateInv == PastGate /\ StopTakesEffect

-------------------------------------------------------------------------------
(* What a step of another thread than the dispatch thread may do to the    *)
(* dispatch half.                                                          *)
LEMMA DispatchKept ==
  ASSUME DispatchInv(Unsignalled), alive' \in BOOLEAN, UNCHANGED dispatchVars,
         Unsignalled' = Unsignalled
  PROVE  DispatchInv(Unsignalled)'
<1>1. CASE Unsignalled = 0
  <2>1. DispatchInv(0)'
    BY <1>1, UnchangedInv
  <2> QED BY <1>1, <2>1
<1>2. CASE Unsignalled = 1
  <2>1. DispatchInv(1)'
    BY <1>2, UnchangedInv
  <2> QED BY <1>2, <2>1
<1> QED BY <1>1, <1>2 DEF Unsignalled

LEMMA PushKept ==
  ASSUME DispatchInv(Unsignalled), Unsignalled = 0, Unsignalled' = 1,
         NEW m \in Meta \cup {nullptr}, out_queue' = Append(out_queue, m),
         UNCHANGED <<alive, out_queue_semaphore, dispatch_pc, out_meta, pushed, hooked>>
  PROVE  DispatchInv(Unsignalled)'
<1>1. DispatchInv(0 + 1)'
  BY PushOutInv
<1> QED BY <1>1

LEMMA SignalKept ==
  ASSUME DispatchInv(Unsignalled), Unsignalled = 1, Unsignalled' = 0, SignalOut,
         UNCHANGED <<alive, out_queue, dispatch_pc, out_meta, pushed, hooked>>
  PROVE  DispatchInv(Unsignalled)'
<1>1. DispatchInv(0 + 1)
  OBVIOUS
<1>2. DispatchInv(0)'
  BY <1>1, SignalOutInv
<1> QED BY <1>2

(* The handle thread.                                                      *)
LEMMA HandleIInv == ASSUME IInv, HandleThread \/ HandleWakesSpuriously PROVE IInv'
<1> USE MetaAssumption, VpSrcNodeAssumption DEF IInv
<1>0. alive' = alive /\ alive \in BOOLEAN
  BY DEF HandleThread, HandleOpen, HandleLoop, HandleIsOpen, HandleKnock, HandleAlive, HandleRead,
         HandlePush, HandleProcess, HandleSignal, HandleDeadPush, HandleDeadSignal, TypeOK,
         HandleWakesSpuriously, DispatchTypeOK
<1>1. CASE \/ HandleOpen \/ HandleLoop \/ HandleIsOpen \/ HandleKnock \/ HandleAlive
           \/ HandleWakesSpuriously
  <2> USE <1>1 DEF HandleOpen, HandleLoop, HandleIsOpen, HandleKnock, HandleAlive,
                   HandleWakesSpuriously
  <2>1. DispatchInv(Unsignalled)'
    <3>1. UNCHANGED dispatchVars /\ Unsignalled' = Unsignalled
      BY DEF Unsignalled
    <3> QED BY <1>0, <3>1, DispatchKept
  <2>2. TypeOK'
    <3>1. UNCHANGED <<opened, frame_index, last_index, inVars, py_call, in_meta, processed, owner_pc>>
      BY DEF sourceVars
    <3>2. is_opened' \in BOOLEAN
      BY DEF TypeOK, sourceVars
    <3>3. handle_pc' \in {"loop", "exit", "is_open", "dead", "knock", "knocked", "gate_asleep", "read"}
      OBVIOUS
    <3> QED BY <2>1, <3>1, <3>2, <3>3 DEF TypeOK, DispatchInv, inVars
  <2>3. InHand'
    BY DEF InHand
  <2> QED BY <2>1, <2>2, <2>3
<1>2. CASE HandleRead
  <2> USE <1>2 DEF HandleRead
  <2>1. DispatchInv(Unsignalled)'
    BY <1>0, DispatchKept DEF Unsignalled
  <2> QED BY <2>1 DEF TypeOK, DispatchInv, InHand, inVars
<1>3. CASE HandlePush
  <2> USE <1>3 DEF HandlePush
  <2>1. DispatchInv(Unsignalled)'
    BY PushKept DEF Unsignalled, InHand, Meta
  <2> QED BY <2>1 DEF TypeOK, DispatchInv, InHand, sourceVars, inVars
<1>4. CASE HandleProcess
  <2> USE <1>4 DEF HandleProcess, CallScript
  <2>1. DispatchInv(Unsignalled)'
    BY <1>0, DispatchKept DEF Unsignalled
  <2> QED BY <2>1 DEF TypeOK, DispatchInv, InHand, sourceVars, inVars
<1>5. CASE HandleSignal \/ HandleDeadSignal
  <2> USE <1>5 DEF HandleSignal, HandleDeadSignal
  <2>1. DispatchInv(Unsignalled)'
    BY SignalKept DEF Unsignalled
  <2> QED BY <2>1 DEF TypeOK, DispatchInv, InHand, sourceVars, inVars
<1>6. CASE HandleDeadPush
  <2> USE <1>6 DEF HandleDeadPush
  <2>1. DispatchInv(Unsignalled)'
    BY PushKept DEF Unsignalled
  <2> QED BY <2>1 DEF TypeOK, DispatchInv, InHand, sourceVars, inVars
<1> QED BY <1>1, <1>2, <1>3, <1>4, <1>5, <1>6 DEF HandleThread

(* The dispatch thread.                                                    *)
LEMMA DispatchIInv == ASSUME IInv, Dispatch PROVE IInv'
<1>1. /\ DispatchThread
      /\ UNCHANGED <<alive, sourceVars, inVars, py_call, handleVars, owner_pc>>
  BY DEF Dispatch
<1>2. Unsignalled \in {0, 1} /\ Unsignalled' = Unsignalled
  BY <1>1 DEF Unsignalled, handleVars
<1>3. DispatchInv(Unsignalled)'
  <2>1. CASE Unsignalled = 0
    <3>1. DispatchInv(0)'
      BY <1>1, <2>1, DispatchThreadInv DEF IInv
    <3> QED BY <1>2, <2>1, <3>1
  <2>2. CASE Unsignalled = 1
    <3>1. DispatchInv(1)'
      BY <1>1, <2>2, DispatchThreadInv DEF IInv
    <3> QED BY <1>2, <2>2, <3>1
  <2> QED BY <1>2, <2>1, <2>2
<1> QED BY <1>1, <1>3 DEF IInv, TypeOK, InHand, DispatchInv, sourceVars, inVars, handleVars

(* The owner.  speak() sends a meta past out_queue.                        *)
LEMMA OwnerIInv ==
  ASSUME IInv,
         \/ Start \/ StartNotify \/ Stop \/ (\E c \in Control : Speak(c))
         \/ DestroyClose \/ Deinit
  PROVE  IInv'
<1> USE VpSrcNodeAssumption DEF IInv
<1>1. ASSUME NEW c \in Control, Speak(c)
      PROVE  IInv'
  <2>1. Unsignalled' = Unsignalled /\ pushed' \in Seq(Meta)
    BY <1>1 DEF Speak, PushMeta, handleVars, Unsignalled, TypeOK, DispatchTypeOK, Meta
  <2>2. DispatchInv(Unsignalled)'
    BY <1>1, <2>1
    DEF Speak, DispatchInv, DispatchTypeOK, HoldsMeta, PopRemovesPushed, Covered, DispatchHolds
  <2> QED BY <1>1, <2>2 DEF Speak, TypeOK, DispatchInv, InHand, sourceVars, inVars, handleVars
<1>2. CASE Start \/ Stop \/ DestroyClose \/ (Deinit /\ ~DestroyGateNotify)
  <2>1. alive' \in BOOLEAN /\ UNCHANGED <<dispatchVars, handleVars>>
    BY <1>2
    DEF Start, Stop, DestroyClose, Deinit, DestroyGate, OpenGate, DeinitAlive, DeinitPush,
        DeinitSignal, JoinHandle, JoinDispatch, ResetPy, TypeOK, DispatchTypeOK
  <2>2. DispatchInv(Unsignalled)'
    BY <2>1, DispatchKept DEF Unsignalled, handleVars
  <2>3. InHand'
    BY <2>1 DEF InHand, handleVars
  <2>4. CASE Start \/ Stop \/ DestroyClose \/ DestroyGate \/ DeinitAlive \/ DeinitSignal
    <3> USE <2>4 DEF Start, Stop, DestroyClose, DestroyGate, OpenGate, DeinitAlive, DeinitSignal
    <3>1. opened' \in BOOLEAN /\ is_opened' \in BOOLEAN /\ py_call' \in BOOLEAN
      BY DEF TypeOK, sourceVars
    <3>2. frame_index' = frame_index /\ last_index' \in Int
      BY DEF TypeOK, sourceVars
    <3>3. in_queue' = in_queue /\ in_queue_semaphore' \in Nat
      BY DEF TypeOK, inVars
    <3> QED BY <2>1, <2>2, <2>3, <3>1, <3>2, <3>3 DEF TypeOK, DispatchInv, handleVars
  <2>5. CASE DeinitPush
    <3>1. in_queue' \in Seq({nullptr})
      BY <2>5 DEF DeinitPush, TypeOK
    <3>2. /\ UNCHANGED <<sourceVars, handleVars, in_queue_semaphore, py_call>>
          /\ owner_pc' \in {"signal", "base_signal"}
      BY <2>5 DEF DeinitPush
    <3>3. DispatchTypeOK' /\ TypeOK
      BY <2>2 DEF DispatchInv
    <3>4. TypeOK'
      BY <3>1, <3>2, <3>3 DEF TypeOK, sourceVars, handleVars
    <3> QED BY <2>2, <2>3, <3>4
  <2>6. CASE JoinHandle \/ JoinDispatch \/ ResetPy
    BY <2>1, <2>2, <2>3, <2>6
    DEF JoinHandle, JoinDispatch, ResetPy, TypeOK, DispatchInv, sourceVars, inVars, handleVars
  <2> QED BY <1>2, <2>4, <2>5, <2>6 DEF Deinit
<1>3. CASE StartNotify \/ DestroyGateNotify
  <2> USE <1>3 DEF StartNotify, DestroyGateNotify, NotifyGate
  <2>1. DispatchInv(Unsignalled)'
    BY DispatchKept DEF Unsignalled, TypeOK, DispatchTypeOK
  <2> QED BY <2>1 DEF TypeOK, DispatchInv, InHand, sourceVars, inVars
<1> QED BY <1>1, <1>2, <1>3

(* The invariant holds throughout: neither the script nor the owner breaks *)
(* the counting that the two threads rely on.                              *)
THEOREM Inductive == Spec => []IInv
<1>1. Init => IInv
  <2> SUFFICES ASSUME Init PROVE IInv
    OBVIOUS
  <2>1. DispatchInv(0) /\ Unsignalled = 0
    BY DispatchInitInv DEF Init, Unsignalled
  <2>2. frame_index \in -1..(MaxFrames - 1) /\ last_index \in Int
    BY VpSrcNodeAssumption DEF Init
  <2>3. in_queue \in Seq({nullptr}) /\ in_queue_semaphore \in Nat
    BY DEF Init
  <2>4. opened \in BOOLEAN /\ is_opened \in BOOLEAN /\ py_call \in BOOLEAN
    BY DEF Init
  <2> QED BY <2>1, <2>2, <2>3, <2>4 DEF Init, IInv, TypeOK, DispatchInv, InHand
<1>2. IInv /\ [Next]_vars => IInv'
  <2> SUFFICES ASSUME IInv, [Next]_vars PROVE IInv'
    OBVIOUS
  <2>1. CASE UNCHANGED vars \/ Terminated
    <3>1. UNCHANGED vars
      BY <2>1 DEF Terminated
    <3>2. DispatchInv(Unsignalled)'
      BY <3>1, DispatchKept DEF IInv, vars, handleVars, Unsignalled, TypeOK, DispatchTypeOK
    <3> QED BY <3>1, <3>2
            DEF IInv, vars, sourceVars, inVars, handleVars, TypeOK, InHand, DispatchInv
  <2> QED BY <2>1, HandleIInv, DispatchIInv, OwnerIInv DEF Next
<1> QED BY <1>1, <1>2, PTL DEF Spec

(* Every variable of a source node keeps its type.                         *)
THEOREM TypeCorrect == Spec => []TypeOK
<1>1. IInv => TypeOK
  BY DEF IInv
<1> QED BY <1>1, Inductive, PTL

(* dispatch_run never calls Front on an empty queue, whatever the script,  *)
(* the owner and the end of the source do.                                 *)
THEOREM FrontIsSafe == Spec => []FrontNeverEmpty
<1>1. IInv => FrontNeverEmpty
  <2> SUFFICES ASSUME IInv PROVE FrontNeverEmpty
    OBVIOUS
  <2>1. Len(out_queue) >= out_queue_semaphore + DispatchHolds + Unsignalled
    BY DEF IInv, DispatchInv, Covered
  <2> QED BY <2>1
          DEF IInv, TypeOK, DispatchTypeOK, DispatchHolds, Unsignalled, FrontNeverEmpty
<1> QED BY <1>1, Inductive, PTL

(* The element that dispatch_run pops is the one it forwarded.             *)
THEOREM PopIsSafe == Spec => []PopRemovesPushed
<1>1. IInv => PopRemovesPushed
  BY DEF IInv, DispatchInv
<1> QED BY <1>1, Inductive, PTL

-------------------------------------------------------------------------------
(* The head of the queue is not the frame that the script works on.        *)
LEMMA HeadIsProcessed ==
  ASSUME IInv, QueueInv, dispatch_pc \in {"leaving", "push", "pop"}, out_meta \in Frame
  PROVE  out_meta \in processed
<1>1. out_queue \in Seq(Meta \cup {nullptr}) /\ out_queue # <<>> /\ Head(out_queue) = out_meta
  BY DEF IInv, TypeOK, DispatchTypeOK, DispatchInv, PopRemovesPushed
<1>2. 1 \in DOMAIN out_queue /\ out_queue[1] = out_meta
  BY <1>1
<1>3. ASSUME handle_pc = "process"
      PROVE  Len(out_queue) >= 2
  BY <1>3 DEF IInv, TypeOK, DispatchTypeOK, DispatchInv, Covered, DispatchHolds, Unsignalled
<1>4. handle_pc = "process" => 1 < Len(out_queue)
  BY <1>1, <1>3
<1> QED BY <1>2, <1>4 DEF QueueInv, QueueProcessed

LEMMA QueueInvStep == ASSUME IInv, QueueInv, [Next]_vars PROVE QueueInv'
<1> USE MetaAssumption DEF QueueInv, LastQueued, QueueProcessed
<1>0. out_queue \in Seq(Meta \cup {nullptr}) /\ nullptr \notin Frame
  BY DEF IInv, TypeOK, DispatchTypeOK, Meta
<1>1. CASE HandleThread
  <2>1. CASE HandlePush
    <3>1. /\ Len(out_queue') = Len(out_queue) + 1
          /\ DOMAIN out_queue = 1..Len(out_queue)
          /\ DOMAIN out_queue' = 1..Len(out_queue')
          /\ \A i \in DOMAIN out_queue : out_queue'[i] = out_queue[i]
          /\ out_queue'[Len(out_queue')] = in_meta
          /\ out_queue' # <<>>
      BY <1>0, <2>1 DEF HandlePush, IInv, InHand, Meta
    <3> QED BY <1>0, <2>1, <3>1 DEF HandlePush
  <2>2. CASE HandleProcess
    BY <1>0, <2>2 DEF HandleProcess, CallScript, dispatchVars
  <2>3. CASE HandleDeadPush
    <3>1. /\ Len(out_queue') = Len(out_queue) + 1
          /\ DOMAIN out_queue = 1..Len(out_queue)
          /\ DOMAIN out_queue' = 1..Len(out_queue')
          /\ \A i \in DOMAIN out_queue : out_queue'[i] = out_queue[i]
          /\ out_queue'[Len(out_queue')] = nullptr
      BY <1>0, <2>3 DEF HandleDeadPush
    <3> QED BY <1>0, <2>3, <3>1 DEF HandleDeadPush
  <2>4. CASE \/ HandleOpen \/ HandleLoop \/ HandleIsOpen \/ HandleKnock \/ HandleAlive
             \/ HandleRead \/ HandleSignal \/ HandleDeadSignal
    <3>1. UNCHANGED <<out_queue, processed>> /\ handle_pc # "process" /\ handle_pc' # "process"
      BY <2>4
      DEF HandleOpen, HandleLoop, HandleIsOpen, HandleKnock, HandleAlive, HandleRead,
          HandleSignal, HandleDeadSignal, dispatchVars
    <3> QED BY <3>1
  <2> QED BY <1>1, <2>1, <2>2, <2>3, <2>4 DEF HandleThread
<1>2. CASE Dispatch /\ DispatchPop
  <2>1. out_queue # <<>> /\ out_queue' = Tail(out_queue) /\ UNCHANGED handleVars
    BY <1>2 DEF Dispatch, DispatchPop, IInv, DispatchInv, PopRemovesPushed
  <2>2. /\ Len(out_queue') = Len(out_queue) - 1
        /\ DOMAIN out_queue = 1..Len(out_queue)
        /\ DOMAIN out_queue' = 1..Len(out_queue')
        /\ \A i \in DOMAIN out_queue' : out_queue'[i] = out_queue[i + 1]
    BY <1>0, <2>1
  <2>3. handle_pc = "process" => Len(out_queue) >= 2
    BY <1>2
    DEF DispatchPop, IInv, TypeOK, DispatchTypeOK, DispatchInv, Covered, DispatchHolds, Unsignalled
  <2>4. LastQueued'
    BY <1>0, <2>1, <2>2, <2>3 DEF handleVars
  <2>5. QueueProcessed'
    BY <1>0, <2>1, <2>2 DEF handleVars
  <2> QED BY <2>4, <2>5
<1>3. CASE \/ UNCHANGED vars \/ Terminated
           \/ Dispatch /\ ~DispatchPop
           \/ Start \/ Stop \/ (\E c \in Control : Speak(c)) \/ DestroyClose
           \/ Deinit /\ ~DestroyGateNotify
  <2>1. UNCHANGED <<out_queue, handle_pc, in_meta, processed>>
    BY <1>3
    DEF Terminated, vars, Dispatch, DispatchThread, DispatchLoop, DispatchWait, DispatchFront,
        DispatchLeaving, DispatchPush, Start, Stop, Speak, DestroyClose, Deinit, DestroyGate,
        OpenGate, DeinitAlive, DeinitPush, DeinitSignal, JoinHandle, JoinDispatch, ResetPy, dispatchVars,
        handleVars
  <2> QED BY <2>1
<1>4. CASE HandleWakesSpuriously \/ StartNotify \/ DestroyGateNotify
  <2>1. /\ UNCHANGED <<out_queue, in_meta, processed>>
        /\ handle_pc' = "process" <=> handle_pc = "process"
    BY <1>4
    DEF HandleWakesSpuriously, StartNotify, DestroyGateNotify, NotifyGate, dispatchVars
  <2> QED BY <2>1
<1> QED BY <1>1, <1>2, <1>3, <1>4 DEF Next

(* A frame leaves the node only after the Python script has finished with  *)
(* it, although it is in out_queue from before the script starts.          *)
THEOREM ProcessedFirst == Spec => []ProcessedBeforeLeaving
<1>1. Init => QueueInv
  BY DEF Init, DispatchInit, QueueInv, LastQueued, QueueProcessed
<1>2. IInv /\ QueueInv /\ [Next]_vars => QueueInv'
  BY QueueInvStep
<1>3. IInv /\ QueueInv => ProcessedBeforeLeaving
  BY HeadIsProcessed DEF ProcessedBeforeLeaving
<1> QED BY <1>1, <1>2, <1>3, Inductive, PTL DEF Spec

-------------------------------------------------------------------------------
(* Once the handle thread has queued the dead flag, or has ended without   *)
(* one because the source could not be opened, it queues nothing more.     *)
Flagged == handle_pc \in {"dead_signal", "exit"}

NoFlagYet == ~Flagged => \A i \in DOMAIN out_queue : out_queue[i] # nullptr

FlagInv == NoFlagYet /\ DeadFlagLast

LEMMA OutQueueSteps ==
  ASSUME IInv, [Next]_vars
  PROVE  \/ out_queue' = out_queue /\ (Flagged => Flagged')
         \/ out_queue # <<>> /\ out_queue' = Tail(out_queue) /\ Flagged' = Flagged
         \/ \E m \in Meta : out_queue' = Append(out_queue, m) /\ ~Flagged /\ ~Flagged'
         \/ out_queue' = Append(out_queue, nullptr) /\ ~Flagged /\ Flagged'
<1> USE DEF Flagged
<1>1. CASE HandlePush
  <2>1. in_meta \in Meta
    BY <1>1 DEF HandlePush, IInv, InHand, Meta
  <2> QED BY <1>1, <2>1 DEF HandlePush
<1>2. CASE HandleDeadPush
  BY <1>2 DEF HandleDeadPush
<1>3. CASE \/ HandleOpen \/ HandleLoop \/ HandleIsOpen \/ HandleKnock \/ HandleAlive
           \/ HandleRead \/ HandleProcess \/ HandleSignal \/ HandleDeadSignal
           \/ HandleWakesSpuriously
  BY <1>3
  DEF HandleOpen, HandleLoop, HandleIsOpen, HandleKnock, HandleAlive, HandleRead, HandleProcess,
      HandleSignal, HandleDeadSignal, HandleWakesSpuriously, dispatchVars
<1>4. CASE Dispatch
  BY <1>4
  DEF Dispatch, DispatchThread, DispatchLoop, DispatchWait, DispatchFront, DispatchLeaving,
      DispatchPush, DispatchPop, handleVars
<1>5. CASE \/ Start \/ StartNotify \/ Stop \/ (\E c \in Control : Speak(c))
           \/ DestroyClose \/ Deinit \/ Terminated \/ UNCHANGED vars
  BY <1>5
  DEF Start, StartNotify, OpenGate, NotifyGate, Stop, Speak, DestroyClose, Deinit, DestroyGate,
      DestroyGateNotify, DeinitAlive, DeinitPush, DeinitSignal, JoinHandle, JoinDispatch, ResetPy,
      Terminated, vars, dispatchVars, handleVars
<1> QED BY <1>1, <1>2, <1>3, <1>4, <1>5 DEF Next, HandleThread

(* No frame is queued behind the dead flag of a source node.               *)
THEOREM DeadFlagIsLast == Spec => []DeadFlagLast
<1>1. Init => FlagInv
  BY DEF Init, DispatchInit, FlagInv, NoFlagYet, DeadFlagLast
<1>2. IInv /\ FlagInv /\ [Next]_vars => FlagInv'
  <2> SUFFICES ASSUME IInv, FlagInv, [Next]_vars PROVE FlagInv'
    OBVIOUS
  <2> USE DEF FlagInv, NoFlagYet, DeadFlagLast
  <2>0. out_queue \in Seq(Meta \cup {nullptr})
    BY DEF IInv, TypeOK, DispatchTypeOK
  <2>1. CASE out_queue' = out_queue /\ (Flagged => Flagged')
    BY <2>1
  <2>2. CASE out_queue # <<>> /\ out_queue' = Tail(out_queue) /\ Flagged' = Flagged
    <3>1. /\ Len(out_queue') = Len(out_queue) - 1
          /\ DOMAIN out_queue = 1..Len(out_queue)
          /\ DOMAIN out_queue' = 1..Len(out_queue')
          /\ \A i \in DOMAIN out_queue' : out_queue'[i] = out_queue[i + 1]
      BY <2>0, <2>2
    <3> QED BY <2>0, <2>2, <3>1
  <2>3. ASSUME NEW m \in Meta \cup {nullptr}, out_queue' = Append(out_queue, m), ~Flagged,
               m = nullptr <=> Flagged'
        PROVE  FlagInv'
    <3>1. /\ Len(out_queue') = Len(out_queue) + 1
          /\ DOMAIN out_queue = 1..Len(out_queue)
          /\ DOMAIN out_queue' = 1..Len(out_queue')
          /\ \A i \in DOMAIN out_queue : out_queue'[i] = out_queue[i]
          /\ out_queue'[Len(out_queue')] = m
      BY <2>0, <2>3
    <3> QED BY <2>0, <2>3, <3>1
  <2> QED BY <2>1, <2>2, <2>3, OutQueueSteps, MetaAssumption
<1>3. FlagInv => DeadFlagLast
  BY DEF FlagInv
<1> QED BY <1>1, <1>2, <1>3, Inductive, PTL DEF Spec

-------------------------------------------------------------------------------
(* stop() stops the source: the frame past the gate is the only one that   *)
(* is still read while the gate stays closed.                              *)
THEOREM StopIsHonoured == Spec => []StopTakesEffect
<1>1. Init => GateInv
  BY DEF Init, GateInv, PastGate, StopTakesEffect
<1>2. IInv /\ GateInv /\ [Next]_vars => GateInv'
  <2> SUFFICES ASSUME IInv, GateInv, [Next]_vars PROVE GateInv'
    OBVIOUS
  <2>0. frame_index \in Int /\ last_index \in Int
    BY VpSrcNodeAssumption DEF IInv, TypeOK
  <2> USE DEF GateInv, PastGate, StopTakesEffect
  <2>1. CASE HandleRead
    BY <2>0, <2>1 DEF HandleRead
  <2>2. CASE HandleKnock
    BY <2>0, <2>2 DEF HandleKnock, sourceVars
  <2>3. CASE \/ HandleOpen \/ HandleLoop \/ HandleIsOpen \/ HandleAlive \/ HandlePush
             \/ HandleProcess \/ HandleSignal \/ HandleDeadPush \/ HandleDeadSignal
             \/ HandleWakesSpuriously
    BY <2>0, <2>3
    DEF HandleOpen, HandleLoop, HandleIsOpen, HandleAlive, HandlePush, HandleProcess,
        HandleSignal, HandleDeadPush, HandleDeadSignal, HandleWakesSpuriously, sourceVars
  <2>4. CASE Stop
    BY <2>0, <2>4 DEF Stop, handleVars
  <2>5. CASE Start \/ DestroyGate
    BY <2>5 DEF Start, DestroyGate, OpenGate
  <2>6. CASE \/ UNCHANGED vars \/ Terminated \/ Dispatch \/ (\E c \in Control : Speak(c))
             \/ DestroyClose \/ DeinitAlive \/ DeinitPush \/ DeinitSignal \/ JoinHandle
             \/ JoinDispatch \/ ResetPy
    <3>1. UNCHANGED <<opened, frame_index, last_index, handle_pc>>
      BY <2>6
      DEF Terminated, vars, Dispatch, Speak, DestroyClose, DeinitAlive, DeinitPush, DeinitSignal,
          JoinHandle, JoinDispatch, ResetPy, sourceVars, handleVars
    <3> QED BY <3>1
  <2>7. CASE StartNotify \/ DestroyGateNotify
    BY <2>0, <2>7 DEF StartNotify, DestroyGateNotify, NotifyGate, sourceVars
  <2> QED BY <2>1, <2>2, <2>3, <2>4, <2>5, <2>6, <2>7 DEF Next, HandleThread, Deinit
<1>3. GateInv => StopTakesEffect
  BY DEF GateInv
<1> QED BY <1>1, <1>2, <1>3, Inductive, PTL DEF Spec

(* The destructor drops the Python caller only after the handle thread,    *)
(* which calls it, has ended.                                              *)
THEOREM PyCallIsSafe == Spec => []PyCallOutlivesThread
<1>1. Init => Joined
  BY DEF Init, Joined
<1>2. Joined /\ [Next]_vars => Joined'
  <2> SUFFICES ASSUME Joined, [Next]_vars PROVE Joined'
    OBVIOUS
  <2> USE DEF Joined
  <2>1. CASE HandleThread
    <3>1. handle_pc # "exit" /\ UNCHANGED <<owner_pc, py_call>>
      BY <2>1
      DEF HandleThread, HandleOpen, HandleLoop, HandleIsOpen, HandleKnock, HandleAlive,
          HandleRead, HandlePush, HandleProcess, HandleSignal, HandleDeadPush, HandleDeadSignal
    <3> QED BY <3>1
  <2>2. CASE Deinit
    BY <2>2
    DEF Deinit, DestroyGate, OpenGate, DestroyGateNotify, NotifyGate, DeinitAlive, DeinitPush,
        DeinitSignal, JoinHandle, JoinDispatch, ResetPy, handleVars
  <2>3. CASE \/ UNCHANGED vars \/ Terminated \/ Dispatch \/ Start \/ StartNotify \/ Stop
             \/ HandleWakesSpuriously \/ (\E c \in Control : Speak(c)) \/ DestroyClose
    BY <2>3
    DEF Terminated, vars, Dispatch, Start, OpenGate, StartNotify, NotifyGate, Stop,
        HandleWakesSpuriously, Speak, DestroyClose, handleVars
  <2> QED BY <2>1, <2>2, <2>3 DEF Next
<1>3. Joined => PyCallOutlivesThread
  BY DEF Joined, PyCallOutlivesThread
<1> QED BY <1>1, <1>2, <1>3, PTL DEF Spec

-------------------------------------------------------------------------------
(* The handle thread is never left asleep at an open gate, although open() *)
(* notifies after it released the mutex and stop() may close the gate in   *)
(* between.                                                                *)
THEOREM GateIsHeard == Spec => []GateNoLostWakeup
<1>1. Init => GateNoLostWakeup
  BY DEF Init, GateNoLostWakeup
<1>2. GateNoLostWakeup /\ [Next]_vars => GateNoLostWakeup'
  <2> SUFFICES ASSUME GateNoLostWakeup, [Next]_vars PROVE GateNoLostWakeup'
    OBVIOUS
  <2> USE DEF GateNoLostWakeup
  <2>1. CASE HandleThread \/ HandleWakesSpuriously
    BY <2>1
    DEF HandleThread, HandleOpen, HandleLoop, HandleIsOpen, HandleKnock, HandleAlive,
        HandleRead, HandlePush, HandleProcess, HandleSignal, HandleDeadPush, HandleDeadSignal,
        HandleWakesSpuriously, sourceVars
  <2>2. CASE Start \/ DestroyGate
    BY <2>2 DEF Start, DestroyGate, OpenGate
  <2>3. CASE StartNotify \/ DestroyGateNotify
    BY <2>3 DEF StartNotify, DestroyGateNotify, NotifyGate
  <2>4. CASE Stop
    BY <2>4 DEF Stop
  <2>5. CASE \/ UNCHANGED vars \/ Terminated \/ Dispatch \/ (\E c \in Control : Speak(c))
             \/ DestroyClose \/ DeinitAlive \/ DeinitPush \/ DeinitSignal \/ JoinHandle
             \/ JoinDispatch \/ ResetPy
    <3>1. /\ UNCHANGED <<opened, handle_pc>>
          /\ owner_pc' = owner_pc \/ owner_pc \notin {"start_notify", "gate_notify"}
      BY <2>5
      DEF Terminated, vars, Dispatch, Speak, DestroyClose, DeinitAlive, DeinitPush, DeinitSignal,
          JoinHandle, JoinDispatch, ResetPy, sourceVars, handleVars
    <3> QED BY <3>1
  <2> QED BY <2>1, <2>2, <2>3, <2>4, <2>5 DEF Next, Deinit
<1> QED BY <1>1, <1>2, PTL DEF Spec

-------------------------------------------------------------------------------
(* A meta that speak() sends past the queue is no frame.                   *)
LEMMA SpeakKeepsFrames ==
  ASSUME IInv, NEW c \in Control, Speak(c)
  PROVE  Frames(Through)' = Frames(Through)
<1> DEFINE E == Meta \cup {nullptr}
<1>1. pushed \in Seq(E) /\ OutBacklog \in Seq(E) /\ c \in E /\ c \notin Frame
  <2>1. CASE Unsignalled = 0
    BY <2>1, ThroughType, MetaAssumption DEF IInv, Meta
  <2>2. CASE Unsignalled = 1
    BY <2>2, ThroughType, MetaAssumption DEF IInv, Meta
  <2> QED BY <2>1, <2>2 DEF Unsignalled
<1>2. pushed' = Append(pushed, c) /\ OutBacklog' = OutBacklog /\ pushed' \in Seq(E)
  BY <1>1 DEF Speak, PushMeta, OutBacklog
<1>3. Frames(pushed') = Frames(pushed)
  BY <1>1, <1>2, FramesAppend
<1> HIDE DEF E
<1>4. /\ Frames(pushed \o OutBacklog) = Frames(pushed) \o Frames(OutBacklog)
      /\ Frames(pushed' \o OutBacklog) = Frames(pushed') \o Frames(OutBacklog)
  BY <1>1, <1>2, FramesConcat
<1> QED BY <1>2, <1>3, <1>4 DEF Through

(* The counts of the inductive invariant, as the lemmas about the dispatch *)
(* half want them.                                                         *)
LEMMA SomeCount == IInv => \E k \in Nat : DispatchInv(k)
  BY DEF IInv, Unsignalled

LEMMA AllQueuedStep == ASSUME IInv, AllQueued, [Next]_vars PROVE AllQueued'
<1> USE DEF AllQueued, Queued
<1>0. /\ frame_index \in Int /\ frame_index >= -1 /\ nullptr \notin Frame
      /\ Through \in Seq(Meta \cup {nullptr})
  BY SomeCount, ThroughType, MetaAssumption, VpSrcNodeAssumption DEF IInv, TypeOK, Meta
<1>1. CASE HandlePush
  <2>1. in_meta = frame_index /\ in_meta \in Frame /\ in_meta \in Meta \cup {nullptr}
    BY <1>1 DEF HandlePush, IInv, InHand, Meta
  <2>2. Through' = Append(Through, in_meta)
    BY <1>1, <2>1, SomeCount, PushExtendsThrough DEF HandlePush
  <2>3. Frames(Append(Through, in_meta)) = Append(Frames(Through), in_meta)
    BY <1>0, <2>1, FramesAppend
  <2>4. Append([i \in 1..frame_index |-> i - 1], frame_index) = [i \in 1..frame_index + 1 |-> i - 1]
    <3>1. frame_index \in Nat
      BY <2>1, VpSrcNodeAssumption
    <3> QED BY <3>1
  <2>5. frame_index' = frame_index /\ handle_pc = "push" /\ handle_pc' = "process"
    BY <1>1 DEF HandlePush, sourceVars
  <2>6. Frames(Through) = [i \in 1..frame_index |-> i - 1]
    BY <2>5
  <2>7. Frames(Through)' = [i \in 1..frame_index + 1 |-> i - 1]
    BY <2>1, <2>2, <2>3, <2>4, <2>6
  <2> QED BY <2>5, <2>7
<1>2. CASE HandleDeadPush
  <2>1. Through' = Append(Through, nullptr)
    BY <1>2, SomeCount, PushExtendsThrough DEF HandleDeadPush
  <2>2. Frames(Through)' = Frames(Through)
    BY <1>0, <2>1, FramesAppend
  <2> QED BY <1>2, <2>2 DEF HandleDeadPush, sourceVars
<1>3. CASE HandleRead
  <2>1. Frames(Through)' = Frames(Through)
    BY <1>3 DEF HandleRead, Through, OutBacklog, dispatchVars
  <2>2. Queued' = Queued
    BY <1>0, <1>3 DEF HandleRead
  <2>3. handle_pc' = "push" => in_meta' = frame_index'
    BY <1>3 DEF HandleRead
  <2> QED BY <2>1, <2>2, <2>3
<1>4. CASE Dispatch
  <2>1. Through' = Through
    BY <1>4, SomeCount, DispatchKeepsThrough DEF Dispatch
  <2> QED BY <1>4, <2>1 DEF Dispatch, sourceVars, handleVars
<1>5. CASE \E c \in Control : Speak(c)
  <2>1. Frames(Through)' = Frames(Through)
    BY <1>5, SpeakKeepsFrames
  <2> QED BY <1>5, <2>1 DEF Speak, sourceVars, handleVars
<1>6. CASE \/ HandleOpen \/ HandleLoop \/ HandleIsOpen \/ HandleKnock \/ HandleAlive
           \/ HandleProcess \/ HandleSignal \/ HandleDeadSignal \/ HandleWakesSpuriously
           \/ StartNotify \/ DestroyGateNotify
  <2>1. /\ UNCHANGED <<pushed, out_queue, dispatch_pc, frame_index>>
        /\ (handle_pc' # "push" /\ handle_pc # "push") \/ UNCHANGED <<handle_pc, in_meta>>
    BY <1>6
    DEF HandleOpen, HandleLoop, HandleIsOpen, HandleKnock, HandleAlive, HandleProcess,
        HandleSignal, HandleDeadSignal, HandleWakesSpuriously, StartNotify, DestroyGateNotify,
        NotifyGate, dispatchVars, sourceVars
  <2>2. Through' = Through
    BY <2>1 DEF Through, OutBacklog
  <2> QED BY <2>1, <2>2
<1>7. CASE \/ UNCHANGED vars \/ Terminated \/ Start \/ Stop \/ DestroyClose
           \/ Deinit /\ ~DestroyGateNotify
  <2>1. UNCHANGED <<pushed, out_queue, dispatch_pc, frame_index, handle_pc, in_meta>>
    BY <1>7
    DEF Terminated, vars, Start, Stop, DestroyClose, Deinit, DestroyGate, OpenGate, DeinitAlive,
        DeinitPush, DeinitSignal, JoinHandle, JoinDispatch, ResetPy, dispatchVars, sourceVars,
        handleVars
  <2>2. Through' = Through
    BY <2>1 DEF Through, OutBacklog
  <2> QED BY <2>1, <2>2
<1> QED BY <1>1, <1>2, <1>3, <1>4, <1>5, <1>6, <1>7 DEF Next, HandleThread

(* The forwarded frames are the first of those that went through the       *)
(* queue, which are numbered as they were read.                            *)
LEMMA OrderFromQueued == ASSUME IInv, AllQueued PROVE SourceOrder
<1> DEFINE E == Meta \cup {nullptr}
           p == Frames(pushed)
           q == Frames(OutBacklog)
<1>1. pushed \in Seq(E) /\ OutBacklog \in Seq(E)
  BY SomeCount, ThroughType
<1>2. p \in Seq(E \cap Frame) /\ q \in Seq(E \cap Frame)
  BY <1>1, FramesType
<1>3. Frames(Through) = p \o q
  <2> HIDE DEF E
  <2> QED BY <1>1, FramesConcat DEF Through
<1>4. p \o q = [i \in 1..Queued |-> i - 1]
  BY <1>3 DEF AllQueued
<1> HIDE DEF E, p, q
<1>5. \A i \in DOMAIN p : p[i] = (p \o q)[i] /\ i \in DOMAIN (p \o q)
  BY <1>2
<1>6. \A i \in DOMAIN p : p[i] = i - 1
  BY <1>4, <1>5
<1> QED BY <1>6 DEF SourceOrder, p

(* The frame that is being forwarded is the next one.                      *)
LEMMA NextIndex ==
  ASSUME IInv, AllQueued, dispatch_pc = "push", out_meta \in Frame
  PROVE  out_meta = Len(Frames(pushed))
<1> DEFINE E == Meta \cup {nullptr}
           p == Frames(pushed)
           q == Frames(OutBacklog)
           t == Frames(Tail(OutBacklog))
           m == out_meta
<1>1. pushed \in Seq(E) /\ OutBacklog \in Seq(E)
  BY SomeCount, ThroughType
<1>2. OutBacklog # <<>> /\ Head(OutBacklog) = m
  BY DEF IInv, DispatchInv, PopRemovesPushed, OutBacklog
<1>3. q = <<m>> \o t
  BY <1>1, <1>2, FramesCons DEF AsFrames
<1>4. p \in Seq(E \cap Frame) /\ t \in Seq(E \cap Frame) /\ m \in E \cap Frame
  <2>1. Tail(OutBacklog) \in Seq(E)
    BY <1>1, <1>2
  <2> QED BY <1>1, <2>1, FramesType DEF Meta
<1>5. Frames(Through) = p \o q
  <2> HIDE DEF E
  <2> QED BY <1>1, FramesConcat DEF Through
<1>6. p \o q = [i \in 1..Queued |-> i - 1]
  BY <1>5 DEF AllQueued
<1> HIDE DEF E, p, q, t, m
<1>7. q \in Seq(E \cap Frame) /\ Len(q) >= 1 /\ q[1] = m
  BY <1>3, <1>4
<1>8. (p \o q)[Len(p) + 1] = m /\ Len(p) + 1 \in DOMAIN (p \o q)
  BY <1>4, <1>7
<1>9. Len(p) \in Nat /\ m = (Len(p) + 1) - 1
  BY <1>4, <1>6, <1>8
<1> QED BY <1>9 DEF p, m

LEMMA QueuedAlways == Spec => []AllQueued
<1>1. Init => AllQueued
  <2> SUFFICES ASSUME Init PROVE AllQueued
    OBVIOUS
  <2>1. Through = <<>>
    BY DEF Init, DispatchInit, Through, OutBacklog
  <2>2. Queued = 0 /\ [i \in 1..0 |-> i - 1] = <<>> /\ handle_pc # "push"
    BY DEF Init, Queued
  <2> QED BY <2>1, <2>2, FramesEmpty DEF AllQueued
<1>2. IInv /\ AllQueued /\ [Next]_vars => AllQueued'
  BY AllQueuedStep
<1> QED BY <1>1, <1>2, Inductive, PTL DEF Spec

(* Frames leave a source node in the order in which they were read, each   *)
(* once and without gaps, whatever the owner speaks in between.            *)
THEOREM SourceKeepsOrder == Spec => []SourceOrder
<1>1. IInv /\ AllQueued => SourceOrder
  BY OrderFromQueued
<1> QED BY <1>1, QueuedAlways, Inductive, PTL

-------------------------------------------------------------------------------
(* The source node and the next one.                                       *)

(* The node after the source, with the proofs about it.                    *)
MidProofs == INSTANCE VpNodeProofs WITH
  Upstream <- Pushers, frame_meta_handle_batch <- 1, Consumed <- Control, Pended <- Control,
  alive <- mid_alive, out_queue <- mid_out_queue,
  out_queue_semaphore <- mid_out_queue_semaphore, dispatch_pc <- mid_dispatch_pc,
  out_meta <- mid_out_meta, pushed <- mid_pushed, hooked <- mid_hooked,
  attached <- mid_attached, flow_pc <- mid_flow_pc, flow_meta <- mid_flow_meta,
  in_queue <- mid_in_queue, in_queue_semaphore <- mid_in_queue_semaphore,
  handle_pc <- mid_handle_pc, in_meta <- mid_in_meta,
  frame_meta_batch_cache <- mid_frame_meta_batch_cache, emitted <- mid_emitted,
  owner_pc <- mid_owner_pc, arrived <- mid_arrived

(* Whoever is inside meta_flow holds the lock, and is attached: so there   *)
(* is at most one, and detach, which takes the lock, finds none.           *)
LockInv ==
  /\ mid_flow_pc \in [Pushers -> {"idle", "hook", "signal"}]
  /\ \A t \in Pushers :
       mid_flow_pc[t] # "idle" => subscribers_lock = t /\ t \in mid_attached
  /\ mid_owner_pc # "live" => mid_attached = {}

(* What is inside meta_flow is what the thread is pushing.                 *)
CallInv ==
  /\ mid_flow_pc["dispatch"] # "idle" =>
       dispatch_pc = "push" /\ mid_flow_meta["dispatch"] = out_meta
  /\ mid_flow_pc["speak"] # "idle" =>
       owner_pc = "live" /\ mid_flow_meta["speak"] \in Control

MidInv ==
  /\ MidProofs!IInv
  /\ MidProofs!FifoInv
  /\ MidProofs!HookedInv
  /\ MidProofs!ArrivingInv

PipelineInv == LockInv /\ CallInv /\ MidInv

-------------------------------------------------------------------------------
(* The assumptions of VpNode hold for the next node.                       *)
LEMMA MidAssumptions ==
  MidProofs!VpNodeAssumption /\ MidProofs!MetaAssumption /\ MidProofs!NothingDropped
<1>1. IsFiniteSet(Pushers)
  <2>1. IsFiniteSet({"speak"})
    BY FS_Singleton
  <2>2. IsFiniteSet({"speak"} \cup {"dispatch"}) /\ Pushers = {"speak"} \cup {"dispatch"}
    BY <2>1, FS_AddElement DEF Pushers
  <2> QED BY <2>2
<1>2. MidProofs!IsFiniteSet(Pushers)
  BY <1>1 DEF IsFiniteSet, MidProofs!IsFiniteSet
<1> QED BY <1>2, MetaAssumption
        DEF MidProofs!VpNodeAssumption, MidProofs!MetaAssumption, MidProofs!Meta, Meta,
            MidProofs!NothingDropped

(* Every thread of the next node takes its own steps.                      *)
LEMMA MidHandleStep == Mid!HandleThread => MidProofs!HandleThread
  BY DEF Mid!HandleThread, Mid!HandleLoop, Mid!HandleWait, Mid!HandlePop, Mid!HandleHandling,
         Mid!HandleControl, Mid!PendingPush, Mid!PendingHandled, Mid!PendingSignal,
         Mid!FinishControl, Mid!HandleFrame, Mid!EmitPush, Mid!EmitHandled, Mid!EmitSignal,
         Mid!HandleDeadPush, Mid!HandleDeadSignal, Mid!Hook, Mid!outVars, Mid!inVars, Mid!flowVars,
         Mid!Handling, Mid!Handled, Mid!dispatchVars, Mid!WaitIn, Mid!SignalOut, Mid!Current,
         MidProofs!HandleThread, MidProofs!HandleLoop, MidProofs!HandleWait, MidProofs!HandlePop,
         MidProofs!HandleHandling, MidProofs!HandleControl, MidProofs!PendingPush,
         MidProofs!PendingHandled, MidProofs!PendingSignal, MidProofs!FinishControl,
         MidProofs!HandleFrame, MidProofs!EmitPush, MidProofs!EmitHandled, MidProofs!EmitSignal,
         MidProofs!HandleDeadPush, MidProofs!HandleDeadSignal, MidProofs!Hook, MidProofs!outVars,
         MidProofs!inVars, MidProofs!flowVars, MidProofs!Handling, MidProofs!Handled,
         MidProofs!dispatchVars, MidProofs!WaitIn, MidProofs!SignalOut, MidProofs!Current

LEMMA MidDispatchStep == Mid!Dispatch => MidProofs!Dispatch
  BY DEF Mid!Dispatch, Mid!DispatchThread, Mid!DispatchLoop, Mid!DispatchWait, Mid!DispatchFront,
         Mid!DispatchLeaving, Mid!DispatchPush, Mid!DispatchPop, Mid!WaitOut, Mid!Hook,
         Mid!Leaving, Mid!PushMeta, Mid!flowVars, Mid!inVars, Mid!handleVars,
         MidProofs!Dispatch, MidProofs!DispatchThread, MidProofs!DispatchLoop,
         MidProofs!DispatchWait, MidProofs!DispatchFront, MidProofs!DispatchLeaving,
         MidProofs!DispatchPush, MidProofs!DispatchPop, MidProofs!WaitOut, MidProofs!Hook,
         MidProofs!Leaving, MidProofs!PushMeta, MidProofs!flowVars, MidProofs!inVars,
         MidProofs!handleVars

LEMMA MidOwnerStep == /\ Mid!Destroy => MidProofs!Destroy
                      /\ Mid!Deinit => MidProofs!Deinit
  BY DEF Mid!Destroy, Mid!Deinit, Mid!DeinitPush, Mid!DeinitSignal, Mid!JoinHandle,
         Mid!JoinDispatch, Mid!SignalIn, Mid!dispatchVars, Mid!flowVars, Mid!inVars,
         Mid!handleVars, MidProofs!Destroy, MidProofs!Deinit, MidProofs!DeinitPush,
         MidProofs!DeinitSignal, MidProofs!JoinHandle, MidProofs!JoinDispatch, MidProofs!SignalIn,
         MidProofs!dispatchVars, MidProofs!flowVars, MidProofs!inVars, MidProofs!handleVars

LEMMA MidFlowStep ==
  ASSUME NEW t \in Pushers
  PROVE  /\ Mid!MetaFlowHook(t) => MidProofs!MetaFlowHook(t)
         /\ Mid!MetaFlowSignal(t) => MidProofs!MetaFlowSignal(t)
         /\ \A m \in Meta : Mid!MetaFlowPush(t, m) => MidProofs!MetaFlowPush(t, m)
  BY DEF Mid!MetaFlowHook, Mid!MetaFlowSignal, Mid!MetaFlowPush, Mid!Hook, Mid!Arriving,
         Mid!SignalIn, Mid!outVars, Mid!inVars, Mid!handleVars, Mid!dispatchVars,
         MidProofs!MetaFlowHook, MidProofs!MetaFlowSignal, MidProofs!MetaFlowPush,
         MidProofs!Hook, MidProofs!Arriving, MidProofs!SignalIn, MidProofs!outVars,
         MidProofs!inVars, MidProofs!handleVars, MidProofs!dispatchVars

LEMMA MidInitStep == Mid!Init => MidProofs!Init
  BY DEF Mid!Init, Mid!DispatchInit, Mid!Meta, MidProofs!Init, MidProofs!DispatchInit,
         MidProofs!Meta

-------------------------------------------------------------------------------
(* A step is one of the source, or leaves the source alone.                *)
LEMMA PushedStep ==
  ASSUME NEW t \in Pushers, NEW m, Pushed(t, m), t = "speak" => m \in Control
  PROVE  Next
<1>1. CASE t = "dispatch"
  BY <1>1 DEF Pushed, Next, Dispatch, DispatchThread
<1>2. CASE t = "speak"
  BY <1>2 DEF Pushed, Next
<1> QED BY <1>1, <1>2 DEF Pushers

LEMMA SourceStep == ASSUME CallInv, [PipelineNext]_pipelineVars PROVE [Next]_vars
<1>1. ASSUME NEW t \in Pushers, Push(t)
      PROVE  [Next]_vars
  <2>1. CASE PushEnd(t)
    <3>1. mid_flow_pc[t] = "signal"
      BY <2>1 DEF PushEnd, Mid!MetaFlowSignal
    <3>2. t = "speak" => mid_flow_meta[t] \in Control
      BY <3>1 DEF CallInv
    <3> QED BY <2>1, <3>2, PushedStep DEF PushEnd
  <2>2. ASSUME NEW m \in Meta, PushNobody(t, m)
        PROVE  [Next]_vars
    <3>1. t = "speak" => m \in Control
      BY <2>2 DEF PushNobody, Pushes
    <3> QED BY <2>2, <3>1, PushedStep DEF PushNobody
  <2>3. CASE PushHook(t) \/ \E m \in Meta : PushBegin(t, m)
    BY <2>3 DEF PushHook, PushBegin
  <2> QED BY <1>1, <2>1, <2>2, <2>3 DEF Push
<1>2. CASE Own
  BY <1>2 DEF Own, Next
<1>3. CASE SrcHandle
  BY <1>3 DEF SrcHandle, Next
<1>4. CASE SrcDispatch
  BY <1>4 DEF SrcDispatch, Next, Dispatch, DispatchThread
<1>5. CASE \/ AttachMid \/ DetachMid \/ MidHandle \/ MidDispatch \/ MidDestroy \/ MidDeinit
           \/ UNCHANGED pipelineVars
  BY <1>5 DEF AttachMid, DetachMid, SetAttached, MidHandle, MidDispatch, MidDestroy, MidDeinit,
              pipelineVars
<1> QED BY <1>1, <1>2, <1>3, <1>4, <1>5 DEF PipelineNext

(* It is also one of the next node, or changes at most who is attached.    *)
Attaching == /\ mid_attached' \in {{}, Pushers, mid_attached}
             /\ UNCHANGED midInnerVars

LEMMA MidStep == ASSUME [PipelineNext]_pipelineVars PROVE MidProofs!Next \/ Attaching
<1>1. ASSUME NEW t \in Pushers, Push(t)
      PROVE  MidProofs!Next \/ Attaching
  <2>1. CASE PushEnd(t) \/ PushHook(t)
    BY <2>1, MidFlowStep DEF PushEnd, PushHook, MidProofs!Next, MidProofs!Flow
  <2>2. ASSUME NEW m \in Meta, PushBegin(t, m)
        PROVE  MidProofs!Next
    <3>1. MidProofs!MetaFlowPush(t, m) /\ m \in MidProofs!Meta
      BY <2>2, MidFlowStep DEF PushBegin, Meta, MidProofs!Meta
    <3> QED BY <3>1 DEF MidProofs!Next
  <2>3. ASSUME NEW m \in Meta, PushNobody(t, m)
        PROVE  Attaching
    BY <2>3 DEF PushNobody, midVars, Attaching
  <2> QED BY <1>1, <2>1, <2>2, <2>3 DEF Push
<1>2. CASE MidHandle \/ MidDispatch \/ MidDestroy \/ MidDeinit
  BY <1>2, MidHandleStep, MidDispatchStep, MidOwnerStep
  DEF MidHandle, MidDispatch, MidDestroy, MidDeinit, MidProofs!Next
<1>3. CASE AttachMid \/ DetachMid
  BY <1>3 DEF AttachMid, DetachMid, SetAttached, Attaching
<1>4. CASE Own \/ SrcHandle \/ SrcDispatch \/ UNCHANGED pipelineVars
  BY <1>4 DEF Own, SrcHandle, SrcDispatch, pipelineVars, midVars, Attaching
<1> QED BY <1>1, <1>2, <1>3, <1>4 DEF PipelineNext

-------------------------------------------------------------------------------
(* The calls between the nodes.  First the threads that push.              *)
LEMMA MidTypes ==
  ASSUME MidInv
  PROVE  /\ mid_flow_pc \in [Pushers -> {"idle", "hook", "signal"}]
         /\ mid_flow_meta \in [Pushers -> Meta \cup {nullptr}]
         /\ mid_attached \subseteq Pushers
  BY DEF MidInv, MidProofs!IInv, MidProofs!TypeOK, MidProofs!Meta, Meta

LEMMA PushCallInv ==
  ASSUME LockInv, CallInv, MidInv, NEW t \in Pushers, Push(t)
  PROVE  LockInv' /\ CallInv'
<1> USE DEF LockInv, CallInv
<1>0. /\ mid_flow_meta \in [Pushers -> Meta \cup {nullptr}]
      /\ Pushers = {"dispatch", "speak"} /\ nullptr \notin Pushers
  BY MidTypes, PipelineAssumption DEF Pushers
<1>1. ASSUME NEW m \in Meta, PushBegin(t, m)
      PROVE  LockInv' /\ CallInv'
  <2>1. /\ mid_flow_pc' = [mid_flow_pc EXCEPT ![t] = "hook"]
        /\ mid_flow_meta' = [mid_flow_meta EXCEPT ![t] = m]
        /\ t \in mid_attached /\ subscribers_lock = nullptr /\ subscribers_lock' = t
        /\ UNCHANGED <<mid_attached, mid_owner_pc, dispatch_pc, out_meta, owner_pc>>
        /\ t = "dispatch" => dispatch_pc = "push" /\ m = out_meta
        /\ t = "speak" => owner_pc = "live" /\ m \in Control
    BY <1>1 DEF PushBegin, Mid!MetaFlowPush, Pushes, vars, dispatchVars
  <2>2. \A u \in Pushers : mid_flow_pc[u] = "idle"
    BY <1>0, <2>1
  <2>3. \A u \in Pushers : mid_flow_pc'[u] # "idle" => u = t
    BY <2>1, <2>2
  <2>4. LockInv'
    BY <2>1, <2>3
  <2>5. CallInv'
    BY <1>0, <2>1, <2>3
  <2> QED BY <2>4, <2>5
<1>2. CASE PushHook(t)
  <2>1. /\ mid_flow_pc' = [mid_flow_pc EXCEPT ![t] = "signal"] /\ mid_flow_pc[t] = "hook"
        /\ UNCHANGED <<mid_flow_meta, mid_attached, mid_owner_pc, subscribers_lock, dispatch_pc,
                       out_meta, owner_pc>>
    BY <1>2 DEF PushHook, Mid!MetaFlowHook, vars, dispatchVars
  <2>2. \A u \in Pushers : mid_flow_pc'[u] # "idle" => mid_flow_pc[u] # "idle"
    BY <2>1
  <2> QED BY <1>0, <2>1, <2>2
<1>3. CASE PushEnd(t)
  <2>1. /\ mid_flow_pc' = [mid_flow_pc EXCEPT ![t] = "idle"] /\ mid_flow_pc[t] = "signal"
        /\ UNCHANGED <<mid_attached, mid_owner_pc>>
    BY <1>3 DEF PushEnd, Mid!MetaFlowSignal
  <2>2. \A u \in Pushers : mid_flow_pc'[u] = "idle"
    BY <1>0, <2>1
  <2> QED BY <1>0, <2>1, <2>2
<1>4. ASSUME NEW m \in Meta, PushNobody(t, m)
      PROVE  LockInv' /\ CallInv'
  <2>1. /\ mid_attached = {}
        /\ UNCHANGED <<mid_flow_pc, mid_attached, mid_owner_pc>>
    BY <1>4 DEF PushNobody, midVars, midInnerVars
  <2>2. \A u \in Pushers : mid_flow_pc'[u] = "idle"
    BY <2>1
  <2> QED BY <1>0, <2>1, <2>2
<1> QED BY <1>1, <1>2, <1>3, <1>4 DEF Push

LEMMA CallInvStep ==
  ASSUME LockInv, CallInv, MidInv, [PipelineNext]_pipelineVars
  PROVE  LockInv' /\ CallInv'
<1> USE DEF LockInv, CallInv
<1>0. Pushers = {"dispatch", "speak"} /\ nullptr \notin Pushers
  BY PipelineAssumption DEF Pushers
<1>1. CASE \E t \in Pushers : Push(t)
  BY <1>1, PushCallInv
<1>2. CASE AttachMid \/ DetachMid
  <2>1. /\ UNCHANGED <<mid_flow_pc, mid_flow_meta, mid_owner_pc, subscribers_lock, dispatch_pc,
                       out_meta, owner_pc>>
        /\ subscribers_lock = nullptr
        /\ mid_owner_pc = "live" \/ mid_attached' = {}
    BY <1>2 DEF AttachMid, DetachMid, SetAttached, midInnerVars, vars, dispatchVars
  <2>2. \A u \in Pushers : mid_flow_pc'[u] = "idle"
    BY <1>0, <2>1
  <2> QED BY <1>0, <2>1, <2>2
<1>3. CASE Own
  <2>1. /\ UNCHANGED <<mid_flow_pc, mid_flow_meta, mid_attached, mid_owner_pc, subscribers_lock>>
        /\ mid_flow_pc["speak"] = "idle"
    BY <1>3 DEF Own, OwnerFree, midVars, midInnerVars
  <2>2. UNCHANGED <<dispatch_pc, out_meta>>
    BY <1>3 DEF Own, Start, StartNotify, OpenGate, NotifyGate, DestroyClose, Deinit, DestroyGate,
                DestroyGateNotify, DeinitAlive, DeinitPush, DeinitSignal, JoinHandle, JoinDispatch,
                ResetPy, dispatchVars
  <2> QED BY <2>1, <2>2
<1>4. CASE SrcHandle \/ SrcDispatch
  <2>1. UNCHANGED <<mid_flow_pc, mid_flow_meta, mid_attached, mid_owner_pc, subscribers_lock>>
    BY <1>4 DEF SrcHandle, SrcDispatch, midVars, midInnerVars
  <2>2. owner_pc' = owner_pc
    BY <1>4 DEF SrcHandle, SrcDispatch, HandleThread, HandleOpen, HandleLoop, HandleIsOpen,
                HandleKnock, HandleAlive, HandleRead, HandlePush, HandleProcess, HandleSignal,
                HandleDeadPush, HandleDeadSignal, HandleWakesSpuriously
  <2>3. dispatch_pc = "push" => UNCHANGED <<dispatch_pc, out_meta>>
    <3>1. CASE SrcHandle
      BY <3>1 DEF SrcHandle, HandleThread, HandleOpen, HandleLoop, HandleIsOpen,
                  HandleKnock, HandleAlive, HandleRead, HandlePush, HandleProcess, HandleSignal,
                  HandleDeadPush, HandleDeadSignal, HandleWakesSpuriously, dispatchVars
    <3>2. CASE SrcDispatch
      BY <3>2 DEF SrcDispatch, DispatchLoop, DispatchWait, DispatchFront, DispatchLeaving,
                  DispatchPop
    <3> QED BY <1>4, <3>1, <3>2
  <2> QED BY <2>1, <2>2, <2>3
<1>5. CASE MidHandle \/ MidDispatch \/ MidDeinit \/ UNCHANGED pipelineVars
  <2>1. UNCHANGED <<mid_flow_pc, mid_flow_meta, mid_attached>>
    BY <1>5, MidHandleStep, MidDispatchStep, MidOwnerStep
    DEF MidHandle, MidDispatch, MidDeinit, pipelineVars, midVars, midInnerVars,
        MidProofs!Dispatch, MidProofs!Deinit, MidProofs!DeinitPush, MidProofs!DeinitSignal,
        MidProofs!JoinHandle, MidProofs!JoinDispatch, MidProofs!flowVars, MidProofs!HandleThread,
        MidProofs!HandleLoop, MidProofs!HandleWait, MidProofs!HandlePop,
        MidProofs!HandleHandling, MidProofs!HandleControl, MidProofs!PendingPush,
        MidProofs!PendingHandled, MidProofs!PendingSignal, MidProofs!FinishControl,
        MidProofs!HandleFrame, MidProofs!EmitPush, MidProofs!EmitHandled, MidProofs!EmitSignal,
        MidProofs!HandleDeadPush, MidProofs!HandleDeadSignal
  <2>2. UNCHANGED <<subscribers_lock, dispatch_pc, out_meta, owner_pc>>
    BY <1>5 DEF MidHandle, MidDispatch, MidDeinit, pipelineVars, vars, dispatchVars
  <2>3. mid_owner_pc' = mid_owner_pc \/ mid_owner_pc # "live"
    BY <1>5, MidHandleStep, MidDispatchStep, MidOwnerStep
    DEF MidHandle, MidDispatch, MidDeinit, pipelineVars, midVars, midInnerVars,
        MidProofs!Dispatch, MidProofs!Deinit, MidProofs!DeinitPush, MidProofs!DeinitSignal,
        MidProofs!JoinHandle, MidProofs!JoinDispatch, MidProofs!HandleThread,
        MidProofs!HandleLoop, MidProofs!HandleWait, MidProofs!HandlePop,
        MidProofs!HandleHandling, MidProofs!HandleControl, MidProofs!PendingPush,
        MidProofs!PendingHandled, MidProofs!PendingSignal, MidProofs!FinishControl,
        MidProofs!HandleFrame, MidProofs!EmitPush, MidProofs!EmitHandled, MidProofs!EmitSignal,
        MidProofs!HandleDeadPush, MidProofs!HandleDeadSignal
  <2> QED BY <2>1, <2>2, <2>3
<1>6. CASE MidDestroy
  <2>1. /\ mid_attached = {}
        /\ UNCHANGED <<mid_flow_pc, mid_flow_meta, mid_attached, subscribers_lock, dispatch_pc,
                       out_meta, owner_pc>>
    BY <1>6, MidOwnerStep
    DEF MidDestroy, MidProofs!Destroy, MidProofs!flowVars, vars, dispatchVars
  <2> QED BY <2>1
<1> QED BY <1>1, <1>2, <1>3, <1>4, <1>5, <1>6 DEF PipelineNext

LEMMA MidInvStep ==
  ASSUME LockInv, LockInv', MidInv, [PipelineNext]_pipelineVars
  PROVE  MidInv'
<1> USE MidAssumptions DEF MidInv
<1>1. CASE MidProofs!Next
  <2>1. MidProofs!OneFlow /\ MidProofs!OneFlow'
    BY DEF LockInv, MidProofs!OneFlow
  <2>2. MidProofs!IInv'
    BY <1>1, MidProofs!NextIInv
  <2>3. MidProofs!FifoInv'
    BY <1>1, MidProofs!FifoInvStep
  <2>4. MidProofs!HookedInv'
    BY <1>1, MidProofs!HookedInvStep
  <2>5. MidProofs!ArrivingInv'
    BY <1>1, <2>1, MidProofs!ArrivingInvStep
  <2> QED BY <2>2, <2>3, <2>4, <2>5
<1>2. CASE Attaching
  <2>1. mid_attached' \subseteq Pushers
    BY <1>2, MidTypes DEF Attaching
  <2>2. UNCHANGED <<mid_alive, MidProofs!dispatchVars, mid_flow_pc, mid_flow_meta,
                    MidProofs!inVars, MidProofs!handleVars, mid_owner_pc>>
    BY <1>2 DEF Attaching, midInnerVars, MidProofs!dispatchVars, MidProofs!inVars,
                MidProofs!handleVars
  <2> QED BY <2>1, <2>2, MidProofs!AttachingKeeps
<1> QED BY <1>1, <1>2, MidStep

-------------------------------------------------------------------------------
LEMMA PipelineInitInv == PipelineInit => Init /\ PipelineInv
<1> SUFFICES ASSUME PipelineInit PROVE Init /\ PipelineInv
  OBVIOUS
<1>1. Init /\ Mid!Init /\ MidProofs!Init
  BY MidInitStep DEF PipelineInit
<1>2. MidProofs!IInv /\ MidProofs!FifoInv /\ MidProofs!HookedInv /\ MidProofs!ArrivingInv
  BY <1>1, MidAssumptions, MidProofs!InitIInv, MidProofs!FifoInvInit, MidProofs!HookedInvInit,
     MidProofs!ArrivingInvInit
<1>3. /\ mid_flow_pc = [t \in Pushers |-> "idle"]
      /\ mid_owner_pc = "live"
  BY <1>1 DEF Mid!Init
<1>4. LockInv /\ CallInv
  BY <1>3 DEF LockInv, CallInv, Pushers
<1> QED BY <1>1, <1>2, <1>4 DEF PipelineInv, MidInv

LEMMA PipelineInvStep == PipelineInv /\ [PipelineNext]_pipelineVars => PipelineInv'
  BY CallInvStep, MidInvStep DEF PipelineInv

(* The calls between the nodes and the insides of the next node together   *)
(* form the inductive invariant of the composition.                        *)
THEOREM PipelineInductive == PipelineSpec => []PipelineInv
<1>1. PipelineInit => PipelineInv
  BY PipelineInitInv
<1> QED BY <1>1, PipelineInvStep, PTL DEF PipelineSpec

(* The node behind the source changes nothing about the source: it still   *)
(* does what VpSrcNode says, and all theorems about that hold here.        *)
THEOREM SourceUnaffected == PipelineSpec => Spec
<1>1. PipelineInit => Init
  BY PipelineInitInv
<1>2. PipelineInv /\ [PipelineNext]_pipelineVars => [Next]_vars
  BY SourceStep DEF PipelineInv
<1> QED BY <1>1, <1>2, PipelineInductive, PTL DEF PipelineSpec, Spec

(* Once the destructor of the next node runs, no thread of the source is   *)
(* inside its meta_flow, and none enters it again.                         *)
THEOREM DestructionIsSafe == PipelineSpec => []DestroyedUncalled
<1>1. PipelineInv => DestroyedUncalled
  BY DEF PipelineInv, LockInv, DestroyedUncalled
<1> QED BY <1>1, PipelineInductive, PTL

(* At the next node the hookers of a meta run in the order of the ports,   *)
(* although two threads of the source push.                                *)
THEOREM HookersRunInOrder == PipelineSpec => []MidHookOrder
<1>1. PipelineInv => MidHookOrder
  <2> SUFFICES ASSUME PipelineInv PROVE MidHookOrder
    OBVIOUS
  <2>1. MidProofs!HookOrder
    BY MidAssumptions, MidProofs!HookOrderFromInv DEF PipelineInv, MidInv
  <2> QED BY <2>1 DEF MidHookOrder, Mid!HookOrder, MidProofs!HookOrder, Mid!Meta, MidProofs!Meta,
                      Mid!Arriving, MidProofs!Arriving
<1> QED BY <1>1, PipelineInductive, PTL

-------------------------------------------------------------------------------
(* The frames that the source has pushed are numbered from 0.  Those that  *)
(* have arrived at the next node are among them, but for the one that is   *)
(* inside meta_flow: push_meta has not returned yet.                       *)
Sent == Len(Frames(pushed))
          + (IF mid_flow_pc["dispatch"] # "idle" /\ out_meta \in Frame THEN 1 ELSE 0)

ArrivedInv ==
  LET F == Frames(mid_arrived)
  IN  /\ \A i \in DOMAIN F : F[i] < Sent
      /\ \A i, j \in DOMAIN F : i < j => F[i] < F[j]

LEMMA SameFrames == \A s : MidProofs!Frames(s) = Frames(s)
  BY DEF Frames, MidProofs!Frames

LEMMA ArrivedTypes ==
  ASSUME IInv, MidInv
  PROVE  /\ pushed \in Seq(Meta) /\ Frames(pushed) \in Seq(Frame)
         /\ Len(Frames(pushed)) \in Nat /\ Sent \in Nat
         /\ mid_arrived \in Seq(Meta) /\ Frames(mid_arrived) \in Seq(Frame)
         /\ \A f \in Frame : f \in Nat
         /\ Frame \cap Control = {}
<1>1. pushed \in Seq(Meta)
  BY DEF IInv, TypeOK, DispatchTypeOK
<1>2. mid_arrived \in Seq(Meta)
  BY DEF MidInv, MidProofs!IInv, MidProofs!TypeOK, MidProofs!Meta, Meta
<1>3. Meta \cap Frame = Frame
  BY DEF Meta
<1>4. Frames(pushed) \in Seq(Frame) /\ Frames(mid_arrived) \in Seq(Frame)
  BY <1>1, <1>2, <1>3, FramesType
<1>5. Len(Frames(pushed)) \in Nat
  BY <1>4
<1> QED BY <1>1, <1>2, <1>4, <1>5, VpSrcNodeAssumption, MetaAssumption DEF Sent

(* A frame arrives: it has the next index.                                 *)
LEMMA ArrivesNext ==
  ASSUME IInv, AllQueued, PipelineInv, ArrivedInv, NEW m \in Frame, PushBegin("dispatch", m)
  PROVE  ArrivedInv'
<1> DEFINE F == Frames(mid_arrived)
<1>1. /\ dispatch_pc = "push" /\ m = out_meta /\ subscribers_lock = nullptr
      /\ UNCHANGED <<pushed, out_meta>>
      /\ mid_arrived' = Append(mid_arrived, m)
      /\ mid_flow_pc' = [mid_flow_pc EXCEPT !["dispatch"] = "hook"]
  BY DEF PushBegin, Pushes, Mid!MetaFlowPush, vars, dispatchVars
<1>2. m = Len(Frames(pushed))
  BY <1>1, NextIndex
<1>3. mid_flow_pc["dispatch"] = "idle" /\ mid_flow_pc'["dispatch"] = "hook"
  BY <1>1, PipelineAssumption DEF PipelineInv, LockInv, Pushers
<1>4. Sent = m /\ Sent' = m + 1 /\ m \in Nat
  BY <1>1, <1>2, <1>3, ArrivedTypes DEF Sent, PipelineInv
<1>5. F \in Seq(Frame) /\ F' = Append(F, m) /\ \A f \in Frame : f \in Nat
  <2>1. mid_arrived \in Seq(Meta) /\ m \in Meta
    BY ArrivedTypes DEF PipelineInv, Meta
  <2>2. Frames(Append(mid_arrived, m)) = Append(F, m)
    BY <2>1, FramesAppend
  <2> QED BY <1>1, <2>2, ArrivedTypes DEF PipelineInv
<1>6. /\ \A i \in DOMAIN F : F[i] < m
      /\ \A i, j \in DOMAIN F : i < j => F[i] < F[j]
  BY <1>4 DEF ArrivedInv
<1> HIDE DEF F
<1>7. /\ DOMAIN F = 1..Len(F) /\ Len(F) \in Nat
      /\ DOMAIN F' = 1..(Len(F) + 1)
      /\ \A i \in DOMAIN F : F'[i] = F[i] /\ F[i] \in Nat
      /\ F'[Len(F) + 1] = m
  BY <1>5
<1>8. \A i \in DOMAIN F' : F'[i] < m + 1
  BY <1>4, <1>6, <1>7
<1>9. ASSUME NEW i \in DOMAIN F', NEW j \in DOMAIN F', i < j
      PROVE  F'[i] < F'[j]
  <2>1. i \in DOMAIN F
    BY <1>7, <1>9
  <2>2. CASE j \in DOMAIN F
    BY <1>6, <1>7, <1>9, <2>1, <2>2
  <2>3. CASE j = Len(F) + 1
    BY <1>6, <1>7, <2>1, <2>3
  <2> QED BY <1>7, <1>9, <2>2, <2>3
<1> QED BY <1>4, <1>8, <1>9 DEF ArrivedInv, F

(* Any other step.                                                         *)
LEMMA SentGrows ==
  ASSUME IInv, MidInv, ArrivedInv, Frames(mid_arrived)' = Frames(mid_arrived),
         Sent' \in Nat, Sent' >= Sent
  PROVE  ArrivedInv'
<1> DEFINE F == Frames(mid_arrived)
<1>1. F \in Seq(Frame) /\ Sent \in Nat /\ \A f \in Frame : f \in Nat
  BY ArrivedTypes
<1>2. \A i \in DOMAIN F : F[i] \in Nat
  BY <1>1
<1>3. /\ \A i \in DOMAIN F : F[i] < Sent
      /\ \A i, j \in DOMAIN F : i < j => F[i] < F[j]
  BY DEF ArrivedInv
<1>4. F' = F
  OBVIOUS
<1> HIDE DEF F
<1>5. \A i \in DOMAIN F : F[i] < Sent'
  BY <1>1, <1>2, <1>3
<1> QED BY <1>3, <1>4, <1>5 DEF ArrivedInv, F

LEMMA ArrivedInvStep ==
  ASSUME IInv, AllQueued, PipelineInv, PipelineInv', ArrivedInv, [PipelineNext]_pipelineVars
  PROVE  ArrivedInv'
<1>0. /\ Pushers = {"dispatch", "speak"} /\ nullptr \notin Pushers
      /\ mid_flow_pc \in [Pushers -> {"idle", "hook", "signal"}]
      /\ pushed \in Seq(Meta) /\ mid_arrived \in Seq(Meta) /\ Frame \cap Control = {}
      /\ Len(Frames(pushed)) \in Nat
  BY ArrivedTypes, PipelineAssumption DEF Pushers, PipelineInv, LockInv
<1>1. CASE UNCHANGED <<Frames(mid_arrived), pushed, mid_flow_pc>>
           /\ (mid_flow_pc["dispatch"] # "idle" => out_meta' = out_meta)
  <2>1. Sent' = Sent /\ Sent \in Nat
    BY <1>0, <1>1 DEF Sent
  <2> QED BY <1>1, <2>1, SentGrows DEF PipelineInv
<1>2. ASSUME NEW t \in Pushers, NEW m \in Meta, PushBegin(t, m)
      PROVE  ArrivedInv'
  <2>1. CASE t = "dispatch" /\ m \in Frame
    BY <1>2, <2>1, ArrivesNext
  <2>2. CASE t = "speak" \/ m \notin Frame
    <3>1. /\ m \notin Frame /\ pushed' = pushed /\ out_meta' = out_meta
          /\ mid_arrived' = Append(mid_arrived, m)
          /\ mid_flow_pc' = [mid_flow_pc EXCEPT ![t] = "hook"]
          /\ t = "dispatch" => m = out_meta
      BY <1>0, <1>2, <2>2 DEF PushBegin, Pushes, Mid!MetaFlowPush, vars, dispatchVars
    <3>2. Frames(mid_arrived)' = Frames(mid_arrived)
      <4>1. Frames(Append(mid_arrived, m)) = Frames(mid_arrived)
        BY <1>0, <3>1, FramesAppend
      <4> QED BY <3>1, <4>1
    <3>3. Sent' = Sent /\ Sent \in Nat
      <4>1. CASE t = "dispatch"
        BY <1>0, <3>1, <4>1 DEF Sent
      <4>2. CASE t = "speak"
        <5>1. mid_flow_pc'["dispatch"] = mid_flow_pc["dispatch"]
          BY <1>0, <3>1, <4>2
        <5> QED BY <1>0, <3>1, <5>1 DEF Sent
      <4> QED BY <1>0, <4>1, <4>2
    <3> QED BY <3>2, <3>3, SentGrows DEF PipelineInv
  <2> QED BY <1>0, <2>1, <2>2
<1>3. ASSUME NEW t \in Pushers, PushEnd(t)
      PROVE  ArrivedInv'
  <2>1. /\ mid_flow_pc[t] = "signal" /\ mid_flow_pc' = [mid_flow_pc EXCEPT ![t] = "idle"]
        /\ mid_arrived' = mid_arrived /\ Pushed(t, mid_flow_meta[t])
    BY <1>3 DEF PushEnd, Mid!MetaFlowSignal
  <2>2. CASE t = "dispatch"
    <3>1. pushed' = Append(pushed, out_meta) /\ out_meta \in Meta
      BY <2>1, <2>2
      DEF Pushed, DispatchPush, PushMeta, IInv, DispatchInv, HoldsMeta
    <3>2. Frames(pushed)' = IF out_meta \in Frame THEN Append(Frames(pushed), out_meta)
                            ELSE Frames(pushed)
      BY <1>0, <3>1, FramesAppend
    <3>3. Frames(pushed) \in Seq(Frame)
      BY ArrivedTypes DEF PipelineInv
    <3>4. Sent' = Sent /\ Sent \in Nat
      BY <1>0, <2>1, <2>2, <3>2, <3>3 DEF Sent
    <3> QED BY <2>1, <3>4, SentGrows DEF PipelineInv
  <2>3. CASE t = "speak"
    <3>1. mid_flow_meta[t] \in Control
      BY <2>1, <2>3 DEF PipelineInv, CallInv
    <3>2. pushed' = Append(pushed, mid_flow_meta[t]) /\ mid_flow_meta[t] \in Meta \ Frame
      BY <1>0, <2>1, <2>3, <3>1 DEF Pushed, Speak, PushMeta, Meta
    <3>3. Frames(pushed)' = Frames(pushed)
      BY <1>0, <3>2, FramesAppend
    <3>4. mid_flow_pc["dispatch"] = "idle" /\ mid_flow_pc'["dispatch"] = "idle"
      BY <1>0, <2>1, <2>3 DEF PipelineInv, LockInv
    <3>5. Sent' = Sent /\ Sent \in Nat
      BY <1>0, <3>3, <3>4 DEF Sent
    <3> QED BY <2>1, <3>5, SentGrows DEF PipelineInv
  <2> QED BY <1>0, <2>2, <2>3
<1>4. ASSUME NEW t \in Pushers, NEW m \in Meta, PushNobody(t, m)
      PROVE  ArrivedInv'
  <2>1. /\ mid_flow_pc["dispatch"] = "idle" /\ mid_flow_pc' = mid_flow_pc
        /\ mid_arrived' = mid_arrived /\ Pushed(t, m)
    BY <1>0, <1>4 DEF PushNobody, PipelineInv, LockInv, midVars, midInnerVars
  <2>2. \E n \in Meta : pushed' = Append(pushed, n)
    BY <1>4, <2>1 DEF Pushed, DispatchPush, Speak, PushMeta, IInv, DispatchInv, HoldsMeta
  <2>3. PICK n \in Meta : pushed' = Append(pushed, n)
    BY <2>2
  <2>4. Frames(pushed)' = IF n \in Frame THEN Append(Frames(pushed), n) ELSE Frames(pushed)
    BY <1>0, <2>3, FramesAppend
  <2>5. Frames(pushed) \in Seq(Frame)
    BY ArrivedTypes DEF PipelineInv
  <2>6. Sent' >= Sent /\ Sent' \in Nat
    BY <1>0, <2>1, <2>4, <2>5 DEF Sent
  <2> QED BY <2>1, <2>6, SentGrows DEF PipelineInv
<1>5. CASE \E t \in Pushers : PushHook(t)
  <2>1. /\ UNCHANGED <<mid_arrived, pushed, out_meta>>
        /\ mid_flow_pc'["dispatch"] # "idle" <=> mid_flow_pc["dispatch"] # "idle"
    BY <1>0, <1>5 DEF PushHook, Mid!MetaFlowHook, Mid!inVars, vars, dispatchVars
  <2>2. Sent' = Sent /\ Sent \in Nat
    BY <1>0, <2>1 DEF Sent
  <2> QED BY <2>1, <2>2, SentGrows DEF PipelineInv
<1>6. CASE AttachMid \/ DetachMid \/ UNCHANGED pipelineVars
  <2>1. UNCHANGED <<mid_arrived, pushed, mid_flow_pc, out_meta>>
    BY <1>6 DEF AttachMid, DetachMid, SetAttached, pipelineVars, midVars, midInnerVars, vars,
                dispatchVars
  <2> QED BY <1>1, <2>1
<1>7. CASE Own \/ SrcHandle
  <2>1. UNCHANGED <<mid_arrived, mid_flow_pc>>
    BY <1>7 DEF Own, SrcHandle, midVars, midInnerVars
  <2>2. UNCHANGED <<pushed, out_meta>>
    BY <1>7
    DEF Own, Start, StartNotify, OpenGate, NotifyGate, DestroyClose, Deinit, DestroyGate,
        DestroyGateNotify, DeinitAlive, DeinitPush, DeinitSignal, JoinHandle, JoinDispatch,
        ResetPy, dispatchVars, SrcHandle, HandleThread, HandleOpen, HandleLoop, HandleIsOpen,
        HandleKnock, HandleAlive, HandleRead, HandlePush, HandleProcess, HandleSignal,
        HandleDeadPush, HandleDeadSignal, HandleWakesSpuriously
  <2> QED BY <1>1, <2>1, <2>2
<1>8. CASE SrcDispatch
  <2>1. UNCHANGED <<mid_arrived, mid_flow_pc, pushed>>
    BY <1>8 DEF SrcDispatch, midVars, midInnerVars, DispatchLoop, DispatchWait, DispatchFront,
                DispatchLeaving, DispatchPop
  <2>2. mid_flow_pc["dispatch"] # "idle" => dispatch_pc = "push"
    BY DEF PipelineInv, CallInv
  <2>3. dispatch_pc # "push"
    BY <1>8 DEF SrcDispatch, DispatchLoop, DispatchWait, DispatchFront, DispatchLeaving,
                DispatchPop
  <2> QED BY <1>1, <2>1, <2>2, <2>3
<1>9. CASE MidHandle \/ MidDispatch \/ MidDestroy \/ MidDeinit
  <2>1. UNCHANGED <<mid_arrived, mid_flow_pc>>
    BY <1>9, MidHandleStep, MidDispatchStep, MidOwnerStep
    DEF MidHandle, MidDispatch, MidDestroy, MidDeinit,
        MidProofs!Dispatch, MidProofs!Destroy, MidProofs!Deinit, MidProofs!DeinitPush,
        MidProofs!DeinitSignal, MidProofs!JoinHandle, MidProofs!JoinDispatch, MidProofs!flowVars,
        MidProofs!inVars, MidProofs!HandleThread, MidProofs!HandleLoop, MidProofs!HandleWait,
        MidProofs!HandlePop, MidProofs!HandleHandling, MidProofs!HandleControl,
        MidProofs!PendingPush, MidProofs!PendingHandled, MidProofs!PendingSignal,
        MidProofs!FinishControl, MidProofs!HandleFrame, MidProofs!EmitPush,
        MidProofs!EmitHandled, MidProofs!EmitSignal, MidProofs!HandleDeadPush,
        MidProofs!HandleDeadSignal
  <2>2. UNCHANGED <<pushed, out_meta>>
    BY <1>9 DEF MidHandle, MidDispatch, MidDestroy, MidDeinit, vars, dispatchVars
  <2> QED BY <1>1, <2>1, <2>2
<1> QED BY <1>2, <1>3, <1>4, <1>5, <1>6, <1>7, <1>8, <1>9 DEF PipelineNext, Push

(* From the source to behind the next node frames keep their order, and    *)
(* none comes twice: the next node forwards those that arrived, in order.  *)
THEOREM FramesKeepOrderEndToEnd == PipelineSpec => []EndToEndOrder
<1>1. PipelineInit => ArrivedInv
  <2> SUFFICES ASSUME PipelineInit PROVE ArrivedInv
    OBVIOUS
  <2>1. Frames(mid_arrived) = <<>>
    BY FramesEmpty DEF PipelineInit, Mid!Init
  <2> QED BY <2>1 DEF ArrivedInv
<1>2. /\ IInv /\ AllQueued /\ PipelineInv /\ PipelineInv' /\ ArrivedInv
      /\ [PipelineNext]_pipelineVars
      => ArrivedInv'
  BY ArrivedInvStep
<1>3. PipelineInv /\ ArrivedInv => EndToEndOrder
  <2> SUFFICES ASSUME PipelineInv, ArrivedInv PROVE EndToEndOrder
    OBVIOUS
  <2>1. /\ MidProofs!Frames(mid_pushed) \in Seq(Frame)
        /\ MidProofs!Frames(mid_arrived) \in Seq(Frame)
        /\ \A i \in DOMAIN MidProofs!Frames(mid_pushed) :
             /\ i \in DOMAIN MidProofs!Frames(mid_arrived)
             /\ MidProofs!Frames(mid_arrived)[i] = MidProofs!Frames(mid_pushed)[i]
    BY MidAssumptions, MidProofs!ForwardedFirst DEF PipelineInv, MidInv, MidProofs!FifoInv
  <2>2. \A i \in DOMAIN Frames(mid_pushed) :
          i \in DOMAIN Frames(mid_arrived) /\ Frames(mid_arrived)[i] = Frames(mid_pushed)[i]
    BY <2>1, SameFrames
  <2> QED BY <2>2 DEF ArrivedInv, EndToEndOrder
<1> QED BY <1>1, <1>2, <1>3, PipelineInductive, SourceUnaffected, Inductive, QueuedAlways, PTL
        DEF PipelineSpec

===============================================================================
