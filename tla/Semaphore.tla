------------------------------- MODULE Semaphore -------------------------------
(***************************************************************************)
(* A counting semaphore as its users see it: a thread that called wait     *)
(* returns when it takes one count.  This is what NodeDispatch, VpNode and *)
(* VpSrcNode assume of in_queue_semaphore and out_queue_semaphore when     *)
(* they make a wait one step that is enabled while the count is positive.  *)
(***************************************************************************)
EXTENDS Naturals

CONSTANTS
  Waiter,   \* threads that call wait
  MaxCount  \* bound on the count

VARIABLES
  count,   \* signals that nobody has taken yet
  waiting  \* threads that are inside wait

Call(w) ==
  /\ w \notin waiting
  /\ waiting' = waiting \cup {w}
  /\ UNCHANGED count

Acquire(w) ==
  /\ w \in waiting
  /\ count > 0
  /\ count' = count - 1
  /\ waiting' = waiting \ {w}

Signal ==
  /\ count < MaxCount
  /\ count' = count + 1
  /\ UNCHANGED waiting

Reset ==
  /\ count' = 0
  /\ UNCHANGED waiting

Init ==
  /\ count = 0
  /\ waiting = {}

Next ==
  \/ \E w \in Waiter : Call(w) \/ Acquire(w)
  \/ Signal
  \/ Reset

Spec == Init /\ [][Next]_<<count, waiting>>

(* While there is a count and a thread waits for it, one will get it.      *)
FairSpec == Spec /\ WF_<<count, waiting>>(\E w \in Waiter : Acquire(w))

===============================================================================
