----------------------------- MODULE FrameChannel -----------------------------
(***************************************************************************)
(* What a node of the pipeline promises about frames, whatever its threads *)
(* and queues: it forwards the frames it accepted, each once, in the order *)
(* in which it accepted them.                                              *)
(***************************************************************************)
EXTENDS Naturals, Sequences

CONSTANT Frame

VARIABLES
  accepted,  \* frames accepted so far, in order
  forwarded  \* frames forwarded so far, in order

Accept(f) ==
  /\ \A i \in DOMAIN accepted : accepted[i] # f
  /\ accepted' = Append(accepted, f)
  /\ UNCHANGED forwarded

Forward ==
  /\ Len(forwarded) < Len(accepted)
  /\ forwarded' = Append(forwarded, accepted[Len(forwarded) + 1])
  /\ UNCHANGED accepted

Init ==
  /\ accepted = <<>>
  /\ forwarded = <<>>

Next == Forward \/ \E f \in Frame : Accept(f)

Spec == Init /\ [][Next]_<<accepted, forwarded>>

===============================================================================
