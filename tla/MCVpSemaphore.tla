----------------------------- MODULE MCVpSemaphore -----------------------------
(* Instances of VpSemaphore for TLC.                                       *)
EXTENDS VpSemaphore

CONSTANTS w1, w2, w3, s1, s2

ThreeWaiters == {w1, w2, w3}
TwoSignalers == {s1, s2}

===============================================================================
