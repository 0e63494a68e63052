------------------------------ MODULE MCSafeQueue ------------------------------
(* Instances of SafeQueue for TLC.                                         *)
EXTENDS SafeQueue, TLC

CONSTANTS p1, p2, k1, k2, k3

Producers == {p1, p2}
Consumers == {k1, k2, k3}

===============================================================================
