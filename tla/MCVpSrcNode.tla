------------------------------ MODULE MCVpSrcNode ------------------------------
(* Instances of VpSrcNode for TLC.                                         *)
EXTENDS VpSrcNode

CONSTANT c1

Indexes == 0..(MaxFrames - 1)
OneControl == {c1}

===============================================================================
