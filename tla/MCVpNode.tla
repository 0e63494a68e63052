------------------------------- MODULE MCVpNode -------------------------------
(* Instances of VpNode for TLC.                                            *)
EXTENDS VpNode

CONSTANTS u1, u2, f1, f2, f3, c1

OneUpstream == {u1}
TwoUpstreams == {u1, u2}
TwoFrames == {f1, f2}
ThreeFrames == {f1, f2, f3}
OneControl == {c1}
NoControl == {}

===============================================================================
