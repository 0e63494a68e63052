------------------------------ MODULE MCTopology ------------------------------
(* Instances of Topology for TLC.                                          *)
EXTENDS Topology

CONSTANTS s, a, b, dispatch, speak, f1, c1

Nodes == {s, a, b}
SrcNodes == {s}
NoNodes == {}

(* Two threads push for the source.                                        *)
Pushers == {dispatch, speak}
PushersOf == [p \in Pushers |-> s]
Metas == {f1, c1}
Pushes == [p \in Pushers |-> IF p = dispatch THEN {f1} ELSE {c1}]

(* One link or two, the same link twice, and a link that closes a cycle.   *)
Lists == [n \in Nodes |-> IF n = s THEN {} ELSE IF n = a THEN {<<s>>, <<b>>} ELSE {<<s, a>>}]

===============================================================================
