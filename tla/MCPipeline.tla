------------------------------ MODULE MCPipeline ------------------------------
(* Instances of Pipeline for TLC.                                          *)
EXTENDS Pipeline

CONSTANT c1

Indexes == 0..(MaxFrames - 1)
OneControl == {c1}

===============================================================================
