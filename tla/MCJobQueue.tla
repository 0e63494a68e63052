------------------------------ MODULE MCJobQueue ------------------------------
(* Instances of JobQueue for TLC.                                          *)
EXTENDS JobQueue

CONSTANTS p1, p2, c1, c2, j1, j2, j3, j4, j5, j6

TwoProducers == {p1, p2}
TwoConsumers == {c1, c2}
SixJobs == {j1, j2, j3, j4, j5, j6}
OneTwoThree == {<<j1>>, <<j2, j3>>, <<j4, j5, j6>>}
OneOrTwo == {1, 2}

===============================================================================
