---------------------------- MODULE MCFileOperations ----------------------------
(* Instances of FileOperations for TLC: two identities for the worker and the *)
(* publisher, so that a second one could run beside the first or overtake it.  *)
EXTENDS FileOperations

CONSTANTS h1, w1, w2, n1, n2

OneHandler == {h1}
TwoWorkers == {w1, w2}
TwoNotifiers == {n1, n2}
=============================================================================
