---------------------------- MODULE MCWaitGroup ----------------------------
(* Model values for WaitGroup.                                             *)
EXTENDS WaitGroup

CONSTANTS a, b, g1, g2
=============================================================================
