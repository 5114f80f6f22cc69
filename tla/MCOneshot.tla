----------------------------- MODULE MCOneshot -----------------------------
(* Model values for Oneshot: two tasks, so that a poll can come from a     *)
(* task other than the one whose waker is set.                             *)
EXTENDS Oneshot, TLC

CONSTANTS a, b
=============================================================================
