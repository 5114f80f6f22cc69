----------------------------- MODULE MCChannel -----------------------------
(* Model values, bounds and scenarios for Channel.                         *)
EXTENDS Channel, TLC

CONSTANTS s1, s2, r1, r2, r3, SendBudget, RecvBudget

MCMaxOps == [t \in Threads |-> IF t \in Senders THEN SendBudget ELSE RecvBudget]

(* Everybody takes part from the first call on.                            *)
MCAll == {[t \in Threads |-> 0]}

(* The first message of s1 fills the queue, so that two senders block at   *)
(* the same time.                                                          *)
MCFillerOps == [MCMaxOps EXCEPT ![s1] = @ + 1]
MCAbsent == [t \in Threads |-> MCFillerOps[t] + 1]
(* Two receivers and a message of s1, two senders and r1, or s1 and r1.    *)
MCTwoToOne == {[MCAbsent EXCEPT ![s1] = 1, ![r1] = 0, ![r2] = 0],
               [MCAbsent EXCEPT ![s1] = 0, ![s2] = 0, ![r1] = 0],
               [MCAbsent EXCEPT ![s1] = 0, ![r1] = 0]}
(* Two receivers, or two senders, where the others have made their calls.  *)
MCFewCalls == {[MCFillerOps EXCEPT ![s1] = 1, ![r1] = 0, ![r2] = 0],
               [MCFillerOps EXCEPT ![s1] = 0, ![s2] = 0, ![r1] = 0]}

Symmetry == Permutations(Senders) \cup Permutations(Receivers)
ReceiverSymmetry == Permutations(Receivers)
=============================================================================
