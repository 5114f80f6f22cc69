-------------------------- MODULE OneshotChannel ---------------------------
(***************************************************************************)
(* What a oneshot channel promises, without its implementation: the sender *)
(* decides once, by a send or by leaving; the receiver ends once, with the *)
(* value, with the news that the sender left without one, or by giving up. *)
(***************************************************************************)
VARIABLES sender, receiver

Decide == /\ sender = "open"
          /\ sender' \in {"sent", "left"}
          /\ UNCHANGED receiver

Deliver == /\ receiver = "open" /\ sender = "sent"
           /\ receiver' = "ok"
           /\ UNCHANGED sender

Disconnect == /\ receiver = "open" /\ sender = "left"
              /\ receiver' = "disconnected"
              /\ UNCHANGED sender

GiveUp == /\ receiver = "open"
          /\ receiver' \in {"timeout", "dropped"}
          /\ UNCHANGED sender

Init == sender = "open" /\ receiver = "open"
Next == Decide \/ Deliver \/ Disconnect \/ GiveUp
Spec == Init /\ [][Next]_<<sender, receiver>>
=============================================================================
