-------------------------------- MODULE Fifo --------------------------------
(***************************************************************************)
(* What every queue of the crate promises to the channel above it: a first *)
(* in first out queue whose calls take effect in one step.  answer[t] is   *)
(* the effect of the call of thread t: None before it takes effect.        *)
(*                                                                         *)
(* "full" and "empty" are exact at the step in which they are found out;   *)
(* "unsure" is the answer that promises nothing (None of try_push_oneshot  *)
(* and of a pop from the cached index, false of is_full and is_empty).     *)
(***************************************************************************)
EXTENDS Naturals, Sequences

CONSTANTS Threads,     \* the callers
          Msgs,        \* the messages they push
          None         \* no effect yet

VARIABLES cap,         \* the capacity of the queue, which never changes
          items,       \* the messages of the queue, the oldest first
          answer,      \* the effect of each thread's call
          dropped      \* None, or what was left when the queue was dropped

Init == /\ cap \in Nat \ {0} /\ items = <<>> /\ dropped = None
        /\ answer = [t \in Threads |-> None]

Answer(t, a) == answer' = [answer EXCEPT ![t] = a]

\* Queue::push, and its two answers.
Push(t, m) == /\ Len(items) < cap
              /\ items' = Append(items, m)
              /\ Answer(t, <<"pushed", m>>)

Full(t) == Len(items) = cap /\ Answer(t, <<"full">>) /\ UNCHANGED items

\* Queue::pop, and its two answers.
Pop(t) == /\ items # <<>>
          /\ items' = Tail(items)
          /\ Answer(t, <<"popped", Head(items)>>)

Empty(t) == items = <<>> /\ Answer(t, <<"empty">>) /\ UNCHANGED items

Unsure(t) == Answer(t, <<"unsure">>) /\ UNCHANGED items

\* The call is over, or a new one begins.
Forget(t) == Answer(t, None) /\ UNCHANGED items

\* Drop of the queue, with what is still in it.
Drop == /\ dropped' = {items[i] : i \in 1 .. Len(items)}
        /\ items' = <<>> /\ UNCHANGED answer

Next == /\ dropped = None /\ UNCHANGED cap
        /\ \/ /\ \E t \in Threads :
                   /\ answer'[t] # answer[t]
                   /\ \/ \E m \in Msgs : Push(t, m)
                      \/ Full(t) \/ Pop(t) \/ Empty(t) \/ Unsure(t) \/ Forget(t)
              /\ UNCHANGED dropped
           \/ Drop

Spec == Init /\ [][Next]_<<cap, items, answer, dropped>>
=============================================================================
