------------------------------- MODULE Select -------------------------------
(***************************************************************************)
(* One thread that receives from several channels: Select over receivers   *)
(* of any kind, or Multiplex over channels of its own.  Each channel has   *)
(* one sender, which sends, fires the receiving side's registry and at the *)
(* end drops its handle; the other receivers of an mpmc channel may take   *)
(* messages away.  One step is one access to shared memory.                *)
(*                                                                         *)
(* A channel's queue is the number of messages in it (the order within a   *)
(* channel is the business of the queue modules), and senders never wait.  *)
(* The token of a SelectResult is read at once, by the thread that         *)
(* selected.  A receiver is in a Select at most once.                      *)
(***************************************************************************)
EXTENDS Naturals, Sequences, FiniteSets, SequencesExt, FiniteSetsExt

CONSTANTS
  Chans,       \* the channels
  Scenarios,   \* what is selected from, and how: see Scenario
  Nil

INIT == 0
WOKEN == 3
Threads == {1, 2}
SelectOps == {"try_select", "select", "select_timeout"}
MuxOps == {"try_recv", "recv", "recv_timeout"}

(* mode: SelectMode, or Multiplex; kind: the registry of the channel's     *)
(* receivers; shared: the mpmc channels with other receivers; closes: the  *)
(* channels whose sender does not outlive the rest; order: the channels    *)
(* added at the start; more: those that may be added; weight: the argument *)
(* of bounded_tx_with_weight; the others are bounds.                       *)
Scenario(x) ==
  /\ x.mode \in {"RR", "Bias", "Rand", "mux"}
  /\ x.kind \in [Chans -> {"multi", "single", "mux"}]
  /\ \A c \in Chans : x.kind[c] = "mux" <=> x.mode = "mux"
  /\ x.shared \subseteq {c \in Chans : x.kind[c] = "multi"}
  /\ x.closes \subseteq Chans /\ x.more \subseteq Chans
  /\ x.order \in Seq(Chans) /\ IsInjective(x.order)
  /\ x.weight \in [Chans -> Nat \ {0}]
  /\ x.ops \subseteq (IF x.mode = "mux" THEN MuxOps ELSE SelectOps)
  /\ x.msgs \in [Chans -> Nat] /\ x.calls \in Nat /\ x.edits \in Nat

ASSUME SelectAssumption ==
  /\ IsFiniteSet(Chans) /\ Nil \notin Chans
  /\ \A x \in Scenarios : Scenario(x)

VARIABLES
  sc,         \* the scenario; never changes
  q, sent,    \* [Chans -> Nat]: messages in the channel, and sent so far
  open,       \* [Chans -> BOOLEAN]: tx_count is not zero
  spc,        \* [Chans -> label]: the sender
  reg,        \* [Chans -> index or Nil]: the selector, or the WeakCell
  flag,       \* [Chans -> BOOLEAN]: MULTI_HAS_SELECT
  cell, hint, wstate, opened,   \* SelectWaker: cell, hint, state of o_waker
  home,       \* the thread of o_waker, Nil before the first init_blocking
  token,      \* [Threads -> BOOLEAN]: park tokens
  handlers,   \* Seq of [chan, registered]
  next,       \* next_index of Select, last_idx of Multiplex
  cnt,        \* count of Multiplex
  here, calls, edits,           \* the thread the owner is in; bounds
  pc, op, pass, start, at, left, closing,   \* the call in progress
  answer,     \* what the last call answered
  ready,      \* history: channels with a message since the call began
  bypassed    \* history: messages taken elsewhere while the channel had one

chans == <<q, sent, open, spc, reg, flag>>
waker == <<cell, hint, wstate, opened, home, token>>
owner == <<handlers, next, cnt, here, calls, edits>>
call == <<op, pass, start, at, left, closing>>
history == <<answer, ready, bypassed>>
vars == <<sc, chans, waker, owner, pc, call, history>>

Mux == sc.mode = "mux"
Size == Len(handlers)
Added == {handlers[i].chan : i \in 1..Size}
Timed == op \in {"select_timeout", "recv_timeout"}
Wrap(i) == IF i > Size THEN 1 ELSE i
Here == handlers[at].chan

-----------------------------------------------------------------------------
(* Senders: on_send, close_tx and the registry of the receiving side       *)

(* A Multiplex makes its channels.                                         *)
Exists(c) == Mux => c \in Added

SetS(c, l) == spc' = [spc EXCEPT ![c] = l]

Send(c) ==
  /\ spc[c] = "idle" /\ open[c] /\ sent[c] < sc.msgs[c]
  /\ Exists(c) /\ (Mux => pc # "gone")
  /\ q' = [q EXCEPT ![c] = @ + 1]
  /\ sent' = [sent EXCEPT ![c] = @ + 1]
  /\ SetS(c, "fire")
  /\ UNCHANGED <<sc, open, reg, flag, waker, owner, pc, call, history>>

DropTx(c) ==
  /\ spc[c] = "idle" /\ open[c] /\ Exists(c) /\ c \in sc.closes
  /\ open' = [open EXCEPT ![c] = FALSE]
  /\ SetS(c, "close")
  /\ UNCHANGED <<sc, q, sent, reg, flag, waker, owner, pc, call, history>>

(* Another receiver of an mpmc channel takes a message.                    *)
Steal(c) ==
  /\ c \in sc.shared /\ q[c] > 0
  /\ q' = [q EXCEPT ![c] = @ - 1]
  /\ ready' = ready \ {c}
  /\ bypassed' = [bypassed EXCEPT ![c] = IF q[c] = 1 THEN 0 ELSE @]
  /\ UNCHANGED <<sc, sent, open, spc, reg, flag, waker, owner, pc, call, answer>>

(* RegistryMulti::pop_first looks at the flag and then takes the lock,     *)
(* close() takes it at once; RegistrySingle pops its cell; the wrapper of  *)
(* a Multiplex counts a closed channel.                                    *)
Fire(c) ==
  /\ spc[c] \in {"fire", "close"}
  /\ \/ /\ sc.kind[c] = "multi"
        /\ SetS(c, IF spc[c] = "close" \/ flag[c] THEN "lock" ELSE "idle")
        /\ UNCHANGED <<reg, opened>>
     \/ /\ sc.kind[c] = "single"
        /\ SetS(c, IF reg[c] = Nil THEN "idle" ELSE "wake")
        /\ reg' = [reg EXCEPT ![c] = Nil]
        /\ UNCHANGED opened
     \/ /\ Mux
        /\ SetS(c, "pop")
        /\ opened' = IF spc[c] = "close" THEN opened - 1 ELSE opened
        /\ UNCHANGED reg
  /\ UNCHANGED <<sc, q, sent, open, flag, cell, hint, wstate, home, token, owner,
                 pc, call, history>>

(* The section under the lock of a RegistryMulti; close() lowers the flag. *)
Locked(c) == sc.kind[c] = "multi" /\ spc[c] \in {"pop", "hint", "wake", "unpark"}
Done(c) ==
  /\ SetS(c, "idle")
  /\ flag' = IF open[c] THEN flag ELSE [flag EXCEPT ![c] = FALSE]

Lock(c) ==
  /\ spc[c] = "lock"
  /\ IF reg[c] = Nil THEN Done(c) ELSE SetS(c, "pop") /\ UNCHANGED flag
  /\ UNCHANGED <<sc, q, sent, open, reg, waker, owner, pc, call, history>>

(* SelectWakerWrapper::wake: cell.pop, hint.store, ...                     *)
PopCell(c) ==
  /\ spc[c] = "pop"
  /\ cell' = FALSE
  /\ IF cell THEN SetS(c, "hint") /\ UNCHANGED flag ELSE Done(c)
  /\ UNCHANGED <<sc, q, sent, open, reg, hint, wstate, opened, home, token, owner,
                 pc, call, history>>

StoreHint(c) ==
  /\ spc[c] = "hint"
  /\ hint' = reg[c]
  /\ SetS(c, "wake")
  /\ UNCHANGED <<sc, q, sent, open, reg, flag, cell, wstate, opened, home, token,
                 owner, pc, call, history>>

(* ... WakerInner::wake, where Init is the only state to wake from, ...    *)
Wake(c) ==
  /\ spc[c] = "wake"
  /\ wstate' = WOKEN
  /\ IF wstate = INIT THEN SetS(c, "unpark") /\ UNCHANGED flag ELSE Done(c)
  /\ UNCHANGED <<sc, q, sent, open, reg, cell, hint, opened, home, token, owner,
                 pc, call, history>>

(* ... and unpark, of the thread the waker was made in.                    *)
Unpark(c) ==
  /\ spc[c] = "unpark"
  /\ token' = [token EXCEPT ![home] = TRUE]
  /\ Done(c)
  /\ UNCHANGED <<sc, q, sent, open, reg, cell, hint, wstate, opened, home, owner,
                 pc, call, history>>

SenderStep(c) == \/ Fire(c) \/ Lock(c) \/ PopCell(c) \/ StoreHint(c) \/ Wake(c)
                 \/ Unpark(c)

-----------------------------------------------------------------------------
(* Results                                                                 *)

NoAnswer == [what |-> "none", chan |-> Nil]
Answer(what, c) ==
  /\ answer' = [what |-> what, chan |-> c]
  /\ pc' = "idle"

(* A message of the channel at position at; RR goes on behind it, and a    *)
(* Multiplex stays with it for weight - 1 more messages.                   *)
Take(count, index) ==
  /\ q[Here] > 0
  /\ q' = [q EXCEPT ![Here] = @ - 1]
  /\ bypassed' = [c \in Chans |-> IF c \in Added \ {Here} /\ q[c] > 0
                                  THEN bypassed[c] + 1 ELSE 0]
  /\ Answer("message", Here)
  /\ cnt' = count
  /\ next' = index
  /\ UNCHANGED <<sc, sent, open, spc, reg, flag, waker, handlers, here, calls,
                 edits, call, ready>>

After(i) == IF Mux THEN i ELSE IF sc.mode = "RR" THEN i + 1 ELSE next

Count == IF Mux THEN sc.weight[Here] - 1 ELSE cnt

-----------------------------------------------------------------------------
(* A pass over the handlers: _try_select and _try_select_all               *)

Pass(p, from, n) == /\ pass' = p
                    /\ start' = from
                    /\ at' = Wrap(IF Mux THEN from + 1 ELSE from)
                    /\ left' = n

(* Nothing at this position: the next one, or what follows the pass.       *)
PassDone ==
  CASE pass = "cached" -> /\ pc' = "scan" /\ Pass("loop", start, Size)
                          /\ UNCHANGED <<op, closing, answer>>
    [] pass = "loop" -> pc' = "init" /\ UNCHANGED <<call, answer>>
    [] pass = "try" -> /\ Answer(IF closing THEN "disconnected" ELSE "empty", Nil)
                       /\ UNCHANGED call
    [] pass = "final" -> /\ IF closing THEN Answer("disconnected", Nil)
                            ELSE pc' = "park" /\ UNCHANGED answer
                         /\ UNCHANGED call
Miss ==
  /\ IF left > 1
     THEN /\ pc' = "scan"
          /\ at' = Wrap(at + 1) /\ left' = left - 1
          /\ UNCHANGED <<op, pass, start, closing, answer>>
     ELSE PassDone
  /\ UNCHANGED <<sc, chans, waker, owner, ready, bypassed>>

(* ChannelShared::try_select looks whether the channel is closed before it *)
(* looks for a message, in a final check of Select only.                   *)
Checks == ~Mux /\ pass \in {"try", "final"}
Look ==
  /\ pc = "scan"
  /\ IF Checks
     THEN /\ pc' = IF open[Here] THEN "look" ELSE "last"
          /\ UNCHANGED <<sc, chans, waker, owner, call, history>>
     ELSE \/ Take(Count, After(at))
          \/ q[Here] = 0 /\ Miss

LookFinal ==
  /\ pc = "look"
  /\ \/ Take(Count, After(at))
     \/ q[Here] = 0 /\ Miss

(* Mutant: a closed channel is not looked at any more.                     *)
LookClosedAtOnce ==
  /\ pc = "last"
  /\ Answer("closed", Here)
  /\ next' = After(at)
  /\ UNCHANGED <<sc, chans, waker, handlers, cnt, here, calls, edits, call, ready,
                 bypassed>>
(* The null token of a closed channel.                                     *)
LookClosed ==
  /\ pc = "last"
  /\ \/ Take(Count, After(at))
     \/ /\ q[Here] = 0
        /\ Answer("closed", Here)
        /\ next' = After(at)
        /\ UNCHANGED <<sc, chans, waker, handlers, cnt, here, calls, edits, call,
                       ready, bypassed>>

-----------------------------------------------------------------------------
(* Calls                                                                   *)

(* Mutant: a biased pass starts where the last wakeup came from.           *)
BeginHinted ==
  CASE sc.mode = "Bias" -> {Wrap(hint)}
    [] sc.mode = "RR" -> {Wrap(next)}
    [] sc.mode = "Rand" -> 1..Size
(* _try_select_begin                                                       *)
Begin ==
  CASE sc.mode = "Bias" -> {1}
    [] sc.mode = "RR" -> {Wrap(next)}
    [] sc.mode = "Rand" -> 1..Size

StartCall(o) ==
  /\ pc = "idle" /\ calls < sc.calls /\ o \in sc.ops
  /\ calls' = calls + 1
  /\ op' = o
  /\ ready' = {c \in Chans : q[c] > 0}
  /\ UNCHANGED <<sc, chans, waker, handlers, next, cnt, here, edits, bypassed>>

SelectCall(o) ==
  /\ ~Mux /\ StartCall(o)
  /\ IF handlers = <<>>
     THEN Answer("disconnected", Nil) /\ UNCHANGED <<pass, start, at, left, closing>>
     ELSE /\ \E i \in Begin : Pass(IF o = "try_select" THEN "try" ELSE "loop", i, Size)
          /\ pc' = "scan"
          /\ closing' = FALSE
          /\ answer' = NoAnswer

(* recv_timeout is try_recv when its deadline overflows Instant.           *)
TryRecv(o) ==
  /\ Mux /\ StartCall(o) /\ o # "recv" /\ Size > 0
  /\ Pass("try", next, Size)
  /\ closing' = (opened = 0)
  /\ pc' = "scan"
  /\ answer' = NoAnswer

Recv(o) ==
  /\ Mux /\ StartCall(o) /\ o # "try_recv" /\ Size > 0
  /\ at' = next
  /\ pc' = "cached"
  /\ closing' = FALSE
  /\ answer' = NoAnswer
  /\ UNCHANGED <<pass, start, left>>

(* _try_select_cached; try_recv_cached may miss a message.                 *)
Cached ==
  /\ pc = "cached"
  /\ \/ cnt > 0 /\ Take(cnt - 1, next)
     \/ /\ pc' = "scan"
        /\ IF cnt > 0 /\ Size > 1 THEN Pass("cached", next, Size - 1)
           ELSE Pass("loop", next, Size)
        /\ UNCHANGED <<sc, chans, waker, owner, op, closing, history>>

-----------------------------------------------------------------------------
(* Waiting                                                                 *)

(* init_blocking: the waker is made once and reset from then on, ...       *)
ResetInit ==
  /\ pc = "init"
  /\ wstate' = INIT
  /\ home' = IF home = Nil THEN here ELSE home
  /\ pc' = "cell"
  /\ UNCHANGED <<sc, chans, cell, hint, opened, token, owner, call, history>>

(* ... put into the cell, ...                                              *)
FillCell ==
  /\ pc = "cell"
  /\ cell' = TRUE
  /\ pc' = "hint"
  /\ UNCHANGED <<sc, chans, hint, wstate, opened, home, token, owner, call, history>>

(* ... and the hint is reset.  Registration starts at the first handler.   *)
ResetHint ==
  /\ pc = "hint"
  /\ hint' = 1
  /\ IF Mux THEN pc' = "closing" /\ UNCHANGED at ELSE pc' = "reg" /\ at' = 1
  /\ UNCHANGED <<sc, chans, cell, wstate, opened, home, token, owner, op, pass,
                 start, left, closing, history>>

(* Mutant: no final check once all are registered.                         *)
RegWakerParks ==
  /\ pc = "reg" /\ ~Locked(Here)
  /\ reg' = [reg EXCEPT ![Here] = at]
  /\ LET multi == sc.kind[Here] = "multi" IN
     /\ flag' = [flag EXCEPT ![Here] = multi]
     /\ handlers' = [handlers EXCEPT ![at].registered = multi]
  /\ IF at < Size THEN at' = at + 1 /\ UNCHANGED pc
     ELSE pc' = "park" /\ UNCHANGED at
  /\ UNCHANGED <<sc, q, sent, open, spc, waker, next, cnt, here, calls, edits, op,
                 pass, start, left, closing, history>>
(* RecvHandle::reg_waker: a selector stays registered, a cell does not.    *)
RegWaker ==
  /\ pc = "reg" /\ ~Locked(Here)
  /\ IF handlers[at].registered THEN UNCHANGED <<reg, flag, handlers>>
     ELSE /\ reg' = [reg EXCEPT ![Here] = at]
          /\ IF sc.kind[Here] = "multi"
             THEN /\ flag' = [flag EXCEPT ![Here] = TRUE]
                  /\ handlers' = [handlers EXCEPT ![at].registered = TRUE]
             ELSE UNCHANGED <<flag, handlers>>
  /\ IF at < Size
     THEN at' = at + 1 /\ UNCHANGED <<pc, pass, left>>
     ELSE pc' = "scan" /\ pass' = "final" /\ at' = Wrap(start) /\ left' = Size
  /\ UNCHANGED <<sc, q, sent, open, spc, waker, next, cnt, here, calls, edits, op,
                 start, closing, history>>

(* A Multiplex looks at opened_channels before the final pass.             *)
LookOpened ==
  /\ pc = "closing"
  /\ closing' = (opened = 0)
  /\ Pass("final", start, Size)
  /\ pc' = "scan"
  /\ UNCHANGED <<sc, chans, waker, owner, op, history>>

(* Mutant: the loop around park() does not see that it was woken.          *)
ParkStuck ==
  /\ pc = "park" /\ (token[here] \/ Timed)
  /\ token' = [token EXCEPT ![here] = (wstate = WOKEN)]
  /\ UNCHANGED <<sc, chans, cell, hint, wstate, opened, home, owner, pc, call,
                 history>>
(* park() returns on a token; the pass starts at the channel that woke us. *)
Park ==
  /\ pc = "park" /\ (token[here] \/ Timed)
  /\ token' = [token EXCEPT ![here] = FALSE]
  /\ IF wstate = WOKEN THEN pc' = "scan" /\ Pass("loop", hint, Size)
     ELSE UNCHANGED <<pc, pass, start, at, left>>
  /\ UNCHANGED <<sc, chans, cell, hint, wstate, opened, home, owner, op, closing,
                 history>>

Timeout ==
  /\ pc = "park" /\ Timed
  /\ Answer("timeout", Nil)
  /\ UNCHANGED <<sc, chans, waker, owner, call, ready, bypassed>>

-----------------------------------------------------------------------------
(* Changing the set of channels                                            *)

Edit == /\ pc = "idle" /\ edits < sc.edits
        /\ edits' = edits + 1
        /\ answer' = NoAnswer
        /\ bypassed' = [c \in Chans |-> 0]
        /\ UNCHANGED ready

(* Select::add; Multiplex::_add_item, which is opened and becomes the      *)
(* channel looked at last.                                                 *)
Add(c) ==
  /\ Edit /\ c \in sc.more \ Added /\ (Mux => open[c])
  /\ handlers' = Append(handlers, [chan |-> c, registered |-> FALSE])
  /\ IF Mux
     THEN /\ opened' = opened + 1
          /\ reg' = [reg EXCEPT ![c] = Size + 1]
          /\ next' = Size + 1
     ELSE UNCHANGED <<opened, reg, next>>
  /\ UNCHANGED <<sc, q, sent, open, spc, flag, cell, hint, wstate, home, token, cnt,
                 here, calls, pc, call>>

(* cancel_select_waker                                                     *)
Cancel(c) ==
  /\ ~Locked(c)
  /\ IF sc.kind[c] = "multi"
     THEN reg' = [reg EXCEPT ![c] = Nil] /\ flag' = [flag EXCEPT ![c] = FALSE]
     ELSE UNCHANGED <<reg, flag>>

Unregistered(hs) == [i \in DOMAIN hs |-> [hs[i] EXCEPT !.registered = FALSE]]

(* Mutant: the handlers behind the removed one keep their registration.    *)
RemoveRecvKeepsRest(i) ==
  /\ Edit /\ ~Mux
  /\ Cancel(handlers[i].chan)
  /\ handlers' = RemoveAt(handlers, i)
  /\ next' = IF next > Size - 1 THEN 1 ELSE next
  /\ UNCHANGED <<pc, at>>
  /\ UNCHANGED <<sc, q, sent, open, spc, waker, cnt, here, calls, op, pass, start,
                 left, closing>>
(* Select::remove: the others get new indices, so they are all cancelled   *)
(* to be registered again.                                                 *)
RemoveRecv(i) ==
  /\ Edit /\ ~Mux
  /\ Cancel(handlers[i].chan)
  /\ handlers' = Unregistered(RemoveAt(handlers, i))
  /\ next' = IF Size > 1 /\ next > Size - 1 THEN 1 ELSE next
  /\ IF Size > 1 THEN pc' = "cancel" /\ at' = 1 ELSE UNCHANGED <<pc, at>>
  /\ UNCHANGED <<sc, q, sent, open, spc, waker, cnt, here, calls, op, pass, start,
                 left, closing>>

CancelNext ==
  /\ pc = "cancel"
  /\ Cancel(Here)
  /\ IF at < Size THEN at' = at + 1 /\ UNCHANGED pc
     ELSE pc' = (IF op = "drop" THEN "gone" ELSE "idle") /\ UNCHANGED at
  /\ UNCHANGED <<sc, q, sent, open, spc, waker, owner, op, pass, start, left,
                 closing, history>>

(* Select is dropped; a Multiplex closes the receiving side of its         *)
(* channels, which its senders do not wait for.                            *)
DropOwner ==
  /\ pc = "idle"
  /\ op' = "drop"
  /\ IF Mux \/ handlers = <<>> THEN pc' = "gone" /\ UNCHANGED at
     ELSE pc' = "cancel" /\ at' = 1
  /\ UNCHANGED <<sc, chans, waker, owner, pass, start, left, closing, history>>

(* A Multiplex is Send: its owner hands it to another thread, here only as *)
(* long as it has not waited, since o_waker stays with the first thread it *)
(* waited in.                                                              *)
Move ==
  /\ Mux /\ pc = "idle" /\ edits < sc.edits /\ home = Nil
  /\ edits' = edits + 1
  /\ here' = 3 - here
  /\ UNCHANGED <<sc, chans, waker, handlers, next, cnt, calls, pc, call, history>>

-----------------------------------------------------------------------------
Init ==
  /\ sc \in Scenarios
  /\ q = [c \in Chans |-> 0] /\ sent = [c \in Chans |-> 0]
  /\ open = [c \in Chans |-> TRUE]
  /\ spc = [c \in Chans |-> "idle"]
  /\ handlers = [i \in DOMAIN sc.order |-> [chan |-> sc.order[i], registered |-> FALSE]]
  /\ reg = [c \in Chans |-> IF Mux /\ c \in Added
                            THEN CHOOSE i \in 1..Size : handlers[i].chan = c ELSE Nil]
  /\ flag = [c \in Chans |-> FALSE]
  /\ cell = FALSE /\ hint = 1 /\ wstate = INIT /\ home = Nil
  /\ opened = IF Mux THEN Size ELSE 0
  /\ token = [t \in Threads |-> FALSE]
  /\ next = IF Mux /\ Size > 0 THEN Size ELSE 1
  /\ cnt = 0 /\ here = 1 /\ calls = 0 /\ edits = 0
  /\ pc = "idle" /\ op = Nil /\ pass = "loop" /\ start = 1 /\ at = 1 /\ left = 0
  /\ closing = FALSE
  /\ answer = NoAnswer
  /\ ready = {} /\ bypassed = [c \in Chans |-> 0]

(* What goes on inside a call.                                             *)
CallStep == \/ Look \/ LookFinal \/ LookClosed \/ Cached \/ ResetInit \/ FillCell
            \/ ResetHint \/ RegWaker \/ LookOpened \/ Park \/ CancelNext

Terminated == /\ pc = "gone"
              /\ \A c \in Chans : spc[c] = "idle"
              /\ \A c \in sc.closes : Exists(c) => ~open[c]
              /\ UNCHANGED vars

Next ==
  \/ CallStep \/ Timeout \/ DropOwner \/ Move
  \/ \E o \in SelectOps : SelectCall(o)
  \/ \E o \in MuxOps : TryRecv(o) \/ Recv(o)
  \/ \E i \in 1..Size : RemoveRecv(i)
  \/ \E c \in Chans : SenderStep(c) \/ Send(c) \/ DropTx(c) \/ Steal(c) \/ Add(c)
  \/ Terminated

Spec == Init /\ [][Next]_vars

(* The scheduler runs the threads that are inside a call.                  *)
FairSpec == Spec /\ WF_vars(CallStep) /\ \A c \in Chans : WF_vars(SenderStep(c))

-----------------------------------------------------------------------------
(* Properties *)

(* Something a call waits for has happened.                                *)
Ready == IF Mux THEN (\E c \in Added : q[c] > 0) \/ \A c \in Added : ~open[c]
         ELSE \E c \in Added : q[c] > 0 \/ ~open[c]

(* No lost wakeup: once every sender is through, a select or recv that     *)
(* still waits has nothing to wait for any more neither in the channels it *)
(* looked at first nor in those it looked at last.                         *)
NoLostSelect ==
  pc = "park" /\ ~token[here] /\ (\A c \in Chans : spc[c] = "idle")
    => ~Ready

(* A selector that a handler counts on is in the registry of its channel,  *)
(* under the handler's present index, with the flag up as long as somebody *)
(* can send; and a channel that was removed has no selector left.          *)
SelectorsCurrent ==
  ~Mux /\ pc \notin {"cancel", "gone"} =>
    /\ \A i \in 1..Size : handlers[i].registered =>
         /\ reg[handlers[i].chan] = i
         /\ open[handlers[i].chan] => flag[handlers[i].chan]
    /\ \A c \in Chans \ Added : sc.kind[c] = "multi" => reg[c] = Nil

(* Select reports a channel as closed, and Multiplex reports Disconnected, *)
(* only when no message is left and none can come.                         *)
ClosedIsDrained ==
  /\ answer.what = "closed" => ~open[answer.chan] /\ q[answer.chan] = 0
  /\ answer.what = "disconnected" => \A c \in Added : ~open[c] /\ q[c] = 0


(* A biased Select "checks according to the order of add()": it takes no   *)
(* message while a channel added before has had one since the call began.  *)
BiasOrder ==
  sc.mode = "Bias" /\ answer.what = "message" =>
    \A i, j \in 1..Size : i < j /\ handlers[j].chan = answer.chan
                            => handlers[i].chan \notin ready

(* A call that waits when there is something to answer gets out of park(). *)
SelectServed == (pc = "park" /\ Ready) ~> (pc # "park" \/ ~Ready)

=============================================================================
