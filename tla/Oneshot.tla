------------------------------ MODULE Oneshot ------------------------------
(***************************************************************************)
(* The oneshot channel: one allocation shared by a TxOneshot and an        *)
(* RxOneshot, an atomic byte of flags that decides who may touch the value *)
(* and the waker, who frees the allocation, and how the receiver is woken. *)
(* One step is one access to shared memory.                                *)
(***************************************************************************)
EXTENDS Naturals

CONSTANTS
  Tasks,      \* the task contexts the receiver may be polled from
  Thread,     \* the waker of the thread in recv() or recv_timeout()
  MixModes,   \* may recv() or recv_timeout() follow a poll that was Pending?
  Nil

ASSUME OneshotAssumption ==
  /\ Thread \notin Tasks
  /\ Nil \notin Tasks \cup {Thread}
  /\ MixModes \in BOOLEAN

Flags == {"LOCK", "WAKER_SET", "CLOSE", "EXIST"}
ThinWaker == Tasks \cup {Thread}

VARIABLES
  state,      \* OneShotInner.state, the set of flags that are up
  value,      \* is OneShotInner.value Some?
  o_waker,    \* OneShotInner.o_waker, Nil for None
  frees,      \* how often the allocation was given back
  notified,   \* the wakers wake_by_ref was called on and not yet consumed
  tx, exist, old_state,      \* the sender: control point and locals
  rx, rx_state, ctx,         \* the receiver: control point and locals
  timed,      \* the blocking call in progress has a deadline
  pending,    \* the task whose last poll returned Pending, or Nil
  sent, got,  \* history: send was called; the receiver took the value
  lost,       \* history: the value was dropped together with the allocation
  result      \* what the receiver was told, "open" while it still asks

mem == <<state, value, o_waker, frees, lost>>
txVars == <<tx, exist, old_state, sent>>
rxVars == <<rx, rx_state, ctx, timed, pending, got, result>>
vars == <<mem, notified, txVars, rxVars>>

Free ==
  /\ frees' = frees + 1
  /\ lost' = (lost \/ value)
  /\ value' = FALSE
  /\ UNCHANGED <<state, o_waker>>

(* LOCK_FLAG, one more flag, and EXIST_FLAG if a value comes with it.      *)
Locked(flag) == {"LOCK", flag} \cup (IF exist THEN {"EXIST"} ELSE {})

-----------------------------------------------------------------------------
(* TxOneshot *)

Send ==
  /\ tx = "open"
  /\ value' = TRUE /\ sent' = TRUE /\ exist' = TRUE
  /\ tx' = "notify"
  /\ UNCHANGED <<state, o_waker, frees, lost, old_state, notified, rxVars>>

DropTx ==
  /\ tx = "open"
  /\ tx' = "notify"
  /\ UNCHANGED <<mem, exist, old_state, sent, notified, rxVars>>

(* _notify_rx: the compare-exchange loop on the state it believes in.      *)
NewState ==
  IF old_state = {} THEN Locked("CLOSE") ELSE Locked("WAKER_SET")

NotifyRx ==
  /\ tx = "notify"
  /\ \/ /\ old_state \in {{}, {"WAKER_SET"}}
        /\ state = old_state
        /\ state' = NewState
        /\ tx' = IF old_state = {} THEN "done" ELSE "wake"
        /\ UNCHANGED old_state
     \/ /\ old_state \in {{}, {"WAKER_SET"}}
        /\ state # old_state
        /\ old_state' = state
        /\ UNCHANGED <<state, tx>>
     \/ /\ "CLOSE" \in old_state
        /\ tx' = "free"
        /\ UNCHANGED <<state, old_state>>
     \/ /\ old_state \notin {{}, {"WAKER_SET"}} /\ "CLOSE" \notin old_state
        /\ tx' = "panic"
        /\ UNCHANGED <<state, old_state>>
  /\ UNCHANGED <<value, o_waker, frees, lost, exist, sent, notified, rxVars>>

(* The waker is read, never moved, and woken.                              *)
WakeRx ==
  /\ tx = "wake"
  /\ IF o_waker = Nil THEN tx' = "panic" /\ UNCHANGED notified
     ELSE tx' = "release" /\ notified' = notified \cup {o_waker}
  /\ UNCHANGED <<mem, exist, old_state, sent, rxVars>>

(* Mutant: the result of the compare-exchange is ignored.                  *)
ReleaseBlind ==
  /\ tx = "release"
  /\ state' = IF state = NewState THEN Locked("CLOSE") ELSE state
  /\ tx' = "done"
  /\ UNCHANGED <<value, o_waker, frees, lost, exist, old_state, sent, notified,
                 rxVars>>
(* Give up the waker; whoever closes second frees.                         *)
Release ==
  /\ tx = "release"
  /\ IF state = NewState
     THEN /\ state' = Locked("CLOSE")
          /\ tx' = "done"
     ELSE /\ tx' = IF "CLOSE" \in state THEN "free" ELSE "panic"
          /\ UNCHANGED state
  /\ UNCHANGED <<value, o_waker, frees, lost, exist, old_state, sent, notified,
                 rxVars>>

FreeByTx ==
  /\ tx = "free"
  /\ Free
  /\ tx' = "done"
  /\ UNCHANGED <<exist, old_state, sent, notified, rxVars>>

-----------------------------------------------------------------------------
(* RxOneshot *)

RxFrame == UNCHANGED <<notified, txVars>>

Consume(s) == rx' = "consume" /\ rx_state' = s

(* try_recv of a receiver that still has its pointer.                      *)
TryRecv ==
  /\ rx = "idle"
  /\ IF "LOCK" \in state THEN Consume(state) /\ pending' = Nil
     ELSE UNCHANGED <<rx, rx_state, pending>>
  /\ UNCHANGED <<mem, ctx, timed, got, result>>
  /\ RxFrame

(* poll from task c, as Future::poll and in OneshotTimeoutFuture.          *)
PollRx(c) ==
  /\ rx = "idle"
  /\ ctx' = c
  /\ notified' = notified \ {c}
  /\ \/ "LOCK" \in state /\ Consume(state) /\ pending' = Nil
     \/ /\ "LOCK" \notin state /\ "WAKER_SET" \in state
        /\ \/ o_waker = c /\ pending' = c /\ UNCHANGED rx
           \/ o_waker # c /\ rx' = "cancel_poll" /\ pending' = Nil
        /\ UNCHANGED rx_state
     \/ /\ "LOCK" \notin state /\ "WAKER_SET" \notin state
        /\ rx' = "put_waker" /\ pending' = Nil
        /\ UNCHANGED rx_state
  /\ UNCHANGED <<mem, timed, got, result, txVars>>

(* Mutant: the result of the compare-exchange is ignored.                  *)
CancelPollBlind ==
  /\ rx = "cancel_poll"
  /\ state' = IF state = {"WAKER_SET"} THEN {} ELSE state
  /\ rx' = "put_waker"
  /\ UNCHANGED <<value, o_waker, frees, lost, rx_state, ctx, timed, pending, got,
                 result>>
  /\ RxFrame
(* cancel_waker(false): take the old waker back before setting a new one.  *)
CancelPoll ==
  /\ rx = "cancel_poll"
  /\ \/ state = {"WAKER_SET"} /\ state' = {} /\ rx' = "put_waker" /\ UNCHANGED rx_state
     \/ state # {"WAKER_SET"} /\ Consume(state) /\ UNCHANGED state
  /\ UNCHANGED <<value, o_waker, frees, lost, ctx, timed, pending, got, result>>
  /\ RxFrame

(* Mutant: the waker is published before it is written.                    *)
PutWakerForgets ==
  /\ rx = "put_waker"
  /\ rx' = "set_waker"
  /\ UNCHANGED <<mem, rx_state, ctx, timed, pending, got, result>>
  /\ RxFrame
(* set_waker: the plain write of the cell, ...                             *)
PutWaker ==
  /\ rx = "put_waker"
  /\ o_waker' = ctx
  /\ rx' = "set_waker"
  /\ UNCHANGED <<state, value, frees, lost, rx_state, ctx, timed, pending, got,
                 result>>
  /\ RxFrame

(* Mutant: the result of the compare-exchange is ignored.                  *)
SetWakerBlind ==
  /\ rx = "set_waker"
  /\ state' = IF state = {} THEN {"WAKER_SET"} ELSE state
  /\ IF ctx = Thread THEN rx' = "check" /\ UNCHANGED pending
     ELSE rx' = "idle" /\ pending' = ctx
  /\ UNCHANGED <<value, o_waker, frees, lost, rx_state, ctx, timed, got, result>>
  /\ RxFrame
(* ... and the compare-exchange that publishes it.                         *)
SetWaker ==
  /\ rx = "set_waker"
  /\ \/ /\ state = {}
        /\ state' = {"WAKER_SET"}
        /\ IF ctx = Thread THEN rx' = "check" /\ UNCHANGED pending
           ELSE rx' = "idle" /\ pending' = ctx
        /\ UNCHANGED rx_state
     \/ state # {} /\ Consume(state) /\ UNCHANGED <<state, pending>>
  /\ UNCHANGED <<value, o_waker, frees, lost, ctx, timed, got, result>>
  /\ RxFrame

(* recv and recv_timeout; the calls consume the receiver.                  *)
RecvBlocking ==
  /\ rx = "idle"
  /\ MixModes \/ pending = Nil
  /\ timed' \in BOOLEAN
  /\ ctx' = Thread
  /\ pending' = Nil
  /\ IF "LOCK" \in state THEN Consume(state)
     ELSE rx' = "put_waker" /\ UNCHANGED rx_state
  /\ UNCHANGED <<mem, got, result>>
  /\ RxFrame

(* Mutant: only a value ends the loop, a sender that left does not.        *)
CheckRxForValue ==
  /\ rx = "check"
  /\ IF {"LOCK", "EXIST"} \subseteq state THEN Consume(state)
     ELSE rx' = (IF "LOCK" \in state THEN "check" ELSE "park") /\ UNCHANGED rx_state
  /\ UNCHANGED <<mem, ctx, timed, pending, got, result>>
  /\ RxFrame
(* The park loop: look, then sleep until unparked or out of time.          *)
CheckRx ==
  /\ rx = "check"
  /\ IF "LOCK" \in state THEN Consume(state)
     ELSE rx' = "park" /\ UNCHANGED rx_state
  /\ UNCHANGED <<mem, ctx, timed, pending, got, result>>
  /\ RxFrame

(* park() returns on the token, park_timeout() also when time is up.       *)
Unparked ==
  /\ rx = "park"
  /\ Thread \in notified \/ timed
  /\ notified' = notified \ {Thread}
  /\ rx' = "check"
  /\ UNCHANGED <<mem, txVars, rx_state, ctx, timed, pending, got, result>>

(* Mutant: a late deadline is reported as well as the value.               *)
ExpireAnswers ==
  /\ rx = "park"
  /\ timed
  /\ result' = "timeout"
  /\ \/ /\ state = {"WAKER_SET"}
        /\ state' = {"CLOSE"}
        /\ rx' = "done"
        /\ UNCHANGED rx_state
     \/ /\ state # {"WAKER_SET"}
        /\ Consume(state)
        /\ UNCHANGED state
  /\ UNCHANGED <<value, o_waker, frees, lost, ctx, timed, pending, got>>
  /\ RxFrame
(* The deadline has passed: cancel_waker(true) closes, unless it is late.  *)
Expire ==
  /\ rx = "park"
  /\ timed
  /\ \/ /\ state = {"WAKER_SET"}
        /\ state' = {"CLOSE"}
        /\ rx' = "done" /\ result' = "timeout"
        /\ UNCHANGED rx_state
     \/ /\ state # {"WAKER_SET"}
        /\ Consume(state)
        /\ UNCHANGED <<state, result>>
  /\ UNCHANGED <<value, o_waker, frees, lost, ctx, timed, pending, got>>
  /\ RxFrame

(* Mutant: the value is copied out and not taken.                          *)
TakeValueCopies ==
  /\ rx = "consume"
  /\ got' = ("EXIST" \in rx_state /\ value)
  /\ result' = IF got' THEN "ok" ELSE "disconnected"
  /\ rx' = "close"
  /\ UNCHANGED <<mem, rx_state, ctx, timed, pending>>
  /\ RxFrame
(* _consume_value: take the value, ...                                     *)
TakeValue ==
  /\ rx = "consume"
  /\ got' = ("EXIST" \in rx_state /\ value)
  /\ value' = (value /\ "EXIST" \notin rx_state)
  /\ result' = IF got' THEN "ok" ELSE "disconnected"
  /\ rx' = "close"
  /\ UNCHANGED <<state, o_waker, frees, lost, rx_state, ctx, timed, pending>>
  /\ RxFrame

(* ... then close, or free if the sender has closed first.                 *)
CloseRx ==
  /\ rx = "close"
  /\ \/ "CLOSE" \in rx_state /\ rx' = "free" /\ UNCHANGED <<state, rx_state>>
     \/ /\ "CLOSE" \notin rx_state /\ state = rx_state
        /\ state' = state \cup {"CLOSE"}
        /\ rx' = "done"
        /\ UNCHANGED rx_state
     \/ /\ "CLOSE" \notin rx_state /\ state # rx_state
        /\ rx_state' = state
        /\ UNCHANGED <<state, rx>>
  /\ UNCHANGED <<value, o_waker, frees, lost, ctx, timed, pending, got, result>>
  /\ RxFrame

FreeByRx ==
  /\ rx = "free"
  /\ Free
  /\ rx' = "done"
  /\ UNCHANGED <<rx_state, ctx, timed, pending, got, result>>
  /\ RxFrame

(* Drop of the receiver, or of the future that owns it.                    *)
DropRx ==
  /\ rx = "idle"
  /\ state' = state \cup {"CLOSE"}
  /\ rx_state' = state
  /\ rx' = IF "CLOSE" \in state THEN "free" ELSE "done"
  /\ result' = "dropped"
  /\ pending' = Nil
  /\ UNCHANGED <<value, o_waker, frees, lost, ctx, timed, got>>
  /\ RxFrame

-----------------------------------------------------------------------------
Init ==
  /\ state = {} /\ value = FALSE /\ o_waker = Nil /\ frees = 0
  /\ notified = {}
  /\ tx = "open" /\ exist = FALSE /\ old_state = {}
  /\ rx = "idle" /\ rx_state = {} /\ ctx = Nil /\ timed = FALSE
  /\ pending = Nil
  /\ sent = FALSE /\ got = FALSE /\ lost = FALSE /\ result = "open"

TxStep == NotifyRx \/ WakeRx \/ Release \/ FreeByTx

RxCallStep == \/ CancelPoll \/ PutWaker \/ SetWaker \/ CheckRx \/ Unparked
              \/ TakeValue \/ CloseRx \/ FreeByRx

Terminated == tx = "done" /\ rx = "done" /\ UNCHANGED vars

Next == \/ Send \/ DropTx \/ TxStep
        \/ TryRecv \/ RecvBlocking \/ DropRx \/ Expire
        \/ \E c \in Tasks : PollRx(c)
        \/ RxCallStep
        \/ Terminated

Spec == Init /\ [][Next]_vars

(* Threads inside a call run on, and an executor polls a task it was asked *)
(* to wake.  Nobody has to send, to drop, to call recv or to time out.     *)
Fairness == /\ WF_vars(TxStep) /\ WF_vars(RxCallStep)
            /\ WF_vars(\E c \in notified \cap Tasks : PollRx(c))
FairSpec == Spec /\ Fairness

-----------------------------------------------------------------------------
(* Properties *)

(* The type of every variable.                                             *)
TypeOK ==
  /\ state \subseteq Flags
  /\ value \in BOOLEAN
  /\ o_waker \in ThinWaker \cup {Nil}
  /\ frees \in Nat
  /\ notified \subseteq ThinWaker
  /\ tx \in {"open", "notify", "wake", "release", "free", "done", "panic"}
  /\ exist \in BOOLEAN
  /\ old_state \subseteq Flags
  /\ rx \in {"idle", "cancel_poll", "put_waker", "set_waker", "check", "park",
             "consume", "close", "free", "done"}
  /\ rx_state \subseteq Flags
  /\ ctx \in ThinWaker \cup {Nil}
  /\ timed \in BOOLEAN
  /\ pending \in Tasks \cup {Nil}
  /\ sent \in BOOLEAN /\ got \in BOOLEAN /\ lost \in BOOLEAN
  /\ result \in {"open", "ok", "disconnected", "timeout", "dropped"}

(* The allocation is given back exactly once, by whoever closes second:    *)
(* never while the other end may still look at it, and always once both    *)
(* ends are through (send, drop, recv, recv_timeout, poll, try_recv).      *)
FreedOnce ==
  /\ frees = (IF tx = "done" /\ rx = "done" THEN 1 ELSE 0)
  /\ ~(tx = "free" /\ rx = "free")

(* A value that was sent is in the allocation, with the receiver, or gone  *)
(* with the allocation, and in one of these places only.                   *)
ValueConserved ==
  /\ sent <=> value \/ got \/ lost
  /\ ~(value /\ got) /\ ~(value /\ lost) /\ ~(got /\ lost)

(* The receiver learns the truth: Ok only with a value, Disconnected only  *)
(* when the sender was dropped without sending.                            *)
HonestResult ==
  /\ result = "ok" => sent /\ got
  /\ result = "disconnected" => ~sent /\ tx # "open"

(* The debug_assert of _consume_value: it is entered with LOCK_FLAG seen.  *)
ConsumeLocked == rx = "consume" => "LOCK" \in rx_state

(* The other assertions of the file: _notify_rx meets no unexpected state  *)
(* and always finds the waker, and the receiver's drop finds one of the    *)
(* states its debug_asserts list.                                          *)
NoUnexpectedState ==
  /\ tx # "panic"
  /\ result = "dropped" =>
       IF "CLOSE" \in rx_state
       THEN rx_state \ {"EXIST"} = {"CLOSE", "LOCK"}
       ELSE \/ rx_state \in {{}, {"WAKER_SET"}}
            \/ rx_state \cup {"EXIST"} = {"EXIST", "LOCK", "WAKER_SET"}

(* The plain cell o_waker is never written by set_waker while the sender   *)
(* reads it in _notify_rx.                                                 *)
WakerExclusive == ~(tx = "wake" /\ rx = "put_waker")

(* No lost wakeup: once the sender is through, a receiver that was told    *)
(* Pending, or is parked, has been notified, through the waker of its last *)
(* poll and not of an earlier one.                                         *)
WaiterNotified ==
  tx \in {"free", "done"} =>
    /\ rx = "idle" /\ pending # Nil => pending \in notified
    /\ rx = "park" => Thread \in notified

(* The implementation does what the abstract channel promises: the sender  *)
(* decides when LOCK_FLAG goes up, or when it finds the receiver gone.     *)
Decided == tx \in {"wake", "release", "free", "done"}
Sender == IF ~Decided THEN "open" ELSE IF sent THEN "sent" ELSE "left"
Abstract == INSTANCE OneshotChannel WITH sender <- Sender, receiver <- result
AbstractSpec == Abstract!Spec

(* Once the sender has sent or left, a receiver that waits gets its        *)
(* answer: one blocked in recv or recv_timeout, and one that was Pending.  *)
RecvAnswered == (Decided /\ (rx = "park" \/ pending # Nil)) ~> (result # "open")

=============================================================================
