------------------------------ MODULE Channel ------------------------------
(***************************************************************************)
(* The waiting protocol of a blocking multi-producer multi-consumer        *)
(* channel: ChannelShared over an atomic bounded FIFO, one RegistryMulti   *)
(* per side, the WakerInner state machine, and the blocking calls of Tx    *)
(* and Rx (send, send_timeout, try_send, recv, recv_timeout, try_recv,     *)
(* drop).  One step is one access to shared memory, or one section under   *)
(* the registry's mutex, by one thread.                                    *)
(*                                                                         *)
(* The queue is abstracted to an atomic FIFO: a push or a pop is one       *)
(* atomic step.  Retries of a failed push or pop inside a backoff loop     *)
(* are the same step taken later, so a loop is one step here.              *)
(***************************************************************************)
EXTENDS Naturals, Sequences, FiniteSets, Functions, FiniteSetsExt

CONSTANTS
  Senders, Receivers,   \* threads, each holding one clone of the handle
  Cap,                  \* capacity of the queue
  Ids,                  \* waker allocations alive at once, per thread (bound)
  SendOps, RecvOps,     \* the calls the threads make
  MaxOps,               \* calls a thread makes before it only drops (bound)
  Starts,               \* scenarios: the calls each thread has made at the start
  Uncertain,            \* may try_send_oneshot answer None? (Array flavours)
  Nil

ASSUME ChannelAssumption ==
  /\ IsFiniteSet(Senders) /\ IsFiniteSet(Receivers)
  /\ Senders \cap Receivers = {}
  /\ Cap \in Nat \ {0}
  /\ Ids \subseteq Nat
  /\ SendOps \subseteq {"send", "send_timeout", "try_send"}
  /\ RecvOps \subseteq {"recv", "recv_timeout", "try_recv"}
  /\ Nil \notin (Senders \cup Receivers) \X Ids
  /\ MaxOps \in [Senders \cup Receivers -> Nat]
  /\ Starts \subseteq [Senders \cup Receivers -> Nat]
  /\ Uncertain \in BOOLEAN

Threads == Senders \cup Receivers
Sides == {"tx", "rx"}
Side(t) == IF t \in Senders THEN "tx" ELSE "rx"
Other(side) == IF side = "tx" THEN "rx" ELSE "tx"

(* WakerState *)
INIT == 0
WAITING == 1
WOKEN == 3
CLOSED == 4
WakerStates == {INIT, WAITING, WOKEN, CLOSED}

(* A waker is an allocation <<thread it unparks, identity>>. *)
Wakers == Threads \X Ids
Messages == Senders \X Nat

VARIABLES
  queue,      \* inner: messages in flight, oldest first
  count,      \* [Sides -> Nat]: tx_count, rx_count
  reg,        \* [Sides -> Seq(Wakers)]: RegistryMultiInner.queue
  regSeq,     \* [Sides -> Nat]: RegistryMultiInner.seq
  hasWaker,   \* [Sides -> BOOLEAN]: MULTI_HAS_WAKER bit of RegistryMulti.state
  state,      \* [Wakers -> WakerStates]: WakerInner.state
  seq,        \* [Wakers -> Nat]: WakerInner.seq
  unparked,   \* [Threads -> BOOLEAN]: the thread's park token
  pc, op, nops,
  own,        \* o_waker of the call in progress, or Nil
  seen,       \* local `state` of the call in progress
  held,       \* the waker a fire() has popped, or Nil
  last,       \* last_seq of fire(), Nil when pop_first returned no more
  again,      \* fire() is past its first waker
  ret,        \* where the thread continues after fire() or _clear_wakers()
  target,     \* the side whose registry fire() works on
  accepted, rejected, taken,  \* history: messages by the fate of their call
  disconnected                \* history: receivers told Disconnected

waits == <<reg, regSeq, hasWaker, state, seq, unparked>>
firing == <<held, last, again, target>>
history == <<accepted, rejected, taken, disconnected>>
vars == <<queue, count, waits, pc, op, nops, own, seen, firing, ret, history>>

(* A queue entry is a Weak: it upgrades while its call, or a fire() that    *)
(* popped it, holds the Arc.                                               *)
Alive(w) == own[w[1]] = w \/ \E f \in Threads : held[f] = w

(* A fresh allocation for thread t: one that nobody references.  Ids       *)
(* bounds how many there are; a call without a waker needs a free one.     *)
InUse(w) == Alive(w) \/ \E side \in Sides : w \in Range(reg[side])
NewWaker(t) == <<t, CHOOSE i \in Ids : ~InUse(<<t, i>>)>>
WakerAvailable(t) == own[t] = Nil => \E i \in Ids : ~InUse(<<t, i>>)

Msg(s) == <<s, nops[s]>>

Goto(t, l) == pc' = [pc EXCEPT ![t] = l]

(* The call of t returns; its o_waker is dropped. *)
Return(t) ==
  /\ Goto(t, "idle")
  /\ own' = [own EXCEPT ![t] = Nil]
  /\ op' = [op EXCEPT ![t] = Nil]

Continues == UNCHANGED <<own, op>>

Accept(s) == /\ accepted' = accepted \cup {Msg(s)}
             /\ UNCHANGED <<rejected, taken, disconnected>>
Reject(s) == /\ rejected' = rejected \cup {Msg(s)}
             /\ UNCHANGED <<accepted, taken, disconnected>>

(* Where a receiver, or a sender, goes on a waker state it has read.       *)
OnState(t, s) ==
  Goto(t, IF s < WOKEN THEN "park"
          ELSE IF s = WOKEN THEN (IF t \in Senders THEN "s_try" ELSE "r_try")
          ELSE (IF t \in Senders THEN "s_closed" ELSE "r_last"))

-----------------------------------------------------------------------------
(* RegistryMulti *)

SetFlag(side, q) == hasWaker' = [hasWaker EXCEPT ![side] = q # <<>>]

(* reg_waker under the lock, for a waker whose state is (re)set to INIT.   *)
RegWaker(t, w) ==
  LET side == Side(t) IN
  /\ regSeq' = [regSeq EXCEPT ![side] = @ + 1]
  /\ seq' = [seq EXCEPT ![w] = regSeq[side] + 1]
  /\ state' = [state EXCEPT ![w] = INIT]
  /\ reg' = [reg EXCEPT ![side] = Append(@, w)]
  /\ hasWaker' = IF reg[side] = <<>> THEN [hasWaker EXCEPT ![side] = TRUE]
                 ELSE hasWaker
  /\ UNCHANGED unparked

(* First index of q whose entry still upgrades; Len(q) + 1 if none does.   *)
FirstAlive(q) ==
  Min({i \in 1..Len(q) : Alive(q[i])} \cup {Len(q) + 1})
Rest(q, i) == SubSeq(q, i + 1, Len(q))

(* _clear_wakers: what the scan from the front leaves in the queue.        *)
ScanPast(w, old, oneshot) ==
  \/ ~Alive(w)
  \/ ~oneshot /\ seq[w] < seq[old] /\ state[w] >= WOKEN
(* Mutant: drops an older waker without looking at its state.              *)
ScanDropsWaiting(w, old, oneshot) == seq[w] <= seq[old]
ScanDrops(w, old, oneshot) ==
  \/ seq[w] = seq[old]
  \/ oneshot /\ seq[w] < seq[old] /\ state[w] >= WOKEN
Cleared(q, old, oneshot) ==
  LET stop == Min({i \in 1..Len(q) : ~ScanPast(q[i], old, oneshot)}
                  \cup {Len(q) + 1})
  IN IF stop > Len(q) THEN <<>>
     ELSE IF ScanDrops(q[stop], old, oneshot) THEN Rest(q, stop)
     ELSE Rest(q, stop - 1)

ClearWakers(t, oneshot) ==
  LET side == Side(t)
      q == Cleared(reg[side], own[t], oneshot) IN
  IF hasWaker[side]
  THEN /\ reg' = [reg EXCEPT ![side] = q]
       /\ SetFlag(side, q)
  ELSE UNCHANGED <<reg, hasWaker>>

-----------------------------------------------------------------------------
(* fire(): wake one waiter of the side, going past the ones still INIT.    *)

StartFire(t, side, then) ==
  /\ Goto(t, "f_first")
  /\ target' = [target EXCEPT ![t] = side]
  /\ again' = [again EXCEPT ![t] = FALSE]
  /\ last' = [last EXCEPT ![t] = Nil]
  /\ held' = [held EXCEPT ![t] = Nil]
  /\ ret' = [ret EXCEPT ![t] = then]

EndFire(t) ==
  /\ Goto(t, ret[t])
  /\ target' = [target EXCEPT ![t] = Nil]
  /\ again' = [again EXCEPT ![t] = FALSE]
  /\ last' = [last EXCEPT ![t] = Nil]
  /\ held' = [held EXCEPT ![t] = Nil]

(* Mutant: the flag is not lowered when the last waker is popped.          *)
PopKeepsFlag(t) ==
  LET q == reg[target[t]] IN
  /\ reg' = [reg EXCEPT ![target[t]] = Rest(q, FirstAlive(q))]
  /\ held' = [held EXCEPT ![t] = q[FirstAlive(q)]]
  /\ Goto(t, "f_load")
  /\ UNCHANGED hasWaker
(* Pop the first entry that upgrades, dropping the dead ones before it.    *)
Pop(t) ==
  LET q == reg[target[t]]
      i == FirstAlive(q) IN
  /\ reg' = [reg EXCEPT ![target[t]] = Rest(q, i)]
  /\ hasWaker' = IF Rest(q, i) = <<>>
                 THEN [hasWaker EXCEPT ![target[t]] = FALSE] ELSE hasWaker
  /\ held' = [held EXCEPT ![t] = q[i]]
  /\ Goto(t, "f_load")
PopNone(t) ==
  /\ reg' = [reg EXCEPT ![target[t]] = <<>>]
  /\ hasWaker' = IF reg[target[t]] = <<>> THEN hasWaker
                 ELSE [hasWaker EXCEPT ![target[t]] = FALSE]
  /\ EndFire(t)

PopFirst(t) ==
  LET side == target[t]
      q == reg[side]
      more == Rest(q, FirstAlive(q)) # <<>> IN
  /\ pc[t] = "f_first"
  /\ \/ /\ ~hasWaker[side]
        /\ EndFire(t)
        /\ UNCHANGED <<reg, hasWaker>>
     \/ /\ hasWaker[side] /\ FirstAlive(q) > Len(q)
        /\ PopNone(t)
     \/ /\ hasWaker[side] /\ FirstAlive(q) <= Len(q)
        /\ Pop(t)
        /\ last' = [last EXCEPT ![t] = IF more THEN regSeq[side] - 1 ELSE Nil]
        /\ UNCHANGED <<again, target>>
  /\ UNCHANGED <<queue, count, regSeq, state, seq, unparked, op, nops, own,
                 seen, ret, history>>

PopAgain(t) ==
  LET side == target[t]
      q == reg[side] IN
  /\ pc[t] = "f_again"
  /\ \/ /\ ~hasWaker[side]
        /\ EndFire(t)
        /\ UNCHANGED <<reg, hasWaker>>
     \/ /\ hasWaker[side] /\ FirstAlive(q) > Len(q)
        /\ PopNone(t)
     \/ /\ hasWaker[side] /\ FirstAlive(q) <= Len(q)
        /\ Pop(t)
        /\ again' = [again EXCEPT ![t] = TRUE]
        /\ UNCHANGED <<last, target>>
  /\ UNCHANGED <<queue, count, regSeq, state, seq, unparked, op, nops, own,
                 seen, ret, history>>

(* The wake result was Next or Skip: pop another waker, unless the first   *)
(* pop emptied the queue or this waker's seq has reached last_seq.         *)
NotDone(t) ==
  IF last[t] = Nil \/ (again[t] /\ seq[held[t]] >= last[t])
  THEN EndFire(t)
  ELSE /\ Goto(t, "f_again")
       /\ held' = [held EXCEPT ![t] = Nil]
       /\ UNCHANGED <<last, again, target>>

FireFrame == UNCHANGED <<queue, count, reg, regSeq, hasWaker, seq, op, nops,
                         own, seen, ret, history>>

SetWoken(t) == state' = [state EXCEPT ![held[t]] = WOKEN]

(* WakerInner::wake: the load, ...                                         *)
WakeLoad(t) ==
  LET s == state[held[t]] IN
  /\ pc[t] = "f_load"
  /\ \/ s >= WOKEN /\ NotDone(t)
     \/ s = WAITING /\ Goto(t, "f_store") /\ UNCHANGED firing
     \/ s = INIT /\ Goto(t, "f_cas") /\ UNCHANGED firing
  /\ UNCHANGED <<state, unparked>>
  /\ FireFrame

(* ... the plain store of Woken after WAITING was loaded, ...              *)
WakeStore(t) ==
  /\ pc[t] = "f_store"
  /\ SetWoken(t)
  /\ Goto(t, "f_unpark_done")
  /\ UNCHANGED <<unparked, firing>>
  /\ FireFrame

(* Mutant: a failed compare-exchange does not take the state it found.     *)
WakeCasStale(t) ==
  LET s == state[held[t]] IN
  /\ pc[t] = "f_cas"
  /\ \/ s = INIT /\ SetWoken(t) /\ Goto(t, "f_unpark_next")
     \/ s # INIT /\ UNCHANGED <<state, pc>>
  /\ UNCHANGED <<unparked, firing>>
  /\ FireFrame
(* ... the compare-exchange after INIT was loaded, ...                     *)
WakeCas(t) ==
  LET s == state[held[t]] IN
  /\ pc[t] = "f_cas"
  /\ \/ s = INIT /\ SetWoken(t) /\ Goto(t, "f_unpark_next") /\ UNCHANGED firing
     \/ s = WAITING /\ Goto(t, "f_store") /\ UNCHANGED <<firing, state>>
     \/ s >= WOKEN /\ NotDone(t) /\ UNCHANGED state
  /\ UNCHANGED unparked
  /\ FireFrame

(* ... and wake_by_ref: WakeResult::Woken ends fire(), Next goes on.       *)
WakeUnpark(t) ==
  /\ \/ pc[t] = "f_unpark_done" /\ EndFire(t)
     \/ pc[t] = "f_unpark_next" /\ NotDone(t)
  /\ unparked' = [unparked EXCEPT ![held[t][1]] = TRUE]
  /\ UNCHANGED state
  /\ FireFrame

-----------------------------------------------------------------------------
(* Returns that follow a fire() or a _clear_wakers()                       *)

ReturnOk(t) ==
  /\ pc[t] = "ok"
  /\ Return(t)
  /\ IF t \in Senders THEN Accept(t) ELSE UNCHANGED history
  /\ UNCHANGED <<queue, count, waits, nops, seen, firing, ret>>

ReturnTimeout(t) ==
  /\ pc[t] = "timeout"
  /\ Return(t)
  /\ IF t \in Senders THEN Reject(t) ELSE UNCHANGED history
  /\ UNCHANGED <<queue, count, waits, nops, seen, firing, ret>>

(* Mutant: a woken waker's state is returned instead of Done.              *)
CancelWakerRetries(t) ==
  /\ pc[t] = "cancel"
  /\ IF state[own[t]] >= WOKEN THEN OnState(t, state[own[t]]) /\ UNCHANGED ret
     ELSE Goto(t, "clear_one") /\ ret' = [ret EXCEPT ![t] = "ok"]
  /\ UNCHANGED <<queue, count, waits, op, nops, own, seen, firing, history>>
(* cancel_waker, and cancel_reuse_waker(Done): the call already succeeded. *)
CancelWaker(t) ==
  /\ pc[t] = "cancel"
  /\ IF state[own[t]] >= WOKEN THEN Goto(t, "ok") /\ UNCHANGED ret
     ELSE Goto(t, "clear_one") /\ ret' = [ret EXCEPT ![t] = "ok"]
  /\ UNCHANGED <<queue, count, waits, op, nops, own, seen, firing, history>>

Clear(t) ==
  /\ pc[t] \in {"clear_one", "clear_all"}
  /\ ClearWakers(t, pc[t] = "clear_one")
  /\ Goto(t, ret[t])
  /\ own' = [own EXCEPT ![t] = IF ret[t] = "s_try" THEN Nil ELSE @]
  /\ UNCHANGED <<queue, count, regSeq, state, seq, unparked, op, nops, seen,
                 firing, ret, history>>

Timed(t) == op[t] \in {"send_timeout", "recv_timeout"}

(* abandon_send_waker, abandon_recv_waker: change_state <= Waiting to       *)
(* Closed, then clear; or hand the wake to another waiter.                 *)
Abandon(t, then) ==
  LET w == own[t] IN
  /\ \/ /\ state[w] <= WAITING
        /\ state' = [state EXCEPT ![w] = CLOSED]
        /\ ret' = [ret EXCEPT ![t] = then]
        /\ Goto(t, "clear_all")
        /\ UNCHANGED firing
     \/ /\ state[w] = WOKEN
        /\ StartFire(t, Side(t), then)
        /\ UNCHANGED state
     \/ /\ state[w] = CLOSED
        /\ Goto(t, then)
        /\ UNCHANGED <<state, firing, ret>>
  /\ UNCHANGED <<queue, count, reg, regSeq, hasWaker, seq, unparked, op, nops,
                 own, seen, history>>

(* check_timeout fails at the park loop.                                   *)
Timeout(t) ==
  /\ pc[t] = "park"
  /\ Timed(t)
  /\ Abandon(t, "timeout")

-----------------------------------------------------------------------------
(* Receivers: Rx::_recv_blocking and ChannelShared::try_recv               *)

(* A step that only moves its thread, and may read shared state.           *)
Local == UNCHANGED <<queue, count, waits, nops, firing, ret, history>>

(* recv_timeout is try_recv when its deadline overflows Instant.           *)
RecvStart(r) ==
  /\ pc[r] = "idle" /\ nops[r] < MaxOps[r]
  /\ nops' = [nops EXCEPT ![r] = @ + 1]
  /\ \E o \in RecvOps :
       /\ op' = [op EXCEPT ![r] = o]
       /\ \/ o # "try_recv" /\ Goto(r, "r_try")
          \/ o # "recv" /\ Goto(r, "t_closed")
  /\ UNCHANGED <<queue, count, waits, own, seen, firing, ret, history>>

(* One message popped by r, which then fires the senders' registry. *)
Take(r, then) ==
  /\ queue # <<>>
  /\ queue' = Tail(queue)
  /\ taken' = taken \cup {Head(queue)}
  /\ StartFire(r, "tx", then)
  /\ UNCHANGED <<count, waits, op, nops, own, seen, accepted, rejected,
                 disconnected>>

RecvTry(r) ==
  /\ pc[r] = "r_try"
  /\ \/ Take(r, "ok")
     \/ /\ queue = <<>>
        /\ Goto(r, "r_reg") /\ Continues /\ UNCHANGED seen /\ Local

RecvReg(r) ==
  LET w == IF own[r] = Nil THEN NewWaker(r) ELSE own[r] IN
  /\ pc[r] = "r_reg" /\ WakerAvailable(r)
  /\ RegWaker(r, w)
  /\ own' = [own EXCEPT ![r] = w]
  /\ Goto(r, "r_final")
  /\ UNCHANGED <<queue, count, op, nops, seen, firing, ret, history>>

(* try_recv_final, the double check after registering *)
RecvFinal(r) ==
  /\ pc[r] = "r_final"
  /\ \/ Take(r, "cancel")
     \/ /\ queue = <<>>
        /\ Goto(r, "commit") /\ Continues /\ UNCHANGED seen /\ Local

(* commit_waiting: INIT to WAITING, else what the state is; both sides *)
CommitWaiting(t) ==
  LET w == own[t] IN
  /\ pc[t] = "commit"
  /\ \/ /\ state[w] = INIT
        /\ state' = [state EXCEPT ![w] = WAITING]
        /\ seen' = [seen EXCEPT ![t] = WAITING]
     \/ /\ state[w] # INIT
        /\ seen' = [seen EXCEPT ![t] = state[w]]
        /\ UNCHANGED state
  /\ Goto(t, "closed?")
  /\ UNCHANGED <<queue, count, reg, regSeq, hasWaker, seq, unparked, op, nops,
                 own, firing, ret, history>>

ClosedCheck(t) ==
  /\ pc[t] = "closed?"
  /\ IF count[Other(Side(t))] = 0
     THEN Goto(t, IF t \in Senders THEN "s_closed" ELSE "r_last")
     ELSE OnState(t, seen[t])
  /\ seen' = [seen EXCEPT ![t] = INIT]
  /\ Continues
  /\ Local

(* park() returns on the token, park_timeout() also when time is up; the   *)
(* waker state is then loaded again.                                       *)
Park(t) ==
  /\ pc[t] = "park"
  /\ unparked[t] \/ Timed(t)
  /\ unparked' = [unparked EXCEPT ![t] = FALSE]
  /\ OnState(t, state[own[t]])
  /\ UNCHANGED <<queue, count, reg, regSeq, hasWaker, state, seq, op, nops,
                 own, seen, firing, ret, history>>

(* Mutant: a drained queue sends the call back to its loop.                *)
RecvLastLoops(r) ==
  /\ pc[r] = "r_last"
  /\ \/ Take(r, "ok")
     \/ /\ queue = <<>>
        /\ Goto(r, "closed?") /\ Continues /\ UNCHANGED seen /\ Local
RecvLast(r) ==
  /\ pc[r] = "r_last"
  /\ \/ Take(r, "ok")
     \/ /\ queue = <<>>
        /\ Return(r)
        /\ disconnected' = disconnected \cup {r}
        /\ UNCHANGED <<queue, count, waits, nops, seen, firing, ret, accepted,
                       rejected, taken>>

(* ChannelShared::try_recv: the closed flag is read before the pop.        *)
TryRecvClosed(r) ==
  /\ pc[r] = "t_closed"
  /\ Goto(r, IF count["tx"] = 0 THEN "r_last" ELSE "t_pop")
  /\ Continues
  /\ UNCHANGED seen
  /\ Local

TryRecvPop(r) ==
  /\ pc[r] = "t_pop"
  /\ \/ Take(r, "ok")
     \/ /\ queue = <<>>
        /\ Return(r) /\ UNCHANGED seen /\ Local

-----------------------------------------------------------------------------
(* Senders: Tx::send, try_send, send_timeout, _send_bounded and            *)
(* ChannelShared::sender_double_check                                      *)

SendStart(s) ==
  /\ pc[s] = "idle" /\ nops[s] < MaxOps[s]
  /\ nops' = [nops EXCEPT ![s] = @ + 1]
  /\ \E o \in SendOps : op' = [op EXCEPT ![s] = o]
  /\ Goto(s, IF count["rx"] = 0 THEN "s_closed" ELSE "s_first")
  /\ UNCHANGED <<queue, count, waits, own, seen, firing, ret, history>>

(* A message pushed by s, which then fires the receivers' registry. *)
Push(s, then) ==
  /\ Len(queue) < Cap
  /\ queue' = Append(queue, Msg(s))
  /\ StartFire(s, "rx", then)
  /\ UNCHANGED <<count, waits, op, nops, own, seen, history>>

(* The push before _send_bounded.  A full queue ends try_send with Full,   *)
(* and ends send_timeout when the deadline overflows Instant.              *)
SendFirst(s) ==
  /\ pc[s] = "s_first"
  /\ \/ Push(s, "ok")
     \/ /\ Len(queue) >= Cap
        /\ \/ op[s] # "try_send" /\ Goto(s, "s_try")
           \/ op[s] # "send" /\ Goto(s, "timeout")
        /\ Continues
        /\ UNCHANGED seen
        /\ Local

SendTry(s) ==
  /\ pc[s] = "s_try"
  /\ \/ Push(s, "ok")
     \/ /\ Len(queue) >= Cap
        /\ Goto(s, "s_reg") /\ Continues /\ UNCHANGED seen /\ Local

SendReg(s) ==
  LET w == IF own[s] = Nil THEN NewWaker(s) ELSE own[s] IN
  /\ pc[s] = "s_reg" /\ WakerAvailable(s)
  /\ RegWaker(s, w)
  /\ own' = [own EXCEPT ![s] = w]
  /\ Goto(s, "s_check")
  /\ UNCHANGED <<queue, count, op, nops, seen, firing, ret, history>>

(* Mutant: no double check after registering.                              *)
SenderDoubleCheckSkipped(s) ==
  /\ pc[s] = "s_check"
  /\ Goto(s, "commit") /\ Continues /\ UNCHANGED seen /\ Local
(* try_send_oneshot: sent, full, or uncertain under contention.            *)
SenderDoubleCheck(s) ==
  /\ pc[s] = "s_check"
  /\ \/ Push(s, "cancel")
     \/ /\ \/ Len(queue) >= Cap /\ Goto(s, "commit")
           \/ Uncertain /\ Len(queue) < Cap /\ Goto(s, "s_uncertain")
        /\ Continues
        /\ UNCHANGED seen
        /\ Local

(* cancel_reuse_waker(Woken): keep the waker if somebody has woken it,     *)
(* else drop it; the push is then tried again.                             *)
CancelReuse(s) ==
  /\ pc[s] = "s_uncertain"
  /\ IF state[own[s]] >= WOKEN THEN OnState(s, state[own[s]]) /\ UNCHANGED ret
     ELSE Goto(s, "clear_one") /\ ret' = [ret EXCEPT ![s] = "s_try"]
  /\ UNCHANGED <<queue, count, waits, op, nops, own, seen, firing, history>>

(* sender_snooze, entered while the registry is not empty (might_congest), *)
(* sees the new state before park() is called and leaves the token unused. *)
SenderSnooze(s) ==
  /\ pc[s] = "park" /\ state[own[s]] >= WOKEN
  /\ OnState(s, state[own[s]])
  /\ Continues
  /\ UNCHANGED seen
  /\ Local

SendClosed(s) ==
  /\ pc[s] = "s_closed"
  /\ Return(s)
  /\ Reject(s)
  /\ UNCHANGED <<queue, count, waits, nops, seen, firing, ret>>

-----------------------------------------------------------------------------
(* Drop of a handle: close_tx / close_rx                                   *)

Drop(t) ==
  /\ pc[t] = "idle"
  /\ count' = [count EXCEPT ![Side(t)] = @ - 1]
  /\ Goto(t, IF count[Side(t)] <= 1 THEN "close" ELSE "gone")
  /\ UNCHANGED <<queue, waits, op, nops, own, seen, firing, ret, history>>

(* Registry::close, one section under the lock: every registered waker     *)
(* that still upgrades and is not yet woken is closed and unparked.        *)
Close(t) ==
  LET side == Other(Side(t))
      closing == {w \in Range(reg[side]) : Alive(w) /\ state[w] <= WAITING} IN
  /\ pc[t] = "close"
  /\ state' = [w \in Wakers |-> IF w \in closing THEN CLOSED ELSE state[w]]
  /\ unparked' = [x \in Threads |->
                    unparked[x] \/ \E w \in closing : w[1] = x]
  /\ reg' = [reg EXCEPT ![side] = <<>>]
  /\ hasWaker' = [hasWaker EXCEPT ![side] = FALSE]
  /\ Goto(t, "gone")
  /\ UNCHANGED <<queue, count, regSeq, seq, op, nops, own, seen, firing, ret,
                 history>>

(* Mutant: a handle is added although the side has closed.                 *)
AddHandleLate(t) ==
  /\ pc[t] = "gone" /\ nops[t] < MaxOps[t]
  /\ count' = [count EXCEPT ![Side(t)] = @ + 1]
  /\ Goto(t, "idle")
  /\ UNCHANGED <<queue, waits, op, nops, own, seen, firing, ret, history>>
(* A thread without a handle is given one: Clone (add_tx, add_rx) of a     *)
(* live handle, or WeakTx::upgrade (try_add_tx), which needs a live one.   *)
AddHandle(t) ==
  /\ pc[t] = "gone"
  /\ count[Side(t)] > 0
  /\ nops[t] < MaxOps[t]
  /\ count' = [count EXCEPT ![Side(t)] = @ + 1]
  /\ Goto(t, "idle")
  /\ UNCHANGED <<queue, waits, op, nops, own, seen, firing, ret, history>>

-----------------------------------------------------------------------------
(* A thread that has made all of its calls before the start takes no part. *)
Init ==
  /\ queue = <<>>
  /\ nops \in Starts
  /\ pc = [t \in Threads |-> IF nops[t] < MaxOps[t] THEN "idle" ELSE "gone"]
  /\ count = [side \in Sides |->
                Cardinality({t \in Threads : Side(t) = side /\ pc[t] = "idle"})]
  /\ reg = [side \in Sides |-> <<>>]
  /\ regSeq = [side \in Sides |-> 0]
  /\ hasWaker = [side \in Sides |-> FALSE]
  /\ state = [w \in Wakers |-> INIT]
  /\ seq = [w \in Wakers |-> 0]
  /\ unparked = [t \in Threads |-> FALSE]
  /\ op = [t \in Threads |-> Nil]
  /\ own = [t \in Threads |-> Nil]
  /\ seen = [t \in Threads |-> INIT]
  /\ held = [t \in Threads |-> Nil]
  /\ last = [t \in Threads |-> Nil]
  /\ again = [t \in Threads |-> FALSE]
  /\ ret = [t \in Threads |-> "ok"]
  /\ target = [t \in Threads |-> Nil]
  /\ accepted = {} /\ rejected = {} /\ taken = {} /\ disconnected = {}

FireStep(t) == \/ PopFirst(t) \/ PopAgain(t) \/ WakeLoad(t) \/ WakeStore(t)
               \/ WakeCas(t) \/ WakeUnpark(t)

(* What a thread does once it is inside a call.                            *)
CallStep(t) == \/ FireStep(t) \/ ReturnOk(t) \/ ReturnTimeout(t)
               \/ CancelWaker(t) \/ Clear(t) \/ CommitWaiting(t)
               \/ ClosedCheck(t) \/ Park(t) \/ Close(t)

RecvStep(r) == \/ RecvTry(r) \/ RecvReg(r) \/ RecvFinal(r) \/ RecvLast(r)
               \/ TryRecvClosed(r) \/ TryRecvPop(r)

SendStep(s) == \/ SendFirst(s) \/ SendTry(s) \/ SendReg(s)
               \/ SenderDoubleCheck(s) \/ CancelReuse(s) \/ SenderSnooze(s)
               \/ SendClosed(s)

Terminated == /\ \A t \in Threads : pc[t] = "gone"
              /\ UNCHANGED vars

Next ==
  \/ \E t \in Threads : CallStep(t) \/ Timeout(t) \/ Drop(t) \/ AddHandle(t)
  \/ \E r \in Receivers : RecvStart(r) \/ RecvStep(r)
  \/ \E s \in Senders : SendStart(s) \/ SendStep(s)
  \/ Terminated

Spec == Init /\ [][Next]_vars

(* The scheduler runs every thread that is inside a call; nobody has to    *)
(* start a call, drop a handle or clone one.                               *)
InCall(t) == pc[t] \notin {"idle", "gone"}
Proceeds(t) == /\ InCall(t)
               /\ \/ CallStep(t)
                  \/ t \in Receivers /\ RecvStep(t)
                  \/ t \in Senders /\ SendStep(t)
Fairness == \A t \in Threads : WF_vars(Proceeds(t))
FairSpec == Spec /\ Fairness

-----------------------------------------------------------------------------
(* Properties *)

InFire == {"f_first", "f_again", "f_load", "f_store", "f_cas",
           "f_unpark_done", "f_unpark_next"}
Labels == InFire \cup
  {"idle", "gone", "close", "ok", "timeout", "cancel", "clear_one",
   "clear_all", "commit", "closed?", "park", "r_try", "r_reg", "r_final",
   "r_last", "t_closed", "t_pop", "s_first", "s_try", "s_reg", "s_check",
   "s_uncertain", "s_closed"}

(* The type of every variable.                                             *)
TypeOK ==
  /\ queue \in Seq(Messages) /\ Len(queue) <= Cap
  /\ count \in [Sides -> Nat]
  /\ reg \in [Sides -> Seq(Wakers)]
  /\ regSeq \in [Sides -> Nat]
  /\ hasWaker \in [Sides -> BOOLEAN]
  /\ state \in [Wakers -> WakerStates]
  /\ seq \in [Wakers -> Nat]
  /\ unparked \in [Threads -> BOOLEAN]
  /\ pc \in [Threads -> Labels]
  /\ op \in [Threads -> SendOps \cup RecvOps \cup {Nil}]
  /\ nops \in [Threads -> Nat]
  /\ own \in [Threads -> Wakers \cup {Nil}]
  /\ seen \in [Threads -> WakerStates]
  /\ held \in [Threads -> Wakers \cup {Nil}]
  /\ last \in [Threads -> Nat \cup {Nil}]
  /\ again \in [Threads -> BOOLEAN]
  /\ ret \in [Threads -> {"ok", "cancel", "timeout", "s_try"}]
  /\ target \in [Threads -> Sides \cup {Nil}]
  /\ accepted \subseteq Messages /\ rejected \subseteq Messages
  /\ taken \subseteq Messages /\ disconnected \subseteq Receivers

(* A thread blocked in park() that nobody has woken or closed.             *)
Parked(t) == pc[t] = "park" /\ state[own[t]] <= WAITING /\ ~unparked[t]

(* No call is in progress except the ones blocked in park().               *)
Quiescent == \A t \in Threads : pc[t] \in {"idle", "gone"} \/ Parked(t)

(* The registry's lock-free flag and its queue agree, so pop_first and     *)
(* _clear_wakers may return on an empty flag without taking the lock; the  *)
(* registered wakers that upgrade are in the order of their seq, which     *)
(* _clear_wakers relies on to stop at the first newer one.                 *)
RegistryOrdered ==
  \A side \in Sides :
    /\ hasWaker[side] = (reg[side] # <<>>)
    /\ \A i, j \in 1..Len(reg[side]) :
         i < j /\ Alive(reg[side][i]) /\ Alive(reg[side][j])
           => seq[reg[side][i]] < seq[reg[side][j]]

(* A thread waiting in park() can be found by whoever must wake it: its    *)
(* waker is in the registry of its side, or in the hands of a fire() that  *)
(* has popped it and not stored Woken yet.  So no scan of _clear_wakers    *)
(* made by another call, and no fire(), ever throws a waiting waker away.  *)
WaiterReachable ==
  \A t \in Threads :
    pc[t] = "park" /\ state[own[t]] <= WAITING =>
      \/ own[t] \in Range(reg[Side(t)])
      \/ \E f \in Threads : /\ held[f] = own[t]
                            /\ pc[f] \in {"f_load", "f_store", "f_cas"}

(* on_send "Wake up one rx", on_recv "Wake up one tx" and the two close    *)
(* functions leave nobody asleep who could go on: once no call is running, *)
(* no receiver is parked beside a message or after the last sender left,   *)
(* and no sender is parked beside free room or after the last receiver     *)
(* left.                                                                   *)
NoLostWakeup ==
  Quiescent => \A t \in Threads : Parked(t) =>
    /\ count[Other(Side(t))] > 0
    /\ IF t \in Receivers THEN queue = <<>> ELSE Len(queue) = Cap

(* A thread that never has a handle: it has made more than all of its      *)
(* calls before the start.                                                 *)
Absent(t) == nops[t] > MaxOps[t]

(* What the registries do guarantee, with timeouts and with uncertain      *)
(* pushes too.  Once no call is running, nobody is parked after the last   *)
(* handle of the other side is gone; and a thread that is alone on its     *)
(* side is never parked beside a message, or beside free room.             *)
WaitersReleased ==
  Quiescent => \A t \in Threads : Parked(t) =>
    /\ count[Other(Side(t))] > 0
    /\ (\A u \in Threads : Side(u) = Side(t) /\ u # t => Absent(u)) =>
         IF t \in Receivers THEN queue = <<>> ELSE Len(queue) = Cap

(* send, try_send and send_timeout are atomic: a message the call gave     *)
(* back is in no queue and was received by nobody, a message it accepted   *)
(* is in the queue or was received, and none is there twice.               *)
SendAtomic ==
  /\ rejected \cap (Range(queue) \cup taken) = {}
  /\ accepted \subseteq Range(queue) \cup taken
  /\ Range(queue) \cap taken = {}
  /\ \A i, j \in 1..Len(queue) : queue[i] = queue[j] => i = j

(* A receiver is told Disconnected only when every message any sender was  *)
(* told is sent has been received, and no further one will ever come: the  *)
(* pop that precedes Disconnected follows the load of tx_count.            *)
DisconnectedDrained ==
  disconnected # {} => count["tx"] = 0 /\ queue = <<>> /\ accepted \subseteq taken

(* Again and again nobody is parked who could go on: a receiver in park()  *)
(* gets out of it once a message is there that nobody else takes, and a    *)
(* sender once there is room nobody else fills.                            *)
WaiterServed ==
  []<>(/\ \A r \in Receivers : pc[r] = "park" => queue = <<>>
       /\ \A s \in Senders : pc[s] = "park" => Len(queue) = Cap)

(* A count at zero stays there, and every call that is in progress then,   *)
(* or begins later, returns.                                               *)
ClosedReleases ==
  []<>(\A t \in Threads : count[Other(Side(t))] = 0 => pc[t] \in {"idle", "gone"})

=============================================================================
