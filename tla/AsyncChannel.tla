---------------------------- MODULE AsyncChannel ----------------------------
(***************************************************************************)
(* The channel with async handles and with single-waiter registries.  Some *)
(* threads of Channel are tasks here: they poll the futures of AsyncTx and *)
(* AsyncRx (send, send_timeout, recv, recv_timeout), an AsyncSink or an    *)
(* AsyncStream; the others make the blocking calls of Channel.  A side     *)
(* whose handle cannot be cloned uses RegistrySingle, one WeakCell, in     *)
(* place of RegistryMulti.                                                 *)
(*                                                                         *)
(* For a task, control point "park" means that its last poll answered      *)
(* Pending, and unparked[t] that an executor has been asked to poll it.    *)
(* A future may be polled without being woken (join!, select!), may move   *)
(* to another task (ctx changes), and may be dropped while Pending.        *)
(***************************************************************************)
EXTENDS Channel

CONSTANTS
  Scenarios,   \* who is a task, which sides are single, the calls: see Scenario
  Contexts     \* the tasks a future moves between

(* send_future is SendFuture and SendTimeoutFuture, recv_timer is          *)
(* RecvTimeoutFuture and AsyncStream::poll_next, stream is                 *)
(* AsyncStream::poll_item, sink is AsyncSink::poll_send.                   *)
SendFutures == {"send_future", "sink"}
RecvFutures == {"recv_future", "recv_timer", "stream"}
Ops(t, tasks) ==
  IF t \in Senders THEN IF t \in tasks THEN SendFutures ELSE SendOps
  ELSE IF t \in tasks THEN RecvFutures ELSE RecvOps

(* A side with a single registry has one handle for good; polls bounds the *)
(* polls of a future that nobody asked for.                                *)
Scenario(x) ==
  /\ x.tasks \subseteq Threads /\ x.single \subseteq Sides
  /\ x.nops \in Starts /\ x.polls \in [Threads -> Nat]
  /\ \A t \in Threads : x.ops[t] \subseteq Ops(t, x.tasks)
  /\ \A side \in x.single :
       Cardinality({t \in Threads : Side(t) = side /\ x.nops[t] < MaxOps[t]}) <= 1

ASSUME AsyncAssumption ==
  /\ Contexts # {}
  /\ \A x \in Scenarios : Scenario(x)

VARIABLES
  sc,         \* the scenario; never changes
  ctx,        \* [Threads -> Contexts]: the task that polled last
  wakes,      \* [Wakers -> Contexts]: the task the waker wakes
  polls,      \* [Threads -> Nat]: polls nobody asked for
  swallowed   \* history: a wake() stored Woken over an abandoned waker

tvars == <<sc, ctx, wakes, polls, swallowed>>
avars == <<vars, tvars>>

Task(t) == t \in sc.tasks
Single(t) == Side(t) \in sc.single
Lazy(t) == op[t] \in {"sink", "stream"}
Checks(t) == IF t \in Senders THEN "s_check" ELSE "r_final"
Registers(t) == pc[t] = (IF t \in Senders THEN "s_reg" ELSE "r_reg")

(* Mutant: a waker is taken for good whatever task polls.                  *)
WillWakeAlways(t) == Task(t)
WillWake(t) == wakes[own[t]] = ctx[t]

(* A poll in some task, maybe another one, for no reason.                  *)
Moves(t) ==
  /\ polls[t] < sc.polls[t]
  /\ polls' = [polls EXCEPT ![t] = @ + 1]
  /\ \E c \in Contexts : ctx' = [ctx EXCEPT ![t] = c]

(* What a step leaves alone that only touches wakers and control.          *)
CallFrame == UNCHANGED <<queue, count, op, nops, seen, history>>

-----------------------------------------------------------------------------
(* RegistrySingle: reg is the WeakCell, hasWaker that it is not null       *)

(* _reg_waker_blocking and _reg_waker_async: always a new waker.           *)
SingleReg(t) ==
  LET w == NewWaker(t) IN
  /\ Registers(t) /\ Single(t)
  /\ \E i \in Ids : ~InUse(<<t, i>>)
  /\ state' = [state EXCEPT ![w] = INIT]
  /\ reg' = [reg EXCEPT ![Side(t)] = <<w>>]
  /\ SetFlag(Side(t), <<w>>)
  /\ own' = [own EXCEPT ![t] = w]
  /\ wakes' = [wakes EXCEPT ![w] = ctx[t]]
  /\ Goto(t, Checks(t))
  /\ CallFrame
  /\ UNCHANGED <<regSeq, seq, unparked, firing, ret, sc, ctx, polls, swallowed>>

(* _fire: WeakCell::pop, which empties the cell and upgrades what was there *)
SinglePop(t) ==
  LET cell == reg[target[t]] IN
  /\ pc[t] = "f_first" /\ target[t] \in sc.single
  /\ reg' = [reg EXCEPT ![target[t]] = <<>>]
  /\ SetFlag(target[t], <<>>)
  /\ IF cell # <<>> /\ Alive(cell[1])
     THEN /\ held' = [held EXCEPT ![t] = cell[1]]
          /\ Goto(t, "f_load")
          /\ UNCHANGED <<last, again, target>>
     ELSE EndFire(t)
  /\ CallFrame
  /\ UNCHANGED <<regSeq, state, seq, unparked, own, ret, tvars>>

(* get_waker_state: Woken once the cell is empty.                          *)
SinglePark(t) ==
  /\ pc[t] = "park" /\ ~Task(t) /\ Single(t)
  /\ unparked[t] \/ Timed(t)
  /\ unparked' = [unparked EXCEPT ![t] = FALSE]
  /\ OnState(t, IF reg[Side(t)] = <<>> THEN WOKEN ELSE INIT)
  /\ CallFrame
  /\ UNCHANGED <<reg, regSeq, hasWaker, state, seq, own, firing, ret, tvars>>

(* cancel_waker and cancel_reuse_waker drop the waker, abandon_waker does  *)
(* nothing: the Weak in the cell does not upgrade any more.                *)
SingleDrops(t) ==
  /\ Single(t)
  /\ \/ pc[t] = "cancel" /\ Goto(t, "ok") /\ UNCHANGED own
     \/ pc[t] = "s_uncertain" /\ Goto(t, "s_try") /\ own' = [own EXCEPT ![t] = Nil]
     \/ pc[t] = "park" /\ ~Task(t) /\ Timed(t) /\ Goto(t, "timeout") /\ UNCHANGED own
     \/ pc[t] = "abandon" /\ Goto(t, "ok") /\ UNCHANGED own
  /\ CallFrame
  /\ UNCHANGED <<waits, firing, ret, tvars>>

(* close() is one fire().                                                  *)
SingleClose(t) ==
  /\ pc[t] = "close" /\ Other(Side(t)) \in sc.single
  /\ StartFire(t, Other(Side(t)), "gone")
  /\ CallFrame
  /\ UNCHANGED <<waits, own, tvars>>

-----------------------------------------------------------------------------
(* Waking a task: only the task the waker was made for is scheduled        *)

WakeByRef(t) ==
  LET w == held[t] IN
  /\ \/ pc[t] = "f_unpark_done" /\ EndFire(t)
     \/ pc[t] = "f_unpark_next" /\ NotDone(t)
  /\ unparked' = [unparked EXCEPT ![w[1]] = @ \/ wakes[w] = ctx[w[1]]]
  /\ UNCHANGED <<state, tvars>>
  /\ FireFrame

StoreWoken(t) ==
  /\ WakeStore(t)
  /\ swallowed' = (swallowed \/ state[held[t]] = CLOSED)
  /\ UNCHANGED <<sc, ctx, wakes, polls>>

MultiClose(t) ==
  LET side == Other(Side(t))
      closing == {w \in Range(reg[side]) : Alive(w) /\ state[w] <= WAITING} IN
  /\ pc[t] = "close" /\ side \notin sc.single
  /\ state' = [w \in Wakers |-> IF w \in closing THEN CLOSED ELSE state[w]]
  /\ unparked' = [x \in Threads |->
       unparked[x] \/ \E w \in closing : w[1] = x /\ wakes[w] = ctx[x]]
  /\ reg' = [reg EXCEPT ![side] = <<>>]
  /\ SetFlag(side, <<>>)
  /\ Goto(t, "gone")
  /\ CallFrame
  /\ UNCHANGED <<regSeq, seq, own, firing, ret, tvars>>

-----------------------------------------------------------------------------
(* RegistryMulti::_reg_waker_async                                         *)

(* A poll that finds its waker from an earlier one: try_change_state(Woken,*)
(* Init), or what to do with the state that is there instead.              *)
ReuseWaker(t) ==
  LET w == own[t] IN
  /\ Registers(t) /\ Task(t) /\ ~Single(t) /\ w # Nil
  /\ \/ /\ state[w] = WOKEN
        /\ state' = [state EXCEPT ![w] = INIT]
        /\ Goto(t, IF WillWake(t) THEN "rereg" ELSE "new")
     \/ /\ state[w] < WOKEN /\ UNCHANGED state
        /\ Goto(t, IF ~WillWake(t) THEN "stale"
                   ELSE IF t \in Senders THEN "park" ELSE "closed?")
     \/ /\ state[w] = CLOSED /\ UNCHANGED state
        /\ Goto(t, IF t \in Senders THEN "s_closed" ELSE "closed?")
  /\ CallFrame
  /\ UNCHANGED <<reg, regSeq, hasWaker, seq, unparked, own, firing, ret, tvars>>

(* The waker of another task is cleared, unless somebody wakes it now.     *)
StaleWaker(t) ==
  /\ pc[t] = "stale"
  /\ IF state[own[t]] < WOKEN
     THEN Goto(t, "clear_one") /\ ret' = [ret EXCEPT ![t] = "new"]
     ELSE Goto(t, "new") /\ UNCHANGED ret
  /\ CallFrame
  /\ UNCHANGED <<waits, own, firing, tvars>>

Register(t, w) ==
  /\ RegWaker(t, w)
  /\ own' = [own EXCEPT ![t] = w]
  /\ wakes' = [wakes EXCEPT ![w] = ctx[t]]
  /\ Goto(t, Checks(t))
  /\ CallFrame
  /\ UNCHANGED <<firing, ret, sc, ctx, polls, swallowed>>

RegWakerAsync(t) ==
  \/ pc[t] = "rereg" /\ Register(t, own[t])
  \/ /\ \/ pc[t] = "new"
        \/ Registers(t) /\ Task(t) /\ ~Single(t) /\ own[t] = Nil
     /\ \E i \in Ids : ~InUse(<<t, i>>)
     /\ Register(t, NewWaker(t))

(* AsyncSink and AsyncStream::poll_item stay INIT; RegistrySingle has no   *)
(* WAITING.                                                                *)
SkipCommit(t) ==
  /\ pc[t] = "commit" /\ (Single(t) \/ Lazy(t))
  /\ Goto(t, "closed?")
  /\ CallFrame
  /\ UNCHANGED <<waits, own, firing, ret, tvars>>

-----------------------------------------------------------------------------
(* AsyncRx::poll_item and its callers                                      *)

StartRecv(r) ==
  /\ pc[r] = "idle" /\ Task(r) /\ nops[r] < MaxOps[r]
  /\ nops' = [nops EXCEPT ![r] = @ + 1]
  /\ \E o \in sc.ops[r] : op' = [op EXCEPT ![r] = o]
  /\ Goto(r, "r_try")
  /\ UNCHANGED <<queue, count, waits, own, seen, firing, ret, history, tvars>>

TaskRecvTry(r) ==
  /\ pc[r] = "r_try" /\ Task(r)
  /\ \/ Take(r, IF own[r] = Nil THEN "ok" ELSE "cancel")
     \/ /\ queue = <<>>
        /\ Goto(r, "r_reg") /\ Continues /\ UNCHANGED seen /\ Local
  /\ UNCHANGED tvars

(* Mutant: a closed channel is only tried once more.                       *)
TaskClosedCheckLoops(r) ==
  /\ pc[r] = "closed?" /\ Task(r) /\ r \in Receivers
  /\ Goto(r, IF seen[r] = WOKEN \/ count["tx"] = 0 THEN "r_try" ELSE "park")
  /\ seen' = [seen EXCEPT ![r] = INIT]
  /\ Continues
  /\ Local
  /\ UNCHANGED tvars
(* commit_waiting said Woken: once more; else Pending or Disconnected.     *)
TaskClosedCheck(r) ==
  /\ pc[r] = "closed?" /\ Task(r) /\ r \in Receivers
  /\ Goto(r, IF seen[r] = WOKEN THEN "r_try"
             ELSE IF count["tx"] = 0 THEN "r_last" ELSE "park")
  /\ seen' = [seen EXCEPT ![r] = INIT]
  /\ Continues
  /\ Local
  /\ UNCHANGED tvars

(* Mutant: Disconnected without the last look at the queue.                *)
TaskRecvLastSkipped(r) ==
  /\ pc[r] = "r_last" /\ Task(r)
  /\ disconnected' = disconnected \cup {r}
  /\ IF op[r] = "recv_future" THEN Return(r) ELSE Goto(r, "abandon") /\ Continues
  /\ UNCHANGED <<queue, count, waits, nops, seen, firing, ret, accepted,
                 rejected, taken, tvars>>
(* Disconnected: only RecvFuture takes its waker out, so that the drop of  *)
(* the others abandons it.                                                 *)
TaskRecvLast(r) ==
  /\ pc[r] = "r_last" /\ Task(r)
  /\ \/ Take(r, "cancel")
     \/ /\ queue = <<>>
        /\ disconnected' = disconnected \cup {r}
        /\ IF op[r] = "recv_future" THEN Return(r) ELSE Goto(r, "abandon") /\ Continues
        /\ UNCHANGED <<queue, count, waits, nops, seen, firing, ret, accepted,
                       rejected, taken>>
  /\ UNCHANGED tvars

AbandonEnded(r) ==
  /\ pc[r] = "abandon" /\ ~Single(r)
  /\ Abandon(r, "ok")
  /\ UNCHANGED tvars

-----------------------------------------------------------------------------
(* AsyncTx::poll_send and its callers                                      *)

StartSend(s) ==
  /\ pc[s] = "idle" /\ Task(s) /\ own[s] = Nil /\ nops[s] < MaxOps[s]
  /\ "send_future" \in sc.ops[s]
  /\ nops' = [nops EXCEPT ![s] = @ + 1]
  /\ op' = [op EXCEPT ![s] = "send_future"]
  /\ Goto(s, IF count["rx"] = 0 THEN "s_closed" ELSE "s_try")
  /\ UNCHANGED <<queue, count, waits, own, seen, firing, ret, history, tvars>>

(* AsyncSink::poll_send with another message, the waker of an earlier call *)
(* that answered Full still there.                                         *)
StartSink(s) ==
  /\ pc[s] = "idle" \/ (pc[s] = "park" /\ op[s] = "sink" /\ Msg(s) \in rejected)
  /\ Task(s) /\ nops[s] < MaxOps[s] /\ "sink" \in sc.ops[s]
  /\ nops' = [nops EXCEPT ![s] = @ + 1]
  /\ op' = [op EXCEPT ![s] = "sink"]
  /\ unparked' = [unparked EXCEPT ![s] = FALSE]
  /\ \/ UNCHANGED <<ctx, polls>>
     \/ own[s] # Nil /\ Moves(s)
  /\ Goto(s, "k_try")
  /\ UNCHANGED <<queue, count, reg, regSeq, hasWaker, state, seq, own, seen,
                 firing, ret, history, sc, wakes, swallowed>>

SinkTry(s) ==
  /\ pc[s] = "k_try"
  /\ \/ Push(s, "k_ok")
     \/ /\ Len(queue) >= Cap
        /\ Goto(s, "k_closed") /\ Continues /\ UNCHANGED seen /\ Local
  /\ UNCHANGED tvars

SinkClosed(s) ==
  /\ pc[s] = "k_closed"
  /\ Goto(s, IF count["rx"] = 0 THEN "k_err" ELSE "s_try")
  /\ Continues /\ UNCHANGED seen /\ Local /\ UNCHANGED tvars

(* The call is over and the sink keeps its waker: sent at the first try,   *)
(* Disconnected, ...                                                       *)
SinkReturn(s) ==
  /\ \/ pc[s] = "k_ok" /\ Accept(s)
     \/ pc[s] = "k_err" /\ Reject(s)
  /\ Goto(s, "idle")
  /\ op' = [op EXCEPT ![s] = Nil]
  /\ UNCHANGED <<queue, count, waits, nops, own, seen, firing, ret, tvars>>

(* ... or Full, which is Pending.                                          *)
SinkFull(s) ==
  /\ pc[s] = "park" /\ op[s] = "sink" /\ Msg(s) \notin rejected
  /\ Reject(s)
  /\ UNCHANGED <<queue, count, waits, pc, op, nops, own, seen, firing, ret, tvars>>

(* The drop of a sink between two calls: the waker first, then the handle. *)
SinkDrop(s) ==
  /\ pc[s] = "idle" /\ Task(s) /\ own[s] # Nil
  /\ IF Single(s)
     THEN /\ Goto(s, "dropped")
          /\ CallFrame /\ UNCHANGED <<waits, own, firing, ret>>
     ELSE Abandon(s, "dropped")
  /\ UNCHANGED tvars

Dropped(s) ==
  /\ pc[s] = "dropped"
  /\ Return(s)
  /\ UNCHANGED <<queue, count, waits, nops, seen, firing, ret, history, tvars>>

-----------------------------------------------------------------------------
(* The executor and the user of a future                                   *)

(* The task is polled because it was woken, or in some task for no reason. *)
Poll(t) ==
  /\ pc[t] = "park" /\ Task(t) /\ op[t] # "sink"
  /\ \/ unparked[t] /\ UNCHANGED <<ctx, polls>>
     \/ Moves(t)
  /\ unparked' = [unparked EXCEPT ![t] = FALSE]
  /\ Goto(t, IF t \in Receivers THEN "r_try"
             ELSE IF count["rx"] = 0 THEN "s_closed" ELSE "s_try")
  /\ CallFrame
  /\ UNCHANGED <<reg, regSeq, hasWaker, state, seq, own, firing, ret, sc,
                 wakes, swallowed>>

(* Mutant: a dropped future that was woken keeps the wakeup to itself.     *)
DropFutureKeepsWake(t) ==
  /\ pc[t] = "park" /\ Task(t) /\ (op[t] = "sink" => Msg(t) \in rejected)
  /\ IF Single(t) \/ state[own[t]] = WOKEN
     THEN /\ Goto(t, "timeout")
          /\ CallFrame /\ UNCHANGED <<waits, own, firing, ret>>
     ELSE Abandon(t, "timeout")
  /\ UNCHANGED tvars
(* A future, a sink or a stream is dropped while Pending; the message of a *)
(* SendFuture is dropped, or given back by SendTimeoutFuture.              *)
DropFuture(t) ==
  /\ pc[t] = "park" /\ Task(t) /\ (op[t] = "sink" => Msg(t) \in rejected)
  /\ IF Single(t)
     THEN /\ Goto(t, "timeout")
          /\ CallFrame /\ UNCHANGED <<waits, own, firing, ret>>
     ELSE Abandon(t, "timeout")
  /\ UNCHANGED tvars

-----------------------------------------------------------------------------
AsyncInit ==
  /\ Init
  /\ sc \in Scenarios /\ nops = sc.nops
  /\ ctx \in [Threads -> {CHOOSE c \in Contexts : TRUE}]
  /\ wakes \in [Wakers -> {CHOOSE c \in Contexts : TRUE}]
  /\ polls = [t \in Threads |-> 0]
  /\ swallowed = FALSE

(* Steps of Channel that tasks, or a single registry, take as they are ... *)
SharedStep(t) ==
  /\ \/ target[t] \notin sc.single /\ PopFirst(t)
     \/ PopAgain(t) \/ WakeLoad(t) \/ WakeCas(t)
     \/ ReturnOk(t) \/ ReturnTimeout(t) \/ Clear(t)
     \/ ~Single(t) /\ CancelWaker(t)
     \/ ~Single(t) /\ ~Lazy(t) /\ CommitWaiting(t)
     \/ ~(Task(t) /\ t \in Receivers) /\ ClosedCheck(t)
  /\ UNCHANGED tvars

SharedRecv(r) == /\ \/ RecvFinal(r) \/ TryRecvClosed(r) \/ TryRecvPop(r)
                    \/ ~Task(r) /\ (RecvTry(r) \/ RecvLast(r))
                 /\ UNCHANGED tvars
SharedSend(s) == /\ \/ SendFirst(s) \/ SendTry(s) \/ SenderDoubleCheck(s)
                    \/ ~Single(s) /\ CancelReuse(s)
                    \/ SendClosed(s)
                 /\ UNCHANGED tvars

(* ... and those of a thread that blocks on a RegistryMulti.               *)
BlockingStep(t) ==
  /\ ~Task(t) /\ ~Single(t)
  /\ \/ Park(t)
     \/ t \in Receivers /\ RecvReg(t)
     \/ t \in Senders /\ (SendReg(t) \/ SenderSnooze(t))
  /\ UNCHANGED tvars

StartCall(t) ==
  /\ ~Task(t)
  /\ \/ t \in Receivers /\ RecvStart(t)
     \/ t \in Senders /\ SendStart(t)
  /\ op'[t] \in sc.ops[t]
  /\ UNCHANGED tvars

TimedOut(t) == ~Task(t) /\ ~Single(t) /\ Timeout(t) /\ UNCHANGED tvars
DropHandle(t) == own[t] = Nil /\ Drop(t) /\ UNCHANGED tvars
CloneHandle(t) == ~Single(t) /\ AddHandle(t) /\ UNCHANGED tvars

(* What goes on without a decision of the user.                            *)
Runs(t) ==
  \/ SharedStep(t) \/ BlockingStep(t)
  \/ SingleReg(t) \/ SinglePop(t) \/ SinglePark(t) \/ SingleClose(t)
  \/ SingleDrops(t) /\ pc[t] # "park"
  \/ WakeByRef(t) \/ StoreWoken(t) \/ MultiClose(t)
  \/ ReuseWaker(t) \/ StaleWaker(t) \/ RegWakerAsync(t) \/ SkipCommit(t)
RunsRecv(r) == \/ SharedRecv(r) \/ TaskRecvTry(r) \/ TaskClosedCheck(r)
               \/ TaskRecvLast(r) \/ AbandonEnded(r)
RunsSend(s) == \/ SharedSend(s) \/ SinkTry(s) \/ SinkClosed(s) \/ SinkReturn(s)
               \/ SinkFull(s) \/ Dropped(s)

AsyncTerminated == (\A t \in Threads : pc[t] = "gone") /\ UNCHANGED avars

AsyncNext ==
  \/ \E t \in Threads : \/ Runs(t) \/ StartCall(t) \/ TimedOut(t)
                        \/ SingleDrops(t) /\ pc[t] = "park"
                        \/ Poll(t) \/ DropFuture(t)
                        \/ DropHandle(t) \/ CloneHandle(t)
  \/ \E r \in Receivers : StartRecv(r) \/ RunsRecv(r)
  \/ \E s \in Senders : StartSend(s) \/ StartSink(s) \/ SinkDrop(s) \/ RunsSend(s)
  \/ AsyncTerminated

AsyncSpec == AsyncInit /\ [][AsyncNext]_avars

(* An executor polls the task that was woken; the user of a sink or of     *)
(* poll_item need not.                                                     *)
Woken(t) == unparked[t] /\ ~Lazy(t)
Goes(t) == /\ InCall(t)
           /\ \/ Runs(t)
              \/ t \in Receivers /\ RunsRecv(t)
              \/ t \in Senders /\ RunsSend(t)
              \/ Woken(t) /\ Poll(t)
AsyncFairness == \A t \in Threads : WF_avars(Goes(t))
FairAsyncSpec == AsyncSpec /\ AsyncFairness

-----------------------------------------------------------------------------
(* Properties *)

(* A task whose poll answered Pending, and that nobody has asked to poll   *)
(* it again, holds a waker that wakes the task it was last polled in, and  *)
(* that waker can be found: it is in the registry, or a fire() or a        *)
(* close() has it and is about to wake the task.                           *)
PendingReachable ==
  \A t \in Threads :
    Task(t) /\ pc[t] = "park" /\ ~unparked[t] /\ ~(Lazy(t) /\ state[own[t]] = WOKEN) =>
      /\ wakes[own[t]] = ctx[t]
      /\ \/ own[t] \in Range(reg[Side(t)])
         \/ \E f \in Threads : held[f] = own[t] /\ pc[f] \in InFire

(* A task or a thread that waits and that nobody has woken.                *)
Sleeping(t) == /\ pc[t] = "park" /\ ~unparked[t]
               /\ ~(Lazy(t) /\ state[own[t]] = WOKEN)
(* Nothing goes on but waiting; a sink or a stream that was woken may be   *)
(* left alone by its user.                                                 *)
Settled(t) == \/ pc[t] \in {"idle", "gone"}
              \/ pc[t] = "park" /\ (Lazy(t) \/ ~unparked[t])

(* No lost wakeup, whatever mix of threads, futures, sinks and streams     *)
(* waits: once nothing goes on but waiting, no receiver that nobody has    *)
(* woken sleeps beside a message, and no sender beside room.  Futures that *)
(* are dropped hand their wakeup on; sinks and streams whose user just     *)
(* "does not call poll again" take nobody's turn.  (The wakeup that wake() *)
(* stores over a waker abandoned meanwhile is the one exception.)          *)
NoPendingLost ==
  (\A t \in Threads : Settled(t)) /\ ~swallowed =>
    \A t \in Threads : Sleeping(t) =>
      /\ count[Other(Side(t))] > 0
      /\ IF t \in Receivers THEN queue = <<>> ELSE Len(queue) = Cap

(* A future that is Pending when the other side has gone is polled to its  *)
(* end, or dropped, and a blocking call returns: when a side has closed,   *)
(* there comes a time when nobody waits for it any more (a sink or a       *)
(* stream waits for its user).                                             *)
ClosedEnds ==
  (\E side \in Sides : count[side] = 0) ~>
    \A t \in Threads : count[Other(Side(t))] = 0 =>
                         pc[t] \in {"idle", "gone"} \/ Lazy(t)

=============================================================================
