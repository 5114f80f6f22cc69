----------------------- MODULE ChannelMessageProofs -----------------------
(***************************************************************************)
(* The fate of a message, for any number of senders and receivers, any     *)
(* capacity and any number of calls: sending is atomic, and Disconnected   *)
(* is only answered by a drained channel.                                  *)
(***************************************************************************)
EXTENDS ChannelProofs

(* The provers of a leaf that names none, in this order, with time in      *)
(* seconds that is enough on a slow machine too.                           *)
USE ZenonT(4), SMTT(60), Z3T(60), ZenonT(60)

-----------------------------------------------------------------------------
(* Where a message is *)

Clearing == {"clear_one", "clear_all"}
Trying == {"s_first", "s_try", "s_reg", "s_check", "commit", "closed?", "park",
           "s_uncertain", "s_closed", "timeout"}

(* A sender at label l with continuation r has not pushed its message yet, *)
(* or has pushed it.                                                       *)
Unsent(l, r) ==
  l \in Trying \/ (l \in InFire \cup Clearing /\ r \in {"timeout", "s_try"})
Sent(l, r) ==
  l \in {"ok", "cancel"} \/ (l \in InFire \cup Clearing /\ r \in {"ok", "cancel"})

InChannel == Range(queue) \cup taken
Known == InChannel \cup accepted \cup rejected
Fresh == \A m \in Known : m[2] <= nops[m[1]]
SenderInv ==
  \A s \in Senders :
    /\ Unsent(pc[s], ret[s]) => Msg(s) \notin Known
    /\ Sent(pc[s], ret[s]) => Msg(s) \in InChannel /\ Msg(s) \notin rejected
MsgInv == SendAtomic /\ Fresh /\ SenderInv

(* A step that moves thread t to label l and no message.                   *)
MsgMove(t, l) ==
  /\ pc' = [pc EXCEPT ![t] = l]
  /\ \A u \in Threads : u # t => ret'[u] = ret[u]
  /\ t \in Senders => /\ Unsent(l, ret'[t]) => Unsent(pc[t], ret[t])
                      /\ Sent(l, ret'[t]) => Sent(pc[t], ret[t])

(* The messages are pairs of a sender and a number.                        *)
LEMMA KnownType ==
  ASSUME TypeInv
  PROVE  /\ Known \subseteq Messages
         /\ \A m \in Known : m[1] \in Senders /\ m[2] \in Nat
<1>1. Range(queue) \subseteq Messages
  BY DEF TypeInv, MsgType, Range
<1>2. Known \subseteq Messages
  BY <1>1 DEF TypeInv, MsgType, Known, InChannel
<1> QED
  BY <1>2 DEF Messages

(* Such a step keeps the invariant.                                        *)
LEMMA MsgKept ==
  ASSUME TypeInv, MsgInv, NEW t \in Threads, NEW l, MsgMove(t, l),
         UNCHANGED <<queue, accepted, rejected, taken>>,
         \A s \in Senders : nops'[s] = nops[s]
  PROVE  MsgInv'
<1>1. SendAtomic'
  BY DEF MsgInv, SendAtomic
<1>2. Known' = Known /\ InChannel' = InChannel
  BY DEF Known, InChannel
<1>3. Fresh'
  BY <1>2, KnownType DEF MsgInv, Fresh
<1>4. SenderInv'
  <2> SUFFICES ASSUME NEW s \in Senders
               PROVE  /\ Unsent(pc'[s], ret'[s]) => Msg(s) \notin Known
                      /\ Sent(pc'[s], ret'[s])
                           => Msg(s) \in InChannel /\ Msg(s) \notin rejected
    BY <1>2 DEF SenderInv, Unsent, Sent, Msg
  <2>1. /\ Unsent(pc'[s], ret'[s]) => Unsent(pc[s], ret[s])
        /\ Sent(pc'[s], ret'[s]) => Sent(pc[s], ret[s])
    BY SideType DEF MsgMove, TypeInv, CallType
  <2> QED BY <2>1 DEF MsgInv, SenderInv
<1> QED
  BY <1>1, <1>3, <1>4 DEF MsgInv

(* Two senders never have the same message.                                *)
LEMMA MsgDistinct ==
  ASSUME NEW s, NEW u, s # u
  PROVE  Msg(s) # Msg(u)
BY DEF Msg

(* A push adds the sender's message, which was nowhere.                    *)
LEMMA PushMsg ==
  ASSUME TypeInv, MsgInv, NEW s \in Senders, NEW then \in {"ok", "cancel"},
         Unsent(pc[s], ret[s]), Push(s, then)
  PROVE  MsgInv'
<1> DEFINE m == Msg(s)
<1>1. m \in Messages /\ m \notin Known /\ queue \in Seq(Messages)
  BY MsgIsMessage DEF TypeInv, MsgType, MsgInv, SenderInv
<1>2. /\ queue' = Append(queue, m)
      /\ UNCHANGED <<nops, accepted, rejected, taken>>
      /\ pc' = [pc EXCEPT ![s] = "f_first"] /\ ret' = [ret EXCEPT ![s] = then]
  BY DEF Push, StartFire, Goto, history
<1>3. /\ Range(queue') = Range(queue) \cup {m} /\ Len(queue') = Len(queue) + 1
      /\ \A i \in 1..Len(queue) : queue'[i] = queue[i]
      /\ queue'[Len(queue) + 1] = m
  BY <1>1, <1>2, PushedMessages
<1>4. Known' = Known \cup {m} /\ InChannel' = InChannel \cup {m}
  BY <1>2, <1>3 DEF Known, InChannel
<1>5. SendAtomic'
  <2>1. m \notin Range(queue) /\ m \notin taken /\ m \notin rejected
    BY <1>1 DEF Known, InChannel
  <2>2. \A i, j \in 1..Len(queue') : queue'[i] = queue'[j] => i = j
    <3>1. \A i \in 1..Len(queue) : queue[i] # m
      BY <1>1, <2>1 DEF Range
    <3> QED BY <1>1, <1>3, <3>1 DEF MsgInv, SendAtomic
  <2> HIDE DEF m
  <2> QED BY <1>2, <1>3, <2>1, <2>2 DEF MsgInv, SendAtomic
<1>6. Fresh'
  <2>1. m[2] <= nops[m[1]]
    BY SideType DEF Msg, TypeInv, CallType
  <2> QED BY <1>2, <1>4, <2>1 DEF MsgInv, Fresh
<1>7. SenderInv'
  <2> SUFFICES ASSUME NEW u \in Senders
               PROVE  /\ Unsent(pc'[u], ret'[u]) => Msg(u) \notin Known'
                      /\ Sent(pc'[u], ret'[u])
                           => Msg(u) \in InChannel' /\ Msg(u) \notin rejected
    BY <1>2 DEF SenderInv, Unsent, Sent, Msg
  <2>1. CASE u = s
    <3>1. ~Unsent("f_first", then)
      BY DEF Unsent, InFire, Trying
    <3>2. pc'[s] = "f_first" /\ ret'[s] = then
      BY <1>2, SideType DEF TypeInv, CallType
    <3>3. m \in InChannel' /\ m \notin rejected
      BY <1>1, <1>4 DEF Known
    <3> QED BY <2>1, <3>1, <3>2, <3>3
  <2>2. CASE u # s
    <3>1. pc'[u] = pc[u] /\ ret'[u] = ret[u] /\ Msg(u) # m
      BY <1>2, <2>2, SideType, MsgDistinct DEF TypeInv, CallType
    <3> QED BY <3>1, <1>4 DEF MsgInv, SenderInv
  <2> QED BY <2>1, <2>2
<1> QED
  BY <1>5, <1>6, <1>7 DEF MsgInv

(* A pop moves the oldest message from the queue to the taken ones.        *)
LEMMA TakeMsg ==
  ASSUME TypeInv, MsgInv, NEW r \in Receivers, NEW then, Take(r, then)
  PROVE  MsgInv'
<1> DEFINE m == Head(queue)
<1>1. /\ queue # <<>> /\ queue \in Seq(Messages)
      /\ queue' = Tail(queue) /\ taken' = taken \cup {m}
      /\ UNCHANGED <<nops, accepted, rejected>>
      /\ pc' = [pc EXCEPT ![r] = "f_first"] /\ ret' = [ret EXCEPT ![r] = then]
  BY DEF Take, StartFire, Goto, TypeInv, MsgType
<1>2. /\ Len(queue') = Len(queue) - 1 /\ queue' \in Seq(Messages)
      /\ \A i \in 1..Len(queue') : queue'[i] = queue[i + 1]
      /\ m = queue[1] /\ Range(queue) = Range(queue') \cup {m}
  BY <1>1, PoppedMessages
<1>3. InChannel' = InChannel /\ Known' = Known
  BY <1>1, <1>2 DEF Known, InChannel
<1>4. SendAtomic'
  <2>1. \A i, j \in 1..Len(queue) : queue[i] = queue[j] => i = j
    BY DEF MsgInv, SendAtomic
  <2>2. \A i \in 1..Len(queue') : i + 1 \in 1..Len(queue) /\ i + 1 # 1
    BY <1>1, <1>2
  <2>3. 1 \in 1..Len(queue)
    BY <1>1
  <2>4. m \notin Range(queue')
    <3>1. \A i \in 1..Len(queue') : queue'[i] # m
      BY <1>2, <2>1, <2>2, <2>3
    <3> QED BY <1>2, <3>1 DEF Range
  <2>5. \A i, j \in 1..Len(queue') : queue'[i] = queue'[j] => i = j
    BY <1>1, <1>2, <2>1, <2>2
  <2> HIDE DEF m
  <2> QED BY <1>1, <1>2, <2>4, <2>5 DEF MsgInv, SendAtomic
<1>5. Fresh'
  BY <1>1, <1>3 DEF MsgInv, Fresh
<1>6. SenderInv'
  <2>1. \A u \in Senders : pc'[u] = pc[u] /\ ret'[u] = ret[u]
    BY <1>1, SideType DEF TypeInv, CallType
  <2> QED
    BY <1>1, <1>3, <2>1 DEF MsgInv, SenderInv, Unsent, Sent, Msg
<1> QED
  BY <1>4, <1>5, <1>6 DEF MsgInv

(* A call that returns: Ok for a message that is in the channel, or the    *)
(* message back when it is nowhere.                                        *)
LEMMA ReturnMsg ==
  ASSUME TypeInv, MsgInv, NEW t \in Threads,
         pc' = [pc EXCEPT ![t] = "idle"], UNCHANGED <<queue, nops, ret, taken>>,
         \/ t \notin Senders /\ UNCHANGED <<accepted, rejected>>
         \/ /\ t \in Senders /\ Sent(pc[t], ret[t])
            /\ accepted' = accepted \cup {Msg(t)} /\ UNCHANGED rejected
         \/ /\ t \in Senders /\ Unsent(pc[t], ret[t])
            /\ rejected' = rejected \cup {Msg(t)} /\ UNCHANGED accepted
  PROVE  MsgInv'
<1>1. ~Unsent("idle", ret'[t]) /\ ~Sent("idle", ret'[t])
  BY DEF Unsent, Sent, Trying, InFire, Clearing
<1>2. InChannel' = InChannel
  BY DEF InChannel
<1>3. pc'[t] = "idle" /\ \A u \in Threads : u # t => pc'[u] = pc[u]
  BY DEF TypeInv, CallType
<1>4. CASE t \notin Senders /\ UNCHANGED <<accepted, rejected>>
  BY <1>4, <1>1, MsgKept, ZenonT(60) DEF MsgMove
<1>5. CASE /\ t \in Senders /\ Sent(pc[t], ret[t])
           /\ accepted' = accepted \cup {Msg(t)} /\ UNCHANGED rejected
  <2>1. Msg(t) \in InChannel
    BY <1>5 DEF MsgInv, SenderInv
  <2>2. Known' = Known
    BY <1>2, <1>5, <2>1 DEF Known
  <2>3. SendAtomic'
    BY <1>5, <2>1 DEF MsgInv, SendAtomic, InChannel
  <2>4. Fresh'
    BY <2>2 DEF MsgInv, Fresh
  <2>5. SenderInv'
    BY <1>1, <1>2, <1>3, <1>5, <2>2, SideType
       DEF MsgInv, SenderInv, Unsent, Sent, Msg
  <2> QED BY <2>3, <2>4, <2>5 DEF MsgInv
<1>6. CASE /\ t \in Senders /\ Unsent(pc[t], ret[t])
           /\ rejected' = rejected \cup {Msg(t)} /\ UNCHANGED accepted
  <2>1. Msg(t) \notin Known
    BY <1>6 DEF MsgInv, SenderInv
  <2>2. Known' = Known \cup {Msg(t)}
    BY <1>2, <1>6 DEF Known
  <2>3. SendAtomic'
    BY <1>6, <2>1 DEF MsgInv, SendAtomic, Known, InChannel
  <2>4. Fresh'
    <3>1. Msg(t)[2] <= nops[Msg(t)[1]]
      BY DEF Msg, TypeInv, CallType
    <3> QED BY <2>2, <3>1 DEF MsgInv, Fresh
  <2>5. SenderInv'
    <3> SUFFICES ASSUME NEW u \in Senders, u # t
                 PROVE  /\ Unsent(pc[u], ret[u]) => Msg(u) \notin Known'
                        /\ Sent(pc[u], ret[u])
                             => Msg(u) \in InChannel /\ Msg(u) \notin rejected'
      BY <1>1, <1>2, <1>3, SideType DEF SenderInv, Unsent, Sent, Msg
    <3>1. Msg(u) # Msg(t)
      BY MsgDistinct
    <3> QED BY <1>6, <2>2, <3>1 DEF MsgInv, SenderInv
  <2> QED BY <2>3, <2>4, <2>5 DEF MsgInv
<1> QED
  BY <1>4, <1>5, <1>6

(* A send begins with a number no message of its sender has yet.           *)
LEMMA StartMsg ==
  ASSUME TypeInv, MsgInv, NEW s \in Senders, SendStart(s)
  PROVE  MsgInv'
<1>1. PICK l \in {"s_closed", "s_first"} : pc' = [pc EXCEPT ![s] = l]
  BY ZenonT(60) DEF SendStart, Goto
<1>2. /\ nops' = [nops EXCEPT ![s] = nops[s] + 1] /\ nops[s] \in Nat
      /\ UNCHANGED <<queue, ret, accepted, rejected, taken>>
  BY SideType DEF SendStart, history, TypeInv, CallType
<1>3. Known' = Known /\ InChannel' = InChannel
  BY <1>2 DEF Known, InChannel
<1>4. SendAtomic'
  BY <1>2 DEF MsgInv, SendAtomic
<1>5. nops'[s] = nops[s] + 1 /\ \A u \in Senders : u # s => nops'[u] = nops[u]
  BY <1>2, SideType DEF TypeInv, CallType
<1>6. Fresh'
  BY <1>2, <1>3, <1>5, KnownType DEF MsgInv, Fresh
<1>7. SenderInv'
  <2> SUFFICES ASSUME NEW u \in Senders
               PROVE  /\ Unsent(pc'[u], ret[u]) => <<u, nops'[u]>> \notin Known
                      /\ Sent(pc'[u], ret[u])
                           => /\ <<u, nops'[u]>> \in InChannel
                              /\ <<u, nops'[u]>> \notin rejected
    BY <1>2, <1>3 DEF SenderInv, Unsent, Sent, Msg
  <2>1. CASE u = s
    <3>1. pc'[s] = l /\ ~Sent(l, ret[s])
      BY <1>1, SideType DEF TypeInv, CallType, Sent, InFire, Clearing
    <3>2. <<s, nops'[s]>> \notin Known
      BY <1>2, <1>5 DEF MsgInv, Fresh
    <3> QED BY <2>1, <3>1, <3>2
  <2>2. CASE u # s
    <3>1. pc'[u] = pc[u] /\ <<u, nops'[u]>> = Msg(u)
      BY <1>1, <1>5, <2>2, SideType DEF TypeInv, CallType, Msg
    <3> QED BY <3>1 DEF MsgInv, SenderInv
  <2> QED BY <2>1, <2>2
<1> QED
  BY <1>4, <1>6, <1>7 DEF MsgInv

(* A step of fire() moves its thread inside fire() or back to the call.    *)
LEMMA FireStepMoves ==
  ASSUME TypeInv, NEW t \in Threads, FireStep(t)
  PROVE  pc[t] \in InFire /\ FireMove(t)
<1>1. CASE PopFirst(t)
  BY <1>1
     DEF PopFirst, Pop, PopNone, EndFire, Goto, FireMove, InFire, TypeInv, FireType
<1>2. CASE PopAgain(t)
  BY <1>2
     DEF PopAgain, Pop, PopNone, EndFire, Goto, FireMove, InFire, TypeInv, FireType
<1>3. CASE WakeLoad(t) \/ WakeStore(t) \/ WakeCas(t) \/ WakeUnpark(t)
  BY <1>3, WakeMoves
<1> QED
  BY <1>1, <1>2, <1>3 DEF FireStep

(* The steps of a call that move no message.                               *)
LEMMA CallMsg ==
  ASSUME TypeInv, MsgInv, NEW t \in Threads,
         CallStep(t) \/ Timeout(t) \/ Drop(t) \/ AddHandle(t)
  PROVE  MsgInv'
<1>1. ret[t] \in {"ok", "cancel", "timeout", "s_try"}
  BY DEF TypeInv, CallType
<1>2. CASE FireStep(t)
  <2>1. pc[t] \in InFire /\ FireMove(t)
    BY <1>2, FireStepMoves
  <2>2. PICK l : pc' = [pc EXCEPT ![t] = l] /\ (l = ret[t] \/ l \in InFire)
    BY <2>1 DEF FireMove
  <2>3. MsgMove(t, l)
    BY <1>1, <2>1, <2>2 DEF FireMove, MsgMove, Unsent, Sent, Trying, InFire,
       Clearing
  <2> QED BY ZenonT(60), <2>1, <2>3, MsgKept, SideType DEF FireMove, history
<1>3. CASE ReturnOk(t)
  <2>1. Sent(pc[t], ret[t])
    BY <1>3 DEF ReturnOk, Sent
  <2> QED
    BY <1>3, <2>1, ReturnMsg, ZenonT(60) DEF ReturnOk, Return, Goto, Accept, history
<1>4. CASE ReturnTimeout(t)
  <2>1. Unsent(pc[t], ret[t])
    BY <1>4 DEF ReturnTimeout, Unsent, Trying
  <2> QED
    BY <1>4, <2>1, ReturnMsg, ZenonT(60)
       DEF ReturnTimeout, Return, Goto, Reject, history
<1>5. CASE CancelWaker(t)
  <2>1. PICK l \in {"ok", "clear_one"} : pc' = [pc EXCEPT ![t] = l]
    BY <1>5 DEF CancelWaker, Goto
  <2>2. MsgMove(t, l)
    BY <1>1, <1>5, <2>1
       DEF CancelWaker, Goto, TypeInv, CallType, MsgMove, Unsent, Sent,
       Trying, InFire, Clearing
  <2> QED BY <1>5, <2>2, MsgKept DEF CancelWaker, history
<1>6. CASE Clear(t)
  <2>1. MsgMove(t, ret[t])
    BY <1>1, <1>6
       DEF Clear, Goto, MsgMove, Unsent, Sent, Trying, InFire, Clearing
  <2> QED BY ZenonT(60), <1>6, <2>1, MsgKept DEF Clear, history
<1>7. CASE CommitWaiting(t) \/ ClosedCheck(t) \/ Park(t)
  <2>1. PICK l \in {"closed?", "park", "s_try", "r_try", "s_closed", "r_last"} :
          pc' = [pc EXCEPT ![t] = l]
    BY <1>7, OnStateMoves DEF CommitWaiting, ClosedCheck, Park, Goto
  <2>2. pc[t] \in Trying /\ UNCHANGED <<queue, nops, ret, history>>
    BY <1>7 DEF CommitWaiting, ClosedCheck, Park, Local, Trying
  <2>3. MsgMove(t, l)
    BY <2>1, <2>2 DEF MsgMove, Unsent, Sent, Trying, InFire, Clearing
  <2> QED BY <2>2, <2>3, MsgKept DEF history
<1>8. CASE Timeout(t)
  <2>1. PICK l \in {"clear_all", "f_first", "timeout"} :
          /\ pc' = [pc EXCEPT ![t] = l]
          /\ ret' = [ret EXCEPT ![t] = "timeout"] \/ (l = "timeout" /\ ret' = ret)
    BY <1>8 DEF Timeout, Abandon, StartFire, Goto
  <2>2. MsgMove(t, l)
    BY ZenonT(60), <1>8, <2>1
       DEF Timeout, Abandon, TypeInv, CallType, MsgMove, Unsent, Sent, Trying, InFire,
       Clearing
  <2> QED BY ZenonT(60), <1>8, <2>2, MsgKept DEF Timeout, Abandon, history
<1>9. CASE Close(t) \/ Drop(t) \/ AddHandle(t)
  <2>1. PICK l \in {"close", "gone", "idle"} : pc' = [pc EXCEPT ![t] = l]
    BY <1>9, ZenonT(60) DEF Close, Drop, AddHandle, Goto
  <2>2. UNCHANGED <<queue, nops, ret, history>>
    BY <1>9, ZenonT(60) DEF Close, Drop, AddHandle
  <2>3. MsgMove(t, l)
    BY <2>1, <2>2 DEF MsgMove, Unsent, Sent, Trying, InFire, Clearing
  <2> QED BY <2>2, <2>3, MsgKept DEF history
<1> QED
  BY <1>2, <1>3, <1>4, <1>5, <1>6, <1>7, <1>8, <1>9 DEF CallStep

(* The steps of a receiver: a pop, or no message moves.                    *)
LEMMA RecvMsg ==
  ASSUME TypeInv, MsgInv, NEW r \in Receivers, RecvStart(r) \/ RecvStep(r)
  PROVE  MsgInv'
<1>1. r \in Threads /\ r \notin Senders
  BY SideType
<1>2. CASE \E then : Take(r, then)
  BY <1>2, TakeMsg
<1>3. CASE /\ \E l : pc' = [pc EXCEPT ![r] = l]
           /\ UNCHANGED <<queue, ret, accepted, rejected, taken>>
           /\ \A s \in Senders : nops'[s] = nops[s]
  BY <1>1, <1>3, MsgKept, ZenonT(60) DEF MsgMove
<1>4. \A s \in Senders : nops' = [nops EXCEPT ![r] = @ + 1] => nops'[s] = nops[s]
  BY <1>1, SideType DEF TypeInv, CallType
<1>5. CASE RecvStart(r)
  BY ZenonT(60), <1>3, <1>4, <1>5 DEF RecvStart, Goto, history
<1>6. CASE RecvTry(r) \/ RecvReg(r) \/ RecvFinal(r)
  BY <1>2, <1>3, <1>6 DEF RecvTry, RecvReg, RecvFinal, Local, Goto, history
<1>7. CASE RecvLast(r) \/ TryRecvClosed(r) \/ TryRecvPop(r)
  BY <1>2, <1>3, <1>7 DEF RecvLast, TryRecvClosed, TryRecvPop, Local, Goto, Return,
     history
<1> QED
  BY <1>5, <1>6, <1>7 DEF RecvStep

(* The steps of a sender: a push, a rejection, or no message moves.        *)
LEMMA SendMsg ==
  ASSUME TypeInv, MsgInv, NEW s \in Senders, SendStep(s)
  PROVE  MsgInv'
<1>1. s \in Threads /\ Unsent(pc[s], ret[s])
  BY ZenonT(60), SideType DEF SendStep, SendFirst, SendTry, SendReg, SenderDoubleCheck,
     CancelReuse, SenderSnooze, SendClosed, Unsent, Trying
<1>2. CASE Push(s, "ok") \/ Push(s, "cancel")
  BY <1>1, <1>2, PushMsg
<1>3. CASE /\ \E l \in Trying \cup {"r_try", "r_last"} :
                pc' = [pc EXCEPT ![s] = l]
           /\ UNCHANGED <<queue, nops, ret, history>>
  <2>1. PICK l \in Trying \cup {"r_try", "r_last"} : pc' = [pc EXCEPT ![s] = l]
    BY <1>3, ZenonT(60)
  <2>2. MsgMove(s, l)
    BY <1>1, <1>3, <2>1, ZenonT(60)
       DEF MsgMove, Unsent, Sent, Trying, InFire, Clearing
  <2> QED BY <1>1, <1>3, <2>2, MsgKept DEF history
<1>4. CASE SendFirst(s)
  BY <1>2, <1>3, <1>4 DEF SendFirst, Local, Goto, Trying
<1>5. CASE SendTry(s)
  BY <1>2, <1>3, <1>5 DEF SendTry, Local, Goto, Trying
<1>6. CASE SendReg(s)
  BY <1>3, <1>6 DEF SendReg, Goto, Trying
<1>7. CASE SenderDoubleCheck(s)
  BY <1>2, <1>3, <1>7 DEF SenderDoubleCheck, Local, Goto, Trying
<1>8. CASE CancelReuse(s)
  <2>1. CASE state[own[s]] >= WOKEN
    BY <1>3, <1>8, <2>1, OnStateMoves DEF CancelReuse, Trying
  <2>2. CASE ~(state[own[s]] >= WOKEN)
    <3>1. /\ pc' = [pc EXCEPT ![s] = "clear_one"]
          /\ ret' = [ret EXCEPT ![s] = "s_try"]
      BY <1>8, <2>2 DEF CancelReuse, Goto
    <3>2. MsgMove(s, "clear_one")
      BY <1>1, <3>1
         DEF MsgMove, TypeInv, CallType, Unsent, Sent, Trying, InFire,
         Clearing
    <3> QED BY <1>1, <1>8, <3>2, MsgKept DEF CancelReuse, history
  <2> QED BY <2>1, <2>2
<1>9. CASE SenderSnooze(s)
  BY <1>3, <1>9, OnStateMoves DEF SenderSnooze, Local, Trying
<1>10. CASE SendClosed(s)
  BY <1>1, <1>10, ReturnMsg, ZenonT(60) DEF SendClosed, Return, Goto, Reject
<1> QED
  BY <1>4, <1>5, <1>6, <1>7, <1>8, <1>9, <1>10 DEF SendStep

(* The invariant of the messages holds initially ...                       *)
LEMMA MsgInit == Init => MsgInv
<1> SUFFICES ASSUME Init PROVE MsgInv
  OBVIOUS
<1>1. /\ Known = {} /\ Range(queue) = {} /\ Len(queue) = 0
      /\ accepted = {} /\ rejected = {} /\ taken = {}
  BY DEF Init, Known, InChannel, Range
<1>2. \A s \in Senders : ~Unsent(pc[s], ret[s]) /\ ~Sent(pc[s], ret[s])
  BY SideType DEF Init, Unsent, Sent, Trying, InFire, Clearing
<1> QED
  BY <1>1, <1>2 DEF MsgInv, SendAtomic, Fresh, SenderInv

(* ... and every step keeps it.                                            *)
LEMMA MsgStep == TypeInv /\ MsgInv /\ [Next]_vars => MsgInv'
<1> SUFFICES ASSUME TypeInv, MsgInv, [Next]_vars PROVE MsgInv'
  OBVIOUS
<1>1. CASE UNCHANGED vars
  BY <1>1 DEF vars, history, MsgInv, SendAtomic, Fresh, SenderInv, Known,
     InChannel, Unsent, Sent, Msg
<1> QED
  BY <1>1, CallMsg, RecvMsg, SendMsg, StartMsg DEF Next, Terminated

(* send, try_send and send_timeout are atomic: what the call gives back is *)
(* not in the channel, what it accepts is, and nothing is there twice.     *)
THEOREM SendIsAtomic == Spec => []SendAtomic
<1>1. Spec => []MsgInv
  BY MsgInit, MsgStep, TypeInvariant, PTL DEF Spec
<1>2. MsgInv => SendAtomic
  BY DEF MsgInv
<1> QED
  BY <1>1, <1>2, PTL

-----------------------------------------------------------------------------
(* Who may answer Disconnected *)

(* The control points of a receiver between reg_waker and the end of the   *)
(* park loop, where the CLOSED state of its waker counts.                  *)
Registered == {"r_final", "commit", "closed?", "park"}
NoSender == count["tx"] = 0

(* Every way for a receiver to get to its last pop starts from tx_count    *)
(* at zero, directly or through the waker state that close_tx has stored.  *)
DiscInv ==
  /\ disconnected # {} => NoSender /\ queue = <<>>
  /\ \A t \in Threads : pc[t] = "close" => count[Side(t)] = 0
  /\ \A r \in Receivers :
       /\ pc[r] = "r_last" => NoSender
       /\ pc[r] \in Registered /\ state[own[r]] = CLOSED => NoSender
       /\ pc[r] = "closed?" /\ seen[r] = CLOSED => NoSender

(* A receiver's waker other than t's is closed by close_tx only.           *)
ClosedByLast(t) ==
  \A w \in Wakers :
    w[1] # t /\ Side(w[1]) = "rx" /\ state'[w] = CLOSED
      => state[w] = CLOSED \/ NoSender

(* What a step of thread t to label l must show of itself.                 *)
LEMMA DiscKept ==
  ASSUME TypeInv, DiscInv, NEW t \in Threads, NEW l, pc' = [pc EXCEPT ![t] = l],
         UNCHANGED count \/ Drop(t) \/ AddHandle(t),
         \A u \in Threads : u # t => own'[u] = own[u] /\ seen'[u] = seen[u],
         ClosedByLast(t),
         disconnected' # {} => NoSender /\ queue' = <<>>,
         l = "close" => count'[Side(t)] = 0,
         t \in Receivers => /\ l = "r_last" => NoSender
                            /\ l \in Registered /\ state'[own'[t]] = CLOSED
                                 => NoSender
                            /\ l = "closed?" /\ seen'[t] = CLOSED => NoSender
  PROVE  DiscInv'
<1>1. pc'[t] = l /\ \A u \in Threads : u # t => pc'[u] = pc[u]
  BY DEF TypeInv, CallType
<1>2. \A side \in Sides : count[side] = 0 => count'[side] = 0
  BY ZeroStays
<1>3. NoSender => NoSender'
  BY <1>2 DEF NoSender, Sides
<1>4. ASSUME NEW u \in Threads, pc'[u] = "close" PROVE count'[Side(u)] = 0
  BY <1>1, <1>2, <1>4, SideType DEF DiscInv
<1>5. ASSUME NEW r \in Receivers
      PROVE  /\ pc'[r] = "r_last" => NoSender
             /\ pc'[r] \in Registered /\ state'[own'[r]] = CLOSED => NoSender
             /\ pc'[r] = "closed?" /\ seen'[r] = CLOSED => NoSender
  <2>1. CASE r = t
    BY <1>1, <2>1
  <2>2. CASE r # t
    <3>1. /\ r \in Threads /\ Side(r) = "rx"
          /\ pc'[r] = pc[r] /\ own'[r] = own[r] /\ seen'[r] = seen[r]
      BY <1>1, <2>2, SideType
    <3>2. pc[r] \in Registered => own[r] \in Wakers /\ own[r][1] = r
      BY <3>1 DEF TypeInv, ControlInv, OwnInv, NeedsOwn, Holding, Registered
    <3>3. pc[r] \in Registered /\ state'[own[r]] = CLOSED => NoSender
      BY <2>2, <3>1, <3>2 DEF ClosedByLast, DiscInv
    <3> QED BY <3>1, <3>3 DEF DiscInv
  <2> QED BY <2>1, <2>2
<1> QED
  BY <1>3, <1>4, <1>5 DEF DiscInv

(* A label that is no reason to answer Disconnected.                       *)
Plain(l) == l \notin Registered \cup {"r_last", "close"}

(* A step of a call to such a label.                                       *)
LEMMA DiscPlain ==
  ASSUME TypeInv, DiscInv, NEW t \in Threads, NEW l, pc' = [pc EXCEPT ![t] = l],
         Plain(l), UNCHANGED <<queue, count, disconnected>>,
         \A u \in Threads : u # t => own'[u] = own[u] /\ seen'[u] = seen[u],
         ClosedByLast(t)
  PROVE  DiscInv'
BY DiscKept, ZenonT(60) DEF Plain, DiscInv, Registered

(* An unchanged state closes nobody.                                       *)
LEMMA StateSame == ASSUME NEW t, UNCHANGED state PROVE ClosedByLast(t)
BY DEF ClosedByLast

(* Registry::close of the last sender, on the receivers' registry.         *)
LEMMA CloseDisc ==
  ASSUME TypeInv, DiscInv, NEW t \in Threads, Close(t)
  PROVE  DiscInv'
<1> DEFINE side == Other(Side(t))
<1>1. /\ pc' = [pc EXCEPT ![t] = "gone"]
      /\ UNCHANGED <<queue, count, own, seen, history>>
      /\ count[Side(t)] = 0 /\ side \in Sides
  BY SideType DEF Close, Goto, DiscInv
<1>2. ASSUME NEW w \in Wakers, Side(w[1]) = "rx", state'[w] = CLOSED
      PROVE  state[w] = CLOSED \/ NoSender
  <2>1. state[w] = CLOSED \/ w \in Range(reg[side])
    BY <1>2 DEF Close
  <2>2. w \in Range(reg[side]) => Side(w[1]) = side
    <3> DEFINE q == reg[side]
    <3>1. q \in Seq(WakersOf(side))
      BY <1>1 DEF TypeInv, RegInv
    <3> HIDE DEF q, side
    <3>2. \A x \in Range(q) : x \in WakersOf(side)
      BY <3>1 DEF Range
    <3> QED BY <3>2 DEF WakersOf, q
  <2>3. side = "rx" => Side(t) = "tx"
    BY SideType DEF Other, Sides
  <2> QED BY <1>1, <1>2, <2>1, <2>2, <2>3 DEF NoSender
<1>3. ClosedByLast(t)
  BY <1>2 DEF ClosedByLast
<1>4. Plain("gone")
  BY DEF Plain, Registered
<1> QED
  BY <1>1, <1>3, <1>4, DiscPlain, ZenonT(60) DEF history

(* The last drop of a side leaves its count at zero.                       *)
LEMMA HandleDisc ==
  ASSUME TypeInv, DiscInv, NEW t \in Threads, Drop(t) \/ AddHandle(t)
  PROVE  DiscInv'
<1>1. PICK l \in {"close", "gone", "idle"} : pc' = [pc EXCEPT ![t] = l]
  BY DEF Drop, AddHandle, Goto
<1>2. UNCHANGED <<queue, state, own, seen, disconnected>>
  BY DEF Drop, AddHandle, waits, history
<1>3. l = "close" => count'[Side(t)] = 0
  <2>1. CASE Drop(t)
    <3>1. count[Side(t)] > 0 /\ Side(t) \in Sides /\ count[Side(t)] \in Nat
      BY <2>1, HandleCounted, SideType DEF Drop, Left, TypeInv, CountType
    <3>2. l = "close" => count[Side(t)] <= 1
      <4>1. pc'[t] = l
        BY <1>1 DEF TypeInv, CallType
      <4>2. count[Side(t)] > 1 => pc'[t] = "gone"
        BY <2>1, <3>1 DEF Drop, Goto, TypeInv, CallType
      <4> QED BY <3>1, <4>1, <4>2
    <3> QED BY <2>1, <3>1, <3>2 DEF Drop, TypeInv, CountType
  <2>2. CASE AddHandle(t)
    BY <1>1, <2>2 DEF AddHandle, Goto, TypeInv, CallType
  <2> QED BY <2>1, <2>2
<1>4. l \notin Registered /\ l # "r_last" /\ l # "closed?"
  BY DEF Registered
<1> QED
  BY <1>1, <1>2, <1>3, <1>4, StateSame, DiscKept, ZenonT(60) DEF DiscInv

(* What a state read at the park loop, or seen at commit_waiting, leads    *)
(* a receiver to.                                                          *)
LEMMA OnStateDisc ==
  ASSUME NEW t \in Receivers, NEW s \in WakerStates, OnState(t, s)
  PROVE  \E l \in {"park", "r_try", "r_last"} :
           pc' = [pc EXCEPT ![t] = l] /\ (l = "r_last" => s = CLOSED)
<1>1. t \notin Senders
  BY SideType
<1>2. s < WOKEN \/ s = WOKEN \/ (s = CLOSED /\ ~(s < WOKEN) /\ s # WOKEN)
  BY DEF WakerStates, INIT, WAITING, WOKEN, CLOSED
<1>3. CASE s < WOKEN
  BY <1>3 DEF OnState, Goto
<1>4. CASE s = WOKEN
  BY <1>1, <1>4 DEF OnState, Goto, WOKEN
<1>5. CASE s = CLOSED /\ ~(s < WOKEN) /\ s # WOKEN
  BY <1>1, <1>5 DEF OnState, Goto
<1> QED
  BY <1>2, <1>3, <1>4, <1>5

(* A receiver at commit_waiting, at the check of tx_count or in the park   *)
(* loop goes to its last pop for a reason.                                 *)
LEMMA WaitDisc ==
  ASSUME TypeInv, DiscInv, NEW t \in Threads,
         CommitWaiting(t) \/ ClosedCheck(t) \/ Park(t)
  PROVE  DiscInv'
<1>1. /\ pc[t] \in Registered /\ own[t] \in Wakers /\ own[t][1] = t
      /\ state[own[t]] \in WakerStates /\ seen[t] \in WakerStates
  BY DEF CommitWaiting, ClosedCheck, Park, Registered, TypeInv, ControlInv, OwnInv,
     NeedsOwn, Holding, WaitType, CallType
<1>2. /\ UNCHANGED <<queue, count, own, disconnected>>
      /\ \A u \in Threads : u # t => seen'[u] = seen[u]
  BY DEF CommitWaiting, ClosedCheck, Park, Local, Continues, history, TypeInv, CallType
<1>3. disconnected' # {} => NoSender /\ queue' = <<>>
  BY <1>2 DEF DiscInv
<1>4. t \in Receivers /\ state[own[t]] = CLOSED => NoSender
  BY <1>1 DEF DiscInv
<1>5. CASE CommitWaiting(t)
  <2>1. pc' = [pc EXCEPT ![t] = "closed?"]
    BY <1>5 DEF CommitWaiting, Goto
  <2>2. /\ seen'[t] = CLOSED => state[own[t]] = CLOSED
        /\ \A w \in Wakers : state'[w] = CLOSED => state[w] = CLOSED
    BY <1>5 DEF CommitWaiting, TypeInv, CallType, WaitType, WAITING, CLOSED
  <2>3. ClosedByLast(t)
    BY <2>2 DEF ClosedByLast
  <2>4. state'[own'[t]] = CLOSED => state[own[t]] = CLOSED
    BY <1>1, <1>2, <2>2
  <2> QED
    BY <1>2, <1>3, <1>4, <2>1, <2>2, <2>3, <2>4, DiscKept, ZenonT(60)
<1>6. CASE ClosedCheck(t) \/ Park(t)
  <2>1. UNCHANGED state /\ ClosedByLast(t)
    BY <1>6, StateSame DEF ClosedCheck, Park, Local, waits
  <2>2. PICK l \in {"park", "s_try", "r_try", "s_closed", "r_last"} :
          pc' = [pc EXCEPT ![t] = l]
    BY <1>6, OnStateMoves DEF ClosedCheck, Park, Goto
  <2>3. t \in Receivers /\ l = "r_last" => NoSender
    <3> SUFFICES ASSUME t \in Receivers, ~NoSender, pc'[t] = "r_last" PROVE FALSE
      BY <2>2 DEF TypeInv, CallType
    <3>1. CASE ClosedCheck(t)
      <4>1. pc[t] = "closed?" /\ OnState(t, seen[t])
        BY <3>1, SideType DEF ClosedCheck, Other, NoSender
      <4>2. seen[t] = CLOSED
        BY <1>1, <4>1, OnStateDisc DEF TypeInv, CallType
      <4> QED BY <4>1, <4>2 DEF DiscInv
    <3>2. CASE Park(t)
      <4>1. OnState(t, state[own[t]])
        BY <3>2 DEF Park
      <4>2. state[own[t]] = CLOSED
        BY <1>1, <4>1, OnStateDisc DEF TypeInv, CallType
      <4> QED BY <1>4, <4>2
    <3> QED BY <1>6, <3>1, <3>2
  <2> QED
    BY <1>2, <1>3, <1>4, <2>1, <2>2, <2>3, DiscKept, ZenonT(60)
<1> QED
  BY <1>5, <1>6

(* The other steps of a call give no reason.                               *)
LEMMA CallDisc ==
  ASSUME TypeInv, DiscInv, NEW t \in Threads,
         \/ FireStep(t) \/ ReturnOk(t) \/ ReturnTimeout(t) \/ CancelWaker(t)
         \/ Clear(t) \/ Timeout(t)
  PROVE  DiscInv'
<1>1. \A l \in InFire \cup {"ok", "cancel", "timeout", "s_try", "idle",
                            "clear_one", "clear_all"} : Plain(l)
  BY DEF Plain, Registered, InFire
<1>2. ret[t] \in {"ok", "cancel", "timeout", "s_try"}
  BY DEF TypeInv, CallType
<1>3. CASE FireStep(t)
  <2>1. FireMove(t)
    BY <1>3, FireStepMoves
  <2>2. PICK l : pc' = [pc EXCEPT ![t] = l] /\ (l = ret[t] \/ l \in InFire)
    BY <2>1 DEF FireMove
  <2>3. state' = state \/ state' = [state EXCEPT ![held[t]] = WOKEN]
    BY <1>3, ZenonT(60)
       DEF FireStep, PopFirst, PopAgain, WakeLoad, WakeStore, WakeCas,
       WakeUnpark, SetWoken
  <2>4. ClosedByLast(t)
    BY <2>3 DEF ClosedByLast, TypeInv, WaitType, WOKEN, CLOSED
  <2> QED
    BY <1>1, <1>2, <2>1, <2>2, <2>4, DiscPlain, ZenonT(60) DEF FireMove, history
<1>4. CASE ReturnOk(t) \/ ReturnTimeout(t)
  <2>1. /\ pc' = [pc EXCEPT ![t] = "idle"] /\ own' = [own EXCEPT ![t] = Nil]
        /\ UNCHANGED <<queue, count, state, seen, disconnected>>
    BY <1>4 DEF ReturnOk, ReturnTimeout, Return, Goto, Accept, Reject, waits,
       history
  <2> QED BY <1>1, <2>1, StateSame, DiscPlain, ZenonT(60) DEF TypeInv, CallType
<1>5. CASE CancelWaker(t) \/ Clear(t)
  <2>1. PICK l \in {"ok", "cancel", "timeout", "s_try", "clear_one"} :
          pc' = [pc EXCEPT ![t] = l]
    BY ZenonT(60), <1>2, <1>5 DEF CancelWaker, Clear, Goto
  <2>2. /\ UNCHANGED <<queue, count, state, seen, disconnected>>
        /\ \A u \in Threads : u # t => own'[u] = own[u]
    BY ZenonT(60), <1>5 DEF CancelWaker, Clear, waits, history, TypeInv, CallType
  <2> QED BY <1>1, <2>1, <2>2, StateSame, DiscPlain, ZenonT(60)
<1>6. CASE Timeout(t)
  <2>1. PICK l \in {"clear_all", "f_first", "timeout"} :
          pc' = [pc EXCEPT ![t] = l]
    BY ZenonT(60), <1>6 DEF Timeout, Abandon, StartFire, Goto
  <2>2. UNCHANGED <<queue, count, own, seen, disconnected>>
    BY ZenonT(60), <1>6 DEF Timeout, Abandon, history
  <2>3. own[t] \in Wakers /\ own[t][1] = t
    BY ZenonT(60), <1>6 DEF Timeout, Abandon, TypeInv, ControlInv, OwnInv, NeedsOwn, Holding
  <2>4. state' = state \/ state' = [state EXCEPT ![own[t]] = CLOSED]
    BY ZenonT(60), <1>6 DEF Timeout, Abandon
  <2>5. ClosedByLast(t)
    BY ZenonT(60), <2>3, <2>4 DEF ClosedByLast, TypeInv, WaitType
  <2>6. l \in InFire \cup {"clear_all", "timeout"}
    BY DEF InFire
  <2> QED BY <1>1, <2>1, <2>2, <2>5, <2>6, DiscPlain, ZenonT(60)
<1> QED
  BY <1>3, <1>4, <1>5, <1>6

(* reg_waker closes nobody.                                                *)
LEMMA RegDisc ==
  ASSUME TypeInv, NEW t \in Threads, NEW w, RegWaker(t, w)
  PROVE  /\ ClosedByLast(t)
         /\ w \in Wakers => state'[w] # CLOSED
<1>1. state' = [state EXCEPT ![w] = INIT] /\ state \in [Wakers -> WakerStates]
  BY DEF RegWaker, TypeInv, WaitType
<1>2. INIT # CLOSED
  BY DEF INIT, CLOSED
<1>3. \A x \in Wakers : state'[x] = CLOSED => state[x] = CLOSED
  BY <1>1, <1>2
<1> QED
  BY <1>1, <1>2, <1>3 DEF ClosedByLast

(* Nobody pops from the channel once a receiver was told Disconnected.     *)
LEMMA TakeDisc ==
  ASSUME TypeInv, DiscInv, NEW r \in Receivers, NEW then, Take(r, then)
  PROVE  DiscInv'
<1>1. /\ pc' = [pc EXCEPT ![r] = "f_first"] /\ queue # <<>>
      /\ UNCHANGED <<count, state, own, seen, disconnected>>
  BY DEF Take, StartFire, Goto, waits
<1>2. disconnected' = {}
  BY <1>1 DEF DiscInv
<1>3. "f_first" \notin Registered \cup {"r_last", "close", "closed?"}
  BY DEF Registered
<1> QED
  BY <1>1, <1>2, <1>3, StateSame, DiscKept, SideType, ZenonT(60)

(* The steps of a receiver: only its load of tx_count and its last pop     *)
(* matter.                                                                 *)
LEMMA RecvDisc ==
  ASSUME TypeInv, DiscInv, NEW r \in Receivers, RecvStart(r) \/ RecvStep(r)
  PROVE  DiscInv'
<1>1. r \in Threads
  BY SideType
<1>2. CASE \E then : Take(r, then)
  BY <1>2, TakeDisc
<1>3. CASE /\ \E l \in {"r_try", "t_closed", "r_reg", "t_pop", "idle"} :
                pc' = [pc EXCEPT ![r] = l]
           /\ UNCHANGED <<queue, count, state, seen, disconnected>>
           /\ own' = own \/ own' = [own EXCEPT ![r] = Nil]
  <2>1. PICK l \in {"r_try", "t_closed", "r_reg", "t_pop", "idle"} :
          pc' = [pc EXCEPT ![r] = l]
    BY <1>3, ZenonT(60)
  <2>2. Plain(l)
    BY DEF Plain, Registered
  <2>3. \A u \in Threads : u # r => own'[u] = own[u]
    BY <1>3 DEF TypeInv, CallType
  <2> QED BY <1>1, <1>3, <2>1, <2>2, <2>3, StateSame, DiscPlain, ZenonT(60)
<1>4. CASE RecvStart(r)
  BY ZenonT(60), <1>3, <1>4 DEF RecvStart, Goto, waits, history
<1>5. CASE RecvTry(r)
  BY <1>2, <1>3, <1>5 DEF RecvTry, Goto, Continues, Local, waits, history
<1>6. CASE RecvReg(r)
  <2>1. /\ pc' = [pc EXCEPT ![r] = "r_final"]
        /\ UNCHANGED <<queue, count, seen, disconnected>>
        /\ \A u \in Threads : u # r => own'[u] = own[u]
    BY <1>6 DEF RecvReg, Goto, history, TypeInv, CallType
  <2>2. RegWaker(r, own'[r])
    BY <1>1, <1>6 DEF RecvReg, TypeInv, CallType
  <2>3. own'[r] \in Wakers
    <3>1. TypeInv' /\ pc'[r] = "r_final"
      BY <1>1, <1>6, <2>1, RecvStepType DEF RecvStep, TypeInv, CallType
    <3> QED BY <1>1, <3>1 DEF TypeInv, ControlInv, OwnInv, NeedsOwn, Holding
  <2>4. ClosedByLast(r) /\ state'[own'[r]] # CLOSED
    BY <1>1, <2>2, <2>3, RegDisc
  <2> QED BY <1>1, <2>1, <2>4, DiscKept, ZenonT(60) DEF DiscInv
<1>7. CASE RecvFinal(r) /\ ~\E then : Take(r, then)
  <2>1. /\ pc[r] \in Registered /\ pc' = [pc EXCEPT ![r] = "commit"]
        /\ UNCHANGED <<queue, count, state, seen, own, disconnected>>
    BY <1>7 DEF RecvFinal, Goto, Continues, Local, waits, history, Registered
  <2> QED BY <1>1, <2>1, StateSame, DiscKept, ZenonT(60) DEF DiscInv
<1>8. CASE RecvLast(r) /\ ~\E then : Take(r, then)
  <2>1. /\ pc[r] = "r_last" /\ pc' = [pc EXCEPT ![r] = "idle"] /\ queue' = <<>>
        /\ UNCHANGED <<count, state, seen>> /\ own' = [own EXCEPT ![r] = Nil]
    BY <1>8 DEF RecvLast, Return, Goto, waits
  <2>2. NoSender /\ "idle" \notin Registered
    BY <2>1 DEF DiscInv, Registered
  <2>3. \A u \in Threads : u # r => own'[u] = own[u]
    BY <2>1 DEF TypeInv, CallType
  <2> QED BY <1>1, <2>1, <2>2, <2>3, StateSame, DiscKept, ZenonT(60)
<1>9. CASE TryRecvClosed(r)
  <2>1. PICK l \in {"r_last", "t_pop"} :
          pc' = [pc EXCEPT ![r] = l] /\ (l = "r_last" => NoSender)
    BY <1>9, ZenonT(60) DEF TryRecvClosed, Goto, NoSender
  <2>2. UNCHANGED <<queue, count, state, seen, own, disconnected>>
    BY <1>9 DEF TryRecvClosed, Continues, Local, waits, history
  <2>3. l \notin Registered /\ l # "close" /\ l # "closed?"
    BY DEF Registered
  <2> QED BY <1>1, <2>1, <2>2, <2>3, StateSame, DiscKept, ZenonT(60) DEF DiscInv
<1>10. CASE TryRecvPop(r)
  BY <1>2, <1>3, <1>10 DEF TryRecvPop, Return, Goto, Local, waits, history
<1> QED
  BY <1>2, <1>4, <1>5, <1>6, <1>7, <1>8, <1>9, <1>10 DEF RecvStep

(* A sender that is inside a call holds a handle, so nobody has been told  *)
(* Disconnected before it pushes.                                          *)
LEMMA SendDisc ==
  ASSUME TypeInv, DiscInv, NEW s \in Senders, SendStart(s) \/ SendStep(s)
  PROVE  DiscInv'
<1>1. s \in Threads /\ s \notin Receivers /\ Side(s) = "tx"
  BY SideType
<1> DEFINE Go == /\ \E l : pc' = [pc EXCEPT ![s] = l] /\ l # "close"
                 /\ UNCHANGED <<count, seen>>
<1>2. Go
  <2>1. ASSUME NEW then, Push(s, then) PROVE Go
    <3>1. pc' = [pc EXCEPT ![s] = "f_first"] /\ UNCHANGED <<count, seen>>
      BY <2>1, ZenonT(60) DEF Push, StartFire, Goto
    <3>2. "f_first" # "close"
      OBVIOUS
    <3> QED BY <3>1, <3>2, ZenonT(60)
  <2>2. CASE SendStart(s) \/ SendReg(s) \/ SendClosed(s)
    BY ZenonT(60), <2>2 DEF SendStart, SendReg, SendClosed, Return, Goto
  <2>3. CASE SendFirst(s)
    BY <2>1, <2>3, ZenonT(60) DEF SendFirst, Local, Goto
  <2>6. CASE SendTry(s)
    BY <2>1, <2>6, ZenonT(60) DEF SendTry, Local, Goto
  <2>7. CASE SenderDoubleCheck(s)
    BY <2>1, <2>7, ZenonT(60) DEF SenderDoubleCheck, Local, Goto
  <2>4. ASSUME OnState(s, state[own[s]])
        PROVE  \E l : pc' = [pc EXCEPT ![s] = l] /\ l # "close"
    BY <2>4, OnStateMoves
  <2>5. CASE CancelReuse(s) \/ SenderSnooze(s)
    BY ZenonT(60), <2>4, <2>5 DEF CancelReuse, SenderSnooze, Local, Goto
  <2> QED BY <2>2, <2>3, <2>5, <2>6, <2>7 DEF SendStep
<1>3. PICK l : pc' = [pc EXCEPT ![s] = l] /\ l # "close"
  BY <1>2, ZenonT(60)
<1>4. \A u \in Threads : u # s => own'[u] = own[u]
  BY ZenonT(60) DEF SendStart, SendStep, SendFirst, SendTry, SendReg, SenderDoubleCheck,
     CancelReuse, SenderSnooze, SendClosed, Push, Return, Continues, TypeInv, CallType
<1>5. ClosedByLast(s)
  <2>1. CASE SendReg(s)
    BY ZenonT(60), <1>1, <2>1, RegDisc DEF SendReg
  <2>2. CASE ~SendReg(s)
    <3>1. UNCHANGED state
      BY <2>2, ZenonT(60)
         DEF SendStart, SendStep, SendFirst, SendTry, SenderDoubleCheck,
         CancelReuse, SenderSnooze, SendClosed, Push, Local, waits
    <3> QED BY <3>1, StateSame
  <2> QED BY <2>1, <2>2
<1>6. disconnected' # {} => NoSender /\ queue' = <<>>
  <2>1. UNCHANGED disconnected
    BY ZenonT(60)
       DEF SendStart, SendStep, SendFirst, SendTry, SendReg, SenderDoubleCheck,
       CancelReuse, SenderSnooze, SendClosed, Push, Local, Reject, history
  <2>2. count["tx"] > 0
    <3>1. pc[s] \notin Left
      BY ZenonT(60) DEF SendStart, SendStep, SendFirst, SendTry, SendReg,
         SenderDoubleCheck, CancelReuse, SenderSnooze, SendClosed, Left
    <3> QED BY <1>1, <3>1, HandleCounted
  <2> QED BY <2>1, <2>2 DEF DiscInv, NoSender
<1> QED
  BY <1>1, <1>2, <1>3, <1>4, <1>5, <1>6, DiscKept, ZenonT(60)

(* The invariant of the answers holds initially ...                        *)
LEMMA DiscInit == Init => DiscInv
BY SideType DEF Init, DiscInv, Registered

(* ... and every step keeps it.                                            *)
LEMMA DiscStep == TypeInv /\ DiscInv /\ [Next]_vars => DiscInv'
<1> SUFFICES ASSUME TypeInv, DiscInv, [Next]_vars PROVE DiscInv'
  OBVIOUS
<1>1. CASE UNCHANGED vars
  BY <1>1 DEF vars, waits, history, DiscInv, NoSender
<1>2. ASSUME NEW t \in Threads,
             CallStep(t) \/ Timeout(t) \/ Drop(t) \/ AddHandle(t)
      PROVE  DiscInv'
  BY <1>2, CallDisc, WaitDisc, CloseDisc, HandleDisc DEF CallStep
<1> QED
  BY <1>1, <1>2, RecvDisc, SendDisc DEF Next, Terminated

(* A receiver is told Disconnected only once no sender is left and every   *)
(* message that was accepted has been received.                            *)
THEOREM DisconnectedIsDrained == Spec => []DisconnectedDrained
<1>1. Spec => []DiscInv
  BY DiscInit, DiscStep, TypeInvariant, PTL DEF Spec
<1>2. SendAtomic /\ DiscInv => DisconnectedDrained
  BY DEF SendAtomic, DiscInv, DisconnectedDrained, NoSender, Range
<1> QED
  BY <1>1, <1>2, SendIsAtomic, PTL

=============================================================================
