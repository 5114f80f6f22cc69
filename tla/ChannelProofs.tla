-------------------------- MODULE ChannelProofs ---------------------------
(***************************************************************************)
(* The type invariant of Channel, for any number of senders and receivers, *)
(* any capacity and any number of calls.                                   *)
(***************************************************************************)
EXTENDS ChannelLemmas

(* The provers of a leaf that names none, in this order, with time in      *)
(* seconds that is enough on a slow machine too.                           *)
USE ZenonT(4), SMTT(60), Z3T(60), ZenonT(60)

(* The message of a send is typed.                                         *)
LEMMA MsgIsMessage ==
  ASSUME CallType, NEW s \in Senders
  PROVE  Msg(s) \in Messages
BY SideType DEF Msg, Messages, CallType

(* The returns of a call that went through fire() or _clear_wakers().      *)
LEMMA ReturnType ==
  ASSUME TypeInv, NEW t \in Threads, ReturnOk(t) \/ ReturnTimeout(t)
  PROVE  TypeInv'
<1>1. pc[t] \notin Left /\ Return(t)
      /\ UNCHANGED <<queue, count, waits, nops, seen, firing, ret>>
  BY DEF ReturnOk, ReturnTimeout, Left
<1>2. MsgType'
  BY <1>1, MsgIsMessage DEF TypeInv, MsgType, ReturnOk, ReturnTimeout, Accept,
     Reject, history
<1> QED
  BY <1>1, <1>2, ReturnKeeps

(* _clear_wakers.                                                          *)
LEMMA ClearType ==
  ASSUME TypeInv, NEW t \in Threads, Clear(t)
  PROVE  TypeInv'
<1> USE DEF TypeInv
<1> DEFINE side == Side(t)
           q == Cleared(reg[side], own[t], pc[t] = "clear_one")
<1>1. /\ pc[t] \in Holding /\ own[t] \in Wakers /\ side \in Sides
      /\ ret[t] \in {"ok", "cancel", "timeout", "s_try"}
  BY SideType DEF Clear, Holding, ControlInv, OwnInv, NeedsOwn, CallType
<1>2. reg[side] \in Seq(WakersOf(side))
  BY <1>1 DEF RegInv
<1>3. q \in Seq(WakersOf(side))
  BY <1>2, ClearedType
<1>4. q # <<>> => reg[side] # <<>>
  <2> SUFFICES ASSUME reg[side] = <<>> PROVE q = <<>>
    OBVIOUS
  <2>1. Min({Len(reg[side]) + 1}) = 1 /\ Len(reg[side]) = 0
    BY DEF Min
  <2>2. {i \in 1..Len(reg[side]) :
           ~ScanPast(reg[side][i], own[t], pc[t] = "clear_one")} = {}
    BY <2>1
  <2> QED BY <2>1, <2>2 DEF Cleared
<1> HIDE DEF q
<1>5. \/ UNCHANGED <<reg, hasWaker>>
      \/ /\ reg' = [reg EXCEPT ![side] = q]
         /\ hasWaker' = [hasWaker EXCEPT ![side] = (q # <<>>)]
  BY DEF Clear, ClearWakers, SetFlag, q
<1>6. UNCHANGED <<queue, count, regSeq, state, seq, unparked, op, nops, seen,
                  firing, ret, history>>
  BY DEF Clear
<1>7. reg' \in [Sides -> Seq(Wakers)] /\ RegInv'
  <2>1. CASE UNCHANGED <<reg, hasWaker>>
    BY <2>1, <1>6 DEF WaitType, RegInv
  <2>2. CASE reg' = [reg EXCEPT ![side] = q]
    BY <2>2, <1>1, <1>3, <1>4, <1>6, RegKept, ZenonT(60)
  <2> QED BY <1>5, <2>1, <2>2
<1>8. hasWaker' \in [Sides -> BOOLEAN]
  BY <1>5, ZenonT(60) DEF WaitType
<1>9. WaitType' /\ MsgType' /\ FireType'
  BY <1>6, <1>7, <1>8 DEF WaitType, MsgType, FireType, firing, history
<1>10. /\ pc' = [pc EXCEPT ![t] = ret[t]]
       /\ own' = [own EXCEPT ![t] = IF ret[t] = "s_try" THEN Nil ELSE @]
  BY DEF Clear, Goto
<1>11. ret[t] \in Labels /\ ret[t] \notin Left /\ ret[t] \notin InFire
       /\ pc[t] \notin Left
  BY <1>1, LabelFacts DEF Labels, Left, InFire
<1>12. CallType'
  BY <1>6, <1>10, <1>11 DEF CallType
<1>13. CountType' /\ CountInv'
  BY <1>6, <1>10, <1>11, CountKept, ZenonT(60)
<1>14. ControlInv'
  <2>1. own'[t] = (IF ret[t] = "s_try" THEN Nil ELSE own[t])
        /\ \A u \in Threads : u # t => own'[u] = own[u]
    BY <1>10 DEF CallType
  <2>2. Nil \notin Wakers
    BY ChannelAssumption DEF Wakers, Threads
  <2>3. NeedsOwn(ret[t], ret'[t]) => own'[t] \in Wakers
    BY <1>1, <1>11, <2>1, LabelFacts DEF NeedsOwn
  <2>4. own'[t] \in Wakers => own'[t][1] = t
    BY <2>1, <2>2 DEF ControlInv, OwnInv
  <2> QED
    BY <1>6, <1>10, <1>11, <2>1, <2>3, <2>4, ControlKept, ZenonT(60) DEF firing
<1> QED
  BY <1>7, <1>9, <1>12, <1>13, <1>14

(* A timeout in the park loop.                                             *)
LEMMA TimeoutType ==
  ASSUME TypeInv, NEW t \in Threads, Timeout(t)
  PROVE  TypeInv'
<1> USE DEF TypeInv
<1>1. pc[t] = "park" /\ pc[t] \in Holding /\ pc[t] \notin Left
  BY DEF Timeout, Abandon, Holding, Left
<1> DEFINE fire == /\ StartFire(t, Side(t), "timeout") /\ UNCHANGED state
           quiet == /\ \/ Goto(t, "clear_all") /\ ret' = [ret EXCEPT ![t] = "timeout"]
                       \/ Goto(t, "timeout") /\ UNCHANGED ret
                    /\ UNCHANGED firing
                    /\ state' = state \/ state' = [state EXCEPT ![own[t]] = CLOSED]
<1>2. /\ fire \/ quiet
      /\ UNCHANGED <<queue, count, reg, regSeq, hasWaker, seq, unparked, op,
                     nops, own, seen, history>>
  BY DEF Timeout, Abandon
<1>3. CASE fire
  <2>1. MsgType'
    BY <1>2 DEF MsgType, history
  <2> QED
    BY <1>1, <1>2, <1>3, <2>1, SideType, StartFireKeeps DEF waits
<1>4. CASE quiet
  <2>1. QuietMove(t)
    BY <1>1, <1>2, <1>4
       DEF QuietMove, Goto, Labels, InFire, Left, Holding, CallType
  <2>2. /\ ret' \in [Threads -> {"ok", "cancel", "timeout", "s_try"}]
        /\ state' \in [Wakers -> WakerStates]
    BY <1>4, ZenonT(60) DEF CallType, WaitType, WakerStates
  <2> QED
    BY <1>2, <2>1, <2>2, QuietMoveKeeps, ZenonT(60) DEF CallType, WaitType
<1> QED
  BY <1>2, <1>3, <1>4

(* Registry::close.                                                        *)
LEMMA CloseType ==
  ASSUME TypeInv, NEW t \in Threads, Close(t)
  PROVE  TypeInv'
<1> USE DEF TypeInv
<1> DEFINE side == Other(Side(t))
<1>1. /\ side \in Sides /\ pc[t] \in Left
      /\ pc' = [pc EXCEPT ![t] = "gone"] /\ "gone" \in Labels /\ "gone" \in Left
      /\ "gone" \notin InFire /\ "gone" \notin Holding
  BY SideType DEF Close, Goto, Labels, Left, InFire, Holding
<1>2. UNCHANGED <<queue, count, regSeq, seq, op, nops, own, seen, firing, ret,
                  history>>
  BY DEF Close
<1>3. state' \in [Wakers -> WakerStates]
  BY DEF Close, WaitType, WakerStates
<1>4. unparked' \in [Threads -> BOOLEAN]
  BY DEF Close
<1>5. hasWaker' \in [Sides -> BOOLEAN]
  BY ZenonT(60) DEF Close, WaitType
<1>6. reg' \in [Sides -> Seq(Wakers)] /\ RegInv'
  <2>1. reg' = [reg EXCEPT ![side] = <<>>] /\ <<>> \in Seq(WakersOf(side))
    BY DEF Close
  <2> QED BY <1>1, <1>2, <2>1, RegKept, ZenonT(60)
<1>7. WaitType' /\ MsgType' /\ FireType'
  BY <1>2, <1>3, <1>4, <1>5, <1>6 DEF WaitType, MsgType, FireType, firing, history
<1>8. CallType'
  BY <1>1, <1>2 DEF CallType
<1>9. CountType' /\ CountInv'
  BY <1>1, <1>2, CountKept, ZenonT(60)
<1>10. ControlInv'
  <2>1. own'[t] \in Wakers => own'[t][1] = t
    BY <1>2 DEF ControlInv, OwnInv
  <2> QED BY <1>1, <1>2, <2>1, ControlKept, ZenonT(60) DEF NeedsOwn, firing
<1> QED
  BY <1>6, <1>7, <1>8, <1>9, <1>10

(* A thread that still has a handle is counted.                            *)
LEMMA HandleCounted ==
  ASSUME TypeInv, NEW t \in Threads, pc[t] \notin Left
  PROVE  count[Side(t)] > 0
<1>1. Side(t) \in Sides /\ t \in Handles(Side(t))
  BY SideType DEF Handles
<1>2. IsFiniteSet(Handles(Side(t)))
  BY <1>1, HandlesFinite
<1>3. Cardinality(Handles(Side(t))) # 0 /\ Cardinality(Handles(Side(t))) \in Nat
  BY <1>1, <1>2, FS_EmptySet, FS_CardinalityType
<1> QED
  BY <1>1, <1>3 DEF TypeInv, CountInv

(* A side that has lost its last handle never gets one again: close_tx and *)
(* close_rx run once, and try_add_tx fails from then on.                   *)
LEMMA ZeroStays ==
  ASSUME TypeInv, NEW t \in Threads, NEW side \in Sides, count[side] = 0,
         UNCHANGED count \/ Drop(t) \/ AddHandle(t)
  PROVE  count'[side] = 0
<1>1. CASE Drop(t)
  <2>1. count[Side(t)] > 0
    BY <1>1, HandleCounted DEF Drop, Left
  <2> QED BY <1>1, <2>1 DEF Drop, TypeInv, CountType
<1>2. CASE AddHandle(t)
  BY <1>2 DEF AddHandle, TypeInv, CountType
<1> QED
  BY <1>1, <1>2

(* A handle that is dropped, or made.                                      *)
LEMMA HandleType ==
  ASSUME TypeInv, NEW t \in Threads, Drop(t) \/ AddHandle(t)
  PROVE  TypeInv'
<1> USE DEF TypeInv
<1> DEFINE side == Side(t)
<1>1. side \in Sides
  BY SideType
<1>2. UNCHANGED <<queue, waits, op, nops, own, seen, firing, ret, history>>
  BY DEF Drop, AddHandle
<1>3. PICK l \in {"idle", "close", "gone"} :
        /\ pc' = [pc EXCEPT ![t] = l]
        /\ \/ /\ l \in Left /\ pc[t] \notin Left
              /\ count' = [count EXCEPT ![side] = @ - 1]
           \/ /\ l \notin Left /\ pc[t] \in Left
              /\ count' = [count EXCEPT ![side] = @ + 1]
  BY DEF Drop, AddHandle, Goto, Left
<1>4. l \in Labels /\ l \notin InFire /\ l \notin Holding
  BY DEF Labels, InFire, Holding
<1>5. MsgType' /\ WaitType' /\ FireType' /\ RegInv'
  BY <1>2 DEF MsgType, WaitType, FireType, RegInv, waits, firing, history
<1>6. CallType'
  BY <1>2, <1>3, <1>4 DEF CallType
<1>7. ControlInv'
  <2>1. own'[t] \in Wakers => own'[t][1] = t
    BY <1>2 DEF ControlInv, OwnInv
  <2> QED BY <1>2, <1>3, <1>4, <2>1, ControlKept, ZenonT(60) DEF NeedsOwn, firing
<1>8. pc'[t] = l /\ \A u \in Threads : u # t => pc'[u] = pc[u]
  BY <1>3 DEF CallType
<1>9. \A x \in Sides : x # side => Handles(x)' = Handles(x)
  BY <1>8 DEF Handles
<1>10. CountType' /\ CountInv'
  <2>1. IsFiniteSet(Handles(side)) /\ count[side] = Cardinality(Handles(side))
    BY <1>1, HandlesFinite DEF CountInv
  <2>2. CASE l \in Left /\ pc[t] \notin Left
    <3>1. count' = [count EXCEPT ![side] = @ - 1] /\ count[side] > 0
      BY <1>3, <2>2, HandleCounted
    <3>2. Handles(side)' = Handles(side) \ {t} /\ t \in Handles(side)
      BY <1>8, <2>2 DEF Handles
    <3>3. Cardinality(Handles(side)') = count[side] - 1
      BY <2>1, <3>2, FS_RemoveElement
    <3> QED BY <1>1, <1>9, <3>1, <3>3 DEF CountType, CountInv
  <2>3. CASE l \notin Left /\ pc[t] \in Left
    <3>1. count' = [count EXCEPT ![side] = @ + 1]
      BY <1>3, <2>3
    <3>2. Handles(side)' = Handles(side) \cup {t} /\ t \notin Handles(side)
      BY <1>8, <2>3 DEF Handles
    <3>3. Cardinality(Handles(side)') = count[side] + 1
      BY <2>1, <3>2, FS_AddElement, ZenonT(60)
    <3> QED BY <1>1, <1>9, <3>1, <3>3 DEF CountType, CountInv
  <2> QED BY <1>3, <2>2, <2>3
<1> QED
  BY <1>5, <1>6, <1>7, <1>10

(* reg_waker with the waker the call has, or with a new one.               *)
LEMMA RegType ==
  ASSUME TypeInv, NEW t \in Threads, NEW l \in {"r_final", "s_check"},
         NEW w, w = (IF own[t] = Nil THEN NewWaker(t) ELSE own[t]),
         pc[t] \notin Left, WakerAvailable(t), RegWaker(t, w),
         own' = [own EXCEPT ![t] = w], Goto(t, l),
         UNCHANGED <<queue, count, op, nops, seen, firing, ret, history>>
  PROVE  TypeInv'
<1> USE DEF TypeInv
<1> DEFINE side == Side(t)
<1>1. side \in Sides
  BY SideType
<1>2. w \in Wakers /\ w[1] = t
  <2>1. CASE own[t] = Nil
    <3> DEFINE i == CHOOSE j \in Ids : ~InUse(<<t, j>>)
    <3>1. i \in Ids /\ w = <<t, i>>
      BY <2>1 DEF WakerAvailable, NewWaker
    <3> HIDE DEF i
    <3> QED BY <3>1 DEF Wakers
  <2>2. CASE own[t] # Nil
    BY <2>2 DEF CallType, ControlInv, OwnInv
  <2> QED BY <2>1, <2>2
<1>3. w \in WakersOf(side)
  BY <1>2 DEF WakersOf
<1>4. /\ reg[side] \in Seq(WakersOf(side)) /\ reg[side] \in Seq(Wakers)
      /\ regSeq[side] \in Nat
  BY <1>1 DEF RegInv, WaitType
<1>5. /\ Append(reg[side], w) \in Seq(WakersOf(side))
      /\ Append(reg[side], w) \in Seq(Wakers)
  BY <1>2, <1>3, <1>4
<1>6. /\ reg' = [reg EXCEPT ![side] = Append(reg[side], w)]
      /\ regSeq' = [regSeq EXCEPT ![side] = regSeq[side] + 1]
      /\ seq' = [seq EXCEPT ![w] = regSeq[side] + 1]
      /\ state' = [state EXCEPT ![w] = INIT]
      /\ UNCHANGED unparked
  BY DEF RegWaker
<1>7. hasWaker' \in [Sides -> BOOLEAN]
  BY ZenonT(60) DEF RegWaker, WaitType
<1>8. WaitType'
  <2>1. reg' \in [Sides -> Seq(Wakers)]
    BY <1>5, <1>6, ZenonT(60) DEF WaitType
  <2>2. regSeq' \in [Sides -> Nat] /\ seq' \in [Wakers -> Nat]
    <3>1. regSeq[side] + 1 \in Nat
      BY <1>4
    <3>2. regSeq' \in [Sides -> Nat]
      BY <1>6, <3>1, ZenonT(60) DEF WaitType
    <3>3. seq' \in [Wakers -> Nat]
      BY <1>6, <3>1, ZenonT(60) DEF WaitType
    <3> QED BY <3>2, <3>3
  <2>3. state' \in [Wakers -> WakerStates] /\ unparked' \in [Threads -> BOOLEAN]
    BY <1>6, ZenonT(60) DEF WaitType, WakerStates
  <2> QED BY <1>7, <2>1, <2>2, <2>3 DEF WaitType
<1>9. RegInv'
  BY <1>1, <1>4, <1>5, <1>6 DEF WaitType, RegInv, WakersOf
<1>10. MsgType' /\ FireType'
  BY DEF MsgType, FireType, firing, history
<1>11. pc' = [pc EXCEPT ![t] = l] /\ l \in Holding
  BY DEF Goto, Holding
<1>12. CallType'
  BY <1>2, <1>11, LabelFacts DEF CallType
<1>13. CountType' /\ CountInv'
  BY <1>11, LabelFacts, CountKept, ZenonT(60)
<1>14. ControlInv'
  <2>1. own'[t] = w /\ \A u \in Threads : u # t => own'[u] = own[u]
    BY DEF CallType
  <2>2. l \notin InFire
    BY ZenonT(60) DEF InFire
  <2> QED BY <1>2, <1>11, <2>1, <2>2, ControlKept, ZenonT(60) DEF firing
<1> QED
  BY <1>8, <1>9, <1>10, <1>12, <1>13, <1>14

(* A pop of the queue.                                                     *)
LEMMA TakeType ==
  ASSUME TypeInv, NEW t \in Receivers, pc[t] \notin Left,
         NEW then \in {"ok", "cancel"}, Take(t, then),
         then = "cancel" => own[t] \in Wakers
  PROVE  TypeInv'
<1>1. /\ Head(queue) \in Messages /\ Tail(queue) \in Seq(Messages)
      /\ Len(Tail(queue)) = Len(queue) - 1 /\ Len(queue) \in Nat
  BY PoppedMessages DEF Take, TypeInv, MsgType
<1>2. Len(queue) - 1 <= Cap
  BY <1>1, ChannelAssumption DEF TypeInv, MsgType
<1>3. MsgType'
  BY <1>1, <1>2 DEF Take, TypeInv, MsgType
<1> QED
  BY <1>3, SideType, StartFireKeeps DEF Take, Sides

(* A push.                                                                 *)
LEMMA PushType ==
  ASSUME TypeInv, NEW t \in Senders, pc[t] \notin Left,
         NEW then \in {"ok", "cancel"}, Push(t, then),
         then = "cancel" => own[t] \in Wakers
  PROVE  TypeInv'
<1>1. Msg(t) \in Messages /\ queue \in Seq(Messages)
  BY MsgIsMessage DEF TypeInv, MsgType
<1>2. /\ Append(queue, Msg(t)) \in Seq(Messages)
      /\ Len(Append(queue, Msg(t))) = Len(queue) + 1 /\ Len(queue) \in Nat
  BY <1>1, PushedMessages
<1>3. Len(queue) + 1 <= Cap
  BY <1>2, ChannelAssumption DEF Push
<1>4. MsgType'
  BY <1>2, <1>3 DEF Push, TypeInv, MsgType, history
<1> QED
  BY <1>4, SideType, StartFireKeeps DEF Push, Sides

(* A step that only moves its thread.                                      *)
LEMMA LocalType ==
  ASSUME TypeInv, NEW t \in Threads, NEW l \in Labels, Goto(t, l), Local,
         Continues, UNCHANGED seen, pc[t] \notin Left,
         l \notin InFire, l \notin Left, l \in Holding => pc[t] \in Holding
  PROVE  TypeInv'
<1>1. QuietMove(t)
  BY ZenonT(60) DEF Goto, Local, Continues, QuietMove, waits
<1> QED
  BY <1>1, QuietMoveKeeps, ZenonT(60)
     DEF Local, Continues, waits, TypeInv, CallType, WaitType

(* The steps of a receiver.                                                *)
LEMMA RecvStepType ==
  ASSUME TypeInv, NEW r \in Receivers, RecvStart(r) \/ RecvStep(r)
  PROVE  TypeInv'
<1>1. r \in Threads
  BY SideType
<1>2. CASE RecvStart(r)
  <2>1. PICK l \in {"r_try", "t_closed"} : pc' = [pc EXCEPT ![r] = l]
    BY ZenonT(60), <1>2 DEF RecvStart, Goto
  <2>2. QuietMove(r)
    BY <1>2, <2>1, ZenonT(60)
       DEF RecvStart, QuietMove, waits, Labels, InFire, Left, Holding
  <2>3. op' \in [Threads -> SendOps \cup RecvOps \cup {Nil}]
    BY <1>2, ZenonT(60) DEF RecvStart, TypeInv, CallType
  <2>4. nops' \in [Threads -> Nat]
    <3>1. nops \in [Threads -> Nat] /\ nops[r] + 1 \in Nat
      BY <1>1 DEF TypeInv, CallType
    <3>2. nops' = [nops EXCEPT ![r] = nops[r] + 1]
      BY ZenonT(60), <1>2 DEF RecvStart
    <3> QED BY <3>1, <3>2, ZenonT(60)
  <2> QED
    BY <1>1, <1>2, <2>2, <2>3, <2>4, QuietMoveKeeps, ZenonT(60)
       DEF RecvStart, waits, TypeInv, CallType, WaitType
<1>3. CASE RecvTry(r)
  <2>1. pc[r] \notin Left /\ "r_reg" \in Labels
        /\ "r_reg" \notin InFire \cup Left \cup Holding
    BY <1>3 DEF RecvTry, Left, Labels, InFire, Holding
  <2> QED BY <1>1, <1>3, <2>1, TakeType, LocalType DEF RecvTry
<1>4. CASE RecvReg(r)
  <2>1. pc[r] \notin Left
    BY <1>4 DEF RecvReg, Left
  <2> QED BY <1>1, <1>4, <2>1, RegType, ZenonT(60) DEF RecvReg
<1>5. CASE RecvFinal(r)
  <2>1. /\ pc[r] \notin Left /\ pc[r] \in Holding /\ own[r] \in Wakers
        /\ "commit" \in Labels /\ "commit" \notin InFire \cup Left
    BY <1>1, <1>5 DEF RecvFinal, Left, Labels, InFire, Holding, TypeInv,
       ControlInv, OwnInv, NeedsOwn
  <2> QED BY <1>1, <1>5, <2>1, TakeType, LocalType DEF RecvFinal
<1>6. CASE RecvLast(r)
  <2>1. pc[r] \notin Left
    BY <1>6 DEF RecvLast, Left
  <2>2. CASE Take(r, "ok")
    BY <2>1, <2>2, TakeType
  <2>3. CASE ~Take(r, "ok")
    <3>1. /\ Return(r) /\ disconnected' = disconnected \cup {r}
          /\ UNCHANGED <<queue, count, waits, nops, seen, firing, ret,
                         accepted, rejected, taken>>
      BY <1>6, <2>3 DEF RecvLast
    <3>2. MsgType'
      BY <3>1 DEF TypeInv, MsgType
    <3> QED BY <1>1, <2>1, <3>1, <3>2, ReturnKeeps
  <2> QED BY <2>2, <2>3
<1>7. CASE TryRecvClosed(r)
  <2>1. PICK l \in {"r_last", "t_pop"} : Goto(r, l)
    BY <1>7 DEF TryRecvClosed
  <2>2. /\ pc[r] \notin Left /\ l \in Labels
        /\ l \notin InFire \cup Left \cup Holding
    BY <1>7 DEF TryRecvClosed, Left, Labels, InFire, Holding
  <2> QED BY <1>1, <1>7, <2>1, <2>2, LocalType DEF TryRecvClosed
<1>8. CASE TryRecvPop(r)
  <2>1. pc[r] \notin Left
    BY <1>8 DEF TryRecvPop, Left
  <2>2. CASE Take(r, "ok")
    BY <2>1, <2>2, TakeType
  <2>3. CASE ~Take(r, "ok")
    <3>1. Return(r) /\ UNCHANGED seen /\ Local
      BY <1>8, <2>3 DEF TryRecvPop
    <3>2. MsgType'
      BY <3>1 DEF Local, TypeInv, MsgType, history
    <3> QED BY <1>1, <2>1, <3>1, <3>2, ReturnKeeps DEF Local
  <2> QED BY <2>2, <2>3
<1> QED
  BY <1>2, <1>3, <1>4, <1>5, <1>6, <1>7, <1>8 DEF RecvStep

(* The steps of a sender.                                                  *)
LEMMA SendStepType ==
  ASSUME TypeInv, NEW s \in Senders, SendStart(s) \/ SendStep(s)
  PROVE  TypeInv'
<1>1. s \in Threads
  BY SideType
<1>2. CASE SendStart(s)
  <2>1. PICK l \in {"s_closed", "s_first"} : pc' = [pc EXCEPT ![s] = l]
    BY <1>2, ZenonT(60) DEF SendStart, Goto
  <2>2. QuietMove(s)
    BY <1>2, <2>1, ZenonT(60)
       DEF SendStart, QuietMove, waits, Labels, InFire, Left, Holding
  <2>3. op' \in [Threads -> SendOps \cup RecvOps \cup {Nil}]
    BY <1>2, ZenonT(60) DEF SendStart, TypeInv, CallType
  <2>4. nops' \in [Threads -> Nat]
    <3>1. nops \in [Threads -> Nat] /\ nops[s] + 1 \in Nat
      BY <1>1 DEF TypeInv, CallType
    <3>2. nops' = [nops EXCEPT ![s] = nops[s] + 1]
      BY <1>2 DEF SendStart
    <3> QED BY <3>1, <3>2, ZenonT(60)
  <2> QED
    BY <1>1, <1>2, <2>2, <2>3, <2>4, QuietMoveKeeps, ZenonT(60)
       DEF SendStart, waits, TypeInv, CallType, WaitType
<1>3. CASE SendFirst(s) \/ SendTry(s)
  <2>1. pc[s] \notin Left
    BY <1>3 DEF SendFirst, SendTry, Left
  <2>2. CASE Push(s, "ok")
    BY <2>1, <2>2, PushType
  <2>3. CASE ~Push(s, "ok")
    <3>1. PICK l \in {"s_try", "timeout", "s_reg"} : Goto(s, l)
      BY <1>3, <2>3 DEF SendFirst, SendTry
    <3>2. l \in Labels /\ l \notin InFire \cup Left \cup Holding
      BY DEF Left, Labels, InFire, Holding
    <3> QED BY <1>1, <1>3, <2>1, <2>3, <3>1, <3>2, LocalType DEF SendFirst, SendTry
  <2> QED BY <2>2, <2>3
<1>4. CASE SendReg(s)
  <2>1. pc[s] \notin Left
    BY <1>4 DEF SendReg, Left
  <2> QED BY <1>1, <1>4, <2>1, RegType, ZenonT(60) DEF SendReg
<1>5. CASE SenderDoubleCheck(s)
  <2>1. pc[s] \notin Left /\ pc[s] \in Holding /\ own[s] \in Wakers
    BY <1>1, <1>5 DEF SenderDoubleCheck, Left, Holding, TypeInv, ControlInv,
       OwnInv, NeedsOwn
  <2>2. CASE Push(s, "cancel")
    BY <2>1, <2>2, PushType
  <2>3. CASE ~Push(s, "cancel")
    <3>1. PICK l \in {"commit", "s_uncertain"} : Goto(s, l)
      BY <1>5, <2>3 DEF SenderDoubleCheck
    <3>2. l \in Labels /\ l \notin InFire \cup Left
      BY DEF Left, Labels, InFire
    <3> QED BY <1>1, <1>5, <2>1, <2>3, <3>1, <3>2, LocalType DEF SenderDoubleCheck
  <2> QED BY <2>2, <2>3
<1>6. CASE CancelReuse(s)
  <2>1. PICK l \in {"park", "s_try", "r_try", "s_closed", "r_last", "clear_one"} :
          pc' = [pc EXCEPT ![s] = l]
    BY ZenonT(60), <1>6, OnStateMoves DEF CancelReuse, Goto
  <2>2. QuietMove(s)
    BY <1>1, <1>6, <2>1, ZenonT(60)
       DEF CancelReuse, QuietMove, waits, Labels, InFire, Left,
       Holding, TypeInv, CallType
  <2>3. ret' \in [Threads -> {"ok", "cancel", "timeout", "s_try"}]
    BY <1>6 DEF CancelReuse, TypeInv, CallType
  <2> QED
    BY <1>1, <1>6, <2>2, <2>3, QuietMoveKeeps, ZenonT(60)
       DEF CancelReuse, waits, TypeInv, CallType, WaitType
<1>7. CASE SenderSnooze(s)
  <2>1. PICK l \in {"park", "s_try", "r_try", "s_closed", "r_last"} : Goto(s, l)
    BY <1>7, OnStateMoves DEF SenderSnooze, Goto
  <2>2. /\ pc[s] \notin Left /\ pc[s] \in Holding
        /\ l \in Labels /\ l \notin InFire \cup Left
    BY <1>7 DEF SenderSnooze, Left, Labels, InFire, Holding
  <2> QED BY ZenonT(60), <1>1, <1>7, <2>1, <2>2, LocalType DEF SenderSnooze
<1>8. CASE SendClosed(s)
  <2>1. /\ pc[s] \notin Left /\ Return(s) /\ Reject(s)
        /\ UNCHANGED <<queue, count, waits, nops, seen, firing, ret>>
    BY <1>8 DEF SendClosed, Left
  <2>2. MsgType'
    BY <2>1, MsgIsMessage DEF Reject, TypeInv, MsgType
  <2> QED BY <1>1, <2>1, <2>2, ReturnKeeps
<1> QED
  BY <1>2, <1>3, <1>4, <1>5, <1>6, <1>7, <1>8 DEF SendStep

(* The inductive invariant holds initially ...                             *)
LEMMA TypeInit == Init => TypeInv
<1> SUFFICES ASSUME Init PROVE TypeInv
  OBVIOUS
<1>1. /\ {"idle", "gone"} \subseteq Labels
      /\ {"idle", "gone"} \cap (InFire \cup Holding) = {}
      /\ "idle" \notin Left /\ "gone" \in Left
  BY DEF Labels, InFire, Left, Holding
<1>0. nops \in [Threads -> Nat] /\ pc \in [Threads -> {"idle", "gone"}]
  BY ChannelAssumption DEF Init, Threads
<1>2. Nil \notin Wakers
  BY ChannelAssumption DEF Wakers, Threads
<1>3. MsgType
  BY ChannelAssumption DEF Init, MsgType
<1>4. WaitType /\ RegInv
  BY DEF Init, WaitType, RegInv, WakerStates
<1>5. CallType /\ FireType
  <2>1. /\ pc \in [Threads -> Labels]
        /\ op \in [Threads -> SendOps \cup RecvOps \cup {Nil}]
        /\ own \in [Threads -> Wakers \cup {Nil}]
    BY <1>0, <1>1 DEF Init
  <2>2. /\ seen \in [Threads -> WakerStates]
        /\ ret \in [Threads -> {"ok", "cancel", "timeout", "s_try"}]
    BY DEF Init, WakerStates
  <2>3. FireType
    BY DEF Init, FireType
  <2> QED BY <1>0, <2>1, <2>2, <2>3, ZenonT(60) DEF CallType
<1>6. ControlInv
  BY ZenonT(60), <1>0, <1>1, <1>2 DEF Init, ControlInv, OwnInv, TargetInv, NeedsOwn
<1>7. CountType /\ CountInv
  <2>1. \A side \in Sides :
           Handles(side) = {t \in Threads : Side(t) = side /\ pc[t] = "idle"}
    BY <1>0, <1>1 DEF Handles
  <2>2. \A side \in Sides : Cardinality(Handles(side)) \in Nat
    BY HandlesFinite, FS_CardinalityType
  <2> QED BY ZenonT(60), <2>1, <2>2 DEF Init, CountType, CountInv
<1> QED
  BY <1>3, <1>4, <1>5, <1>6, <1>7 DEF TypeInv

(* ... and every step keeps it.                                            *)
LEMMA TypeStep == TypeInv /\ [Next]_vars => TypeInv'
<1> SUFFICES ASSUME TypeInv, [Next]_vars PROVE TypeInv'
  OBVIOUS
<1>1. CASE UNCHANGED vars
  <2>1. MsgType' /\ WaitType' /\ FireType'
    BY <1>1 DEF vars, waits, firing, history, TypeInv, MsgType, WaitType,
       FireType
  <2>2. CallType'
    BY <1>1 DEF vars, TypeInv, CallType
  <2>3. ControlInv'
    BY ZenonT(60), <1>1 DEF vars, firing, TypeInv, ControlInv, OwnInv, NeedsOwn, TargetInv
  <2>4. RegInv'
    BY <1>1 DEF vars, waits, TypeInv, RegInv
  <2>5. CountType' /\ CountInv'
    BY <1>1 DEF vars, TypeInv, CountType, CountInv, Handles
  <2> QED BY <2>1, <2>2, <2>3, <2>4, <2>5 DEF TypeInv
<1>2. ASSUME NEW t \in Threads, CallStep(t) PROVE TypeInv'
  BY <1>2, PopType, WakeType, ReturnType, CallMoveType, ClearType, CloseType
     DEF CallStep, FireStep
<1>3. ASSUME NEW t \in Threads, Timeout(t) \/ Drop(t) \/ AddHandle(t)
      PROVE  TypeInv'
  BY <1>3, TimeoutType, HandleType
<1> QED
  BY <1>1, <1>2, <1>3, RecvStepType, SendStepType DEF Next, Terminated

(* The inductive invariant holds.                                          *)
LEMMA TypeInvariant == Spec => []TypeInv
BY TypeInit, TypeStep, PTL DEF Spec

(* Every variable of the channel keeps its type, with tx_count and         *)
(* rx_count never below zero and the queue never above its capacity.       *)
THEOREM TypeCorrect == Spec => []TypeOK
BY TypeInvariant, TypeInvType, PTL

=============================================================================
