-------------------------- MODULE ChannelLemmas ---------------------------
(***************************************************************************)
(* The inductive invariant behind the type invariant of Channel, and what  *)
(* every kind of step keeps of it. TypeOK is inductive only with what the  *)
(* control points say: which ones hold an o_waker, which side a fire()     *)
(* works on, and that the counts are the numbers of handles.               *)
(***************************************************************************)
EXTENDS Channel, FiniteSetTheorems, WellFoundedInduction, TLAPS

(* The provers of a leaf that names none, in this order, with time in      *)
(* seconds that is enough on a slow machine too.                           *)
USE ZenonT(4), SMTT(60), Z3T(60), ZenonT(60)

-----------------------------------------------------------------------------
(* Sequences and sides *)

(* Min finds the smallest element, as the scans of the registry need.      *)
LEMMA MinIsLeast ==
  ASSUME NEW S \in SUBSET Nat, S # {}
  PROVE  Min(S) \in S /\ \A y \in S : Min(S) =< y
<1>1. PICK x \in S : \A y \in S : <<y, x>> \notin OpToRel(<, Nat)
  BY NatLessThanWellFounded, WFMin, ZenonT(60)
<1>2. \A y \in S : ~(y < x)
  BY <1>1, ZenonT(60) DEF OpToRel
<1>3. \A y \in S : x =< y
  BY <1>2
<1> QED
  BY <1>3, ZenonT(60) DEF Min

(* What is left of a registry queue after the scans is still one.          *)
LEMMA RestType ==
  ASSUME NEW S, NEW q \in Seq(S), NEW i \in Nat
  PROVE  Rest(q, i) \in Seq(S)
BY DEF Rest

(* The scan for an entry that upgrades stops in it or right behind.        *)
LEMMA FirstAliveType ==
  ASSUME NEW S, NEW q \in Seq(S)
  PROVE  FirstAlive(q) \in 1..(Len(q) + 1)
<1> DEFINE T == {i \in 1..Len(q) : Alive(q[i])} \cup {Len(q) + 1}
<1>1. T \in SUBSET Nat /\ T # {} /\ T \subseteq 1..(Len(q) + 1)
  OBVIOUS
<1>2. Min(T) \in T
  BY <1>1, MinIsLeast, ZenonT(60)
<1> QED
  BY <1>1, <1>2 DEF FirstAlive

(* What _clear_wakers leaves is a queue of the same wakers.                *)
LEMMA ClearedType ==
  ASSUME NEW S, NEW q \in Seq(S), NEW old, NEW oneshot
  PROVE  Cleared(q, old, oneshot) \in Seq(S)
<1> DEFINE T == {i \in 1..Len(q) : ~ScanPast(q[i], old, oneshot)}
                \cup {Len(q) + 1}
           stop == Min(T)
<1>1. T \in SUBSET Nat /\ T # {} /\ T \subseteq 1..(Len(q) + 1)
  OBVIOUS
<1>2. stop \in 1..(Len(q) + 1)
  BY ZenonT(60), <1>1, MinIsLeast
<1> HIDE DEF T
<1>3. stop \in Nat /\ stop - 1 \in Nat
  BY <1>2
<1>4. Rest(q, stop) \in Seq(S) /\ Rest(q, stop - 1) \in Seq(S)
  BY <1>3, RestType
<1>5. <<>> \in Seq(S)
  OBVIOUS
<1> QED
  BY <1>4, <1>5 DEF Cleared, T

(* The messages in a queue after a push and after a pop.                   *)
LEMMA PushedMessages ==
  ASSUME NEW S, NEW q \in Seq(S), NEW m \in S
  PROVE  /\ Append(q, m) \in Seq(S) /\ Len(Append(q, m)) = Len(q) + 1
         /\ Range(Append(q, m)) = Range(q) \cup {m}
         /\ \A i \in 1..Len(q) : Append(q, m)[i] = q[i]
         /\ Append(q, m)[Len(q) + 1] = m
<1> DEFINE p == Append(q, m)
<1>1. /\ p \in Seq(S) /\ Len(p) = Len(q) + 1 /\ Len(q) \in Nat
      /\ \A i \in 1..Len(q) : p[i] = q[i]
      /\ p[Len(q) + 1] = m
      /\ DOMAIN p = 1..(Len(q) + 1) /\ DOMAIN q = 1..Len(q)
  OBVIOUS
<1> HIDE DEF p
<1>2. ASSUME NEW i \in DOMAIN p PROVE p[i] \in Range(q) \cup {m}
  <2>1. i \in DOMAIN q \/ i = Len(q) + 1
    BY <1>1
  <2> QED BY <2>1, <1>1 DEF Range
<1>3. ASSUME NEW i \in DOMAIN q PROVE i \in DOMAIN p /\ p[i] = q[i]
  BY <1>1
<1>4. Len(q) + 1 \in DOMAIN p
  BY <1>1
<1>5. Range(p) = Range(q) \cup {m}
  BY <1>1, <1>2, <1>3, <1>4 DEF Range
<1> QED
  BY <1>1, <1>5 DEF p

(* The messages in a queue before and after a pop.                         *)
LEMMA PoppedMessages ==
  ASSUME NEW S, NEW q \in Seq(S), q # <<>>
  PROVE  /\ Head(q) \in S /\ Tail(q) \in Seq(S) /\ Len(Tail(q)) = Len(q) - 1
         /\ \A i \in 1..Len(Tail(q)) : Tail(q)[i] = q[i + 1]
         /\ Head(q) = q[1]
         /\ Range(q) = Range(Tail(q)) \cup {Head(q)}
<1>1. /\ Head(q) \in S /\ Tail(q) \in Seq(S) /\ Len(Tail(q)) = Len(q) - 1
      /\ \A i \in 1..Len(Tail(q)) : Tail(q)[i] = q[i + 1]
      /\ Head(q) = q[1] /\ Len(q) \in Nat /\ Len(q) > 0
  OBVIOUS
<1>2. Range(Tail(q)) \cup {Head(q)} \subseteq Range(q)
  BY <1>1 DEF Range
<1>3. ASSUME NEW i \in 1..Len(q) PROVE q[i] \in Range(Tail(q)) \cup {Head(q)}
  <2>1. CASE i = 1
    BY <2>1, <1>1
  <2>2. CASE i # 1
    <3>1. i - 1 \in 1..Len(Tail(q)) /\ Tail(q)[i - 1] = q[i]
      BY <2>2, <1>1
    <3>2. DOMAIN Tail(q) = 1..Len(Tail(q))
      BY <1>1
    <3> HIDE <1>1
    <3> QED BY <3>1, <3>2, ZenonT(60) DEF Range
  <2> QED BY <2>1, <2>2
<1>4. Range(q) \subseteq Range(Tail(q)) \cup {Head(q)}
  BY <1>3, <1>1 DEF Range
<1> QED
  BY <1>1, <1>2, <1>4

(* A thread belongs to one side.                                           *)
LEMMA SideType ==
  /\ \A t \in Threads : Side(t) \in Sides /\ Other(Side(t)) \in Sides
  /\ \A s \in Senders : Side(s) = "tx" /\ s \in Threads
  /\ \A r \in Receivers : Side(r) = "rx" /\ r \in Threads /\ r \notin Senders
BY ChannelAssumption DEF Side, Other, Sides, Threads

-----------------------------------------------------------------------------
(* The type invariant *)

(* The control points at which a call holds its o_waker.                   *)
Holding == {"r_final", "s_check", "commit", "closed?", "park", "cancel",
            "s_uncertain", "clear_one", "clear_all"}
NeedsOwn(l, r) == l \in Holding \/ (l \in InFire /\ r = "cancel")
OwnInv ==
  \A t \in Threads :
    /\ NeedsOwn(pc[t], ret[t]) => own[t] \in Wakers
    /\ own[t] \in Wakers => own[t][1] = t

TargetInv == \A t \in Threads : pc[t] \in InFire => target[t] \in Sides

(* A registry holds wakers of its own side only.                           *)
WakersOf(side) == {w \in Wakers : Side(w[1]) = side}
RegInv ==
  \A side \in Sides :
    /\ reg[side] \in Seq(WakersOf(side))
    /\ reg[side] # <<>> => regSeq[side] > 0

(* tx_count and rx_count are the numbers of handles.                       *)
Left == {"close", "gone"}
Handles(side) == {t \in Threads : Side(t) = side /\ pc[t] \notin Left}
CountInv == \A side \in Sides : count[side] = Cardinality(Handles(side))

(* TypeOK in parts: the messages, the registries, and the threads.         *)
MsgType ==
  /\ queue \in Seq(Messages) /\ Len(queue) <= Cap
  /\ accepted \subseteq Messages /\ rejected \subseteq Messages
  /\ taken \subseteq Messages /\ disconnected \subseteq Receivers
WaitType ==
  /\ reg \in [Sides -> Seq(Wakers)]
  /\ regSeq \in [Sides -> Nat]
  /\ hasWaker \in [Sides -> BOOLEAN]
  /\ state \in [Wakers -> WakerStates]
  /\ seq \in [Wakers -> Nat]
  /\ unparked \in [Threads -> BOOLEAN]
CallType ==
  /\ pc \in [Threads -> Labels]
  /\ op \in [Threads -> SendOps \cup RecvOps \cup {Nil}]
  /\ nops \in [Threads -> Nat]
  /\ own \in [Threads -> Wakers \cup {Nil}]
  /\ seen \in [Threads -> WakerStates]
  /\ ret \in [Threads -> {"ok", "cancel", "timeout", "s_try"}]
FireType ==
  /\ held \in [Threads -> Wakers \cup {Nil}]
  /\ last \in [Threads -> Nat \cup {Nil}]
  /\ again \in [Threads -> BOOLEAN]
  /\ target \in [Threads -> Sides \cup {Nil}]
CountType == count \in [Sides -> Nat]
ControlInv == OwnInv /\ TargetInv

TypeInv == /\ MsgType /\ WaitType /\ CallType /\ FireType /\ CountType
           /\ ControlInv /\ RegInv /\ CountInv

(* The parts make up TypeOK.                                               *)
LEMMA TypeInvType == TypeInv => TypeOK
BY DEF TypeInv, TypeOK, MsgType, WaitType, CallType, FireType, CountType

(* A side has finitely many handles.                                       *)
LEMMA HandlesFinite == \A side \in Sides : IsFiniteSet(Handles(side))
<1>1. IsFiniteSet(Threads)
  BY ChannelAssumption, FS_Union, ZenonT(60) DEF Threads
<1> QED
  BY <1>1, FS_Subset DEF Handles

(* The labels a thread returns to, from fire() and from _clear_wakers().   *)
LEMMA LabelFacts ==
  /\ \A l \in InFire : l \notin Left /\ l \notin Holding /\ l \in Labels
  /\ \A l \in Holding : l \notin Left /\ l \in Labels
  /\ \A l \in {"ok", "timeout", "s_try"} :
       l \notin Left /\ l \notin Holding /\ l \notin InFire /\ l \in Labels
BY DEF InFire, Left, Holding, Labels

(* A step that neither makes nor drops a handle keeps the counts.          *)
LEMMA CountKept ==
  ASSUME CountType, CountInv, CallType, UNCHANGED count,
         NEW t \in Threads, NEW l, pc' = [pc EXCEPT ![t] = l],
         l \in Left <=> pc[t] \in Left
  PROVE  CountType' /\ CountInv'
<1>1. \A u \in Threads : pc'[u] \in Left <=> pc[u] \in Left
  BY DEF CallType
<1>2. \A side \in Sides : Handles(side)' = Handles(side)
  BY <1>1 DEF Handles
<1> QED
  BY <1>2 DEF CountInv, CountType

(* What a step of thread t to label l must show of itself.                 *)
LEMMA ControlKept ==
  ASSUME ControlInv, CallType,
         NEW t \in Threads, NEW l, pc' = [pc EXCEPT ![t] = l],
         \A u \in Threads : u # t =>
           own'[u] = own[u] /\ ret'[u] = ret[u] /\ target'[u] = target[u],
         NeedsOwn(l, ret'[t]) => own'[t] \in Wakers,
         own'[t] \in Wakers => own'[t][1] = t,
         l \in InFire => target'[t] \in Sides
  PROVE  ControlInv'
<1>1. pc'[t] = l /\ \A u \in Threads : u # t => pc'[u] = pc[u]
  BY DEF CallType
<1>2. OwnInv'
  <2> SUFFICES ASSUME NEW u \in Threads
               PROVE  /\ NeedsOwn(pc'[u], ret'[u]) => own'[u] \in Wakers
                      /\ own'[u] \in Wakers => own'[u][1] = u
    BY DEF OwnInv, NeedsOwn
  <2>1. CASE u = t
    BY <1>1, <2>1
  <2>2. CASE u # t
    BY <1>1, <2>2 DEF ControlInv, OwnInv
  <2> QED BY <2>1, <2>2
<1>3. TargetInv'
  BY <1>1 DEF ControlInv, TargetInv
<1> QED
  BY <1>2, <1>3 DEF ControlInv

(* A thread that goes on with fire(), or returns from it.                  *)
FireMove(t) ==
  /\ \/ pc' = [pc EXCEPT ![t] = ret[t]]
     \/ \E l \in InFire : pc' = [pc EXCEPT ![t] = l] /\ UNCHANGED target
  /\ \A u \in Threads : u # t => target'[u] = target[u]
  /\ UNCHANGED <<queue, count, regSeq, seq, op, nops, own, seen, ret, history>>

(* It keeps everything but the registries and the locals of fire().        *)
LEMMA FireMoveKeeps ==
  ASSUME TypeInv, NEW t \in Threads, pc[t] \in InFire, FireMove(t)
  PROVE  /\ MsgType' /\ CallType' /\ CountType'
         /\ ControlInv' /\ CountInv'
<1>1. PICK l : /\ pc' = [pc EXCEPT ![t] = l]
               /\ l = ret[t] \/ (l \in InFire /\ UNCHANGED target)
  BY DEF FireMove
<1>2. ret[t] \in {"ok", "cancel", "timeout", "s_try"}
  BY DEF TypeInv, CallType
<1>3. l \in Labels /\ l \notin Left /\ pc[t] \notin Left /\ "cancel" \in Holding
  BY <1>1, <1>2, LabelFacts DEF Holding
<1>4. MsgType'
  BY DEF FireMove, TypeInv, MsgType, history
<1>5. CallType'
  BY <1>1, <1>3 DEF FireMove, TypeInv, CallType
<1>6. CountType' /\ CountInv'
  BY <1>1, <1>3, CountKept, ZenonT(60) DEF FireMove, TypeInv
<1>7. ControlInv'
  <2>1. NeedsOwn(l, ret'[t]) => own'[t] \in Wakers
    BY <1>1, <1>2, LabelFacts
       DEF FireMove, TypeInv, ControlInv, OwnInv, NeedsOwn
  <2>2. own'[t] \in Wakers => own'[t][1] = t
    BY DEF FireMove, TypeInv, ControlInv, OwnInv
  <2>3. l \in InFire => target'[t] \in Sides
    BY <1>1, <1>2, LabelFacts DEF TypeInv, ControlInv, TargetInv, InFire
  <2> QED
    BY <1>1, <2>1, <2>2, <2>3, ControlKept, ZenonT(60) DEF FireMove, TypeInv
<1> QED
  BY <1>4, <1>5, <1>6, <1>7

(* What a pop leaves in the registry is typed.                             *)
LEMMA RegKept ==
  ASSUME TypeInv, NEW side \in Sides, NEW q \in Seq(WakersOf(side)),
         reg' = [reg EXCEPT ![side] = q],
         q # <<>> => reg[side] # <<>>, UNCHANGED regSeq
  PROVE  reg' \in [Sides -> Seq(Wakers)] /\ RegInv'
<1>1. q \in Seq(Wakers)
  BY DEF WakersOf
<1>2. reg' \in [Sides -> Seq(Wakers)]
  BY <1>1 DEF TypeInv, WaitType
<1>3. RegInv'
  BY <1>2 DEF TypeInv, WaitType, RegInv, WakersOf
<1> QED
  BY <1>2, <1>3

(* pop_first and pop_again.                                                *)
LEMMA PopType ==
  ASSUME TypeInv, NEW t \in Threads, PopFirst(t) \/ PopAgain(t)
  PROVE  TypeInv'
<1> DEFINE side == target[t]
           q == reg[side]
           i == FirstAlive(q)
<1>1. pc[t] \in InFire /\ side \in Sides
  BY DEF PopFirst, PopAgain, InFire, TypeInv, ControlInv, TargetInv
<1>2. FireMove(t)
  <2>1. CASE PopFirst(t)
    BY <2>1 DEF PopFirst, Pop, PopNone, EndFire, Goto, FireMove, InFire,
       TypeInv, FireType
  <2>2. CASE PopAgain(t)
    BY <2>2 DEF PopAgain, Pop, PopNone, EndFire, Goto, FireMove, InFire,
       TypeInv, FireType
  <2> QED BY <2>1, <2>2
<1>3. q \in Seq(WakersOf(side)) /\ (q # <<>> => regSeq[side] > 0)
  BY <1>1 DEF TypeInv, RegInv
<1>4. i \in 1..(Len(q) + 1) /\ i \in Nat
  BY <1>3, FirstAliveType
<1>5. Rest(q, i) \in Seq(WakersOf(side)) /\ <<>> \in Seq(WakersOf(side))
  BY <1>3, <1>4, RestType
<1>6. Rest(q, i) # <<>> => q # <<>>
  BY <1>3, <1>4 DEF Rest
<1>7. i <= Len(q) => q[i] \in Wakers
  BY <1>3, <1>4 DEF WakersOf
<1> DEFINE kept == UNCHANGED reg /\ UNCHANGED hasWaker /\ EndFire(t)
           none == PopNone(t)
           pop == /\ Pop(t) /\ i <= Len(q) /\ UNCHANGED target
                  /\ again' \in [Threads -> BOOLEAN]
                  /\ last' \in [Threads -> Nat \cup {Nil}]
<1>8. kept \/ none \/ pop
  <2>1. CASE PopFirst(t)
    <3>1. Rest(q, i) # <<>> => regSeq[side] - 1 \in Nat
      BY <1>1, <1>3, <1>6 DEF TypeInv, WaitType
    <3> QED BY <2>1, <3>1 DEF PopFirst, TypeInv, FireType
  <2>2. CASE PopAgain(t)
    BY <2>2, ZenonT(60) DEF PopAgain, TypeInv, FireType
  <2> QED BY <2>1, <2>2
<1>9. UNCHANGED <<regSeq, state, seq, unparked>>
  BY DEF PopFirst, PopAgain
<1>10. /\ reg' = reg \/ reg' = [reg EXCEPT ![side] = <<>>]
          \/ reg' = [reg EXCEPT ![side] = Rest(q, i)]
       /\ hasWaker' \in [Sides -> BOOLEAN]
  BY <1>8, ZenonT(60) DEF PopNone, Pop, TypeInv, WaitType
<1>11. reg' \in [Sides -> Seq(Wakers)] /\ RegInv'
  <2>1. CASE reg' = reg
    BY <2>1, <1>9 DEF TypeInv, WaitType, RegInv
  <2>2. CASE reg' = [reg EXCEPT ![side] = <<>>]
    BY <2>2, <1>1, <1>5, <1>9, RegKept, ZenonT(60)
  <2>3. CASE reg' = [reg EXCEPT ![side] = Rest(q, i)]
    BY <2>3, <1>1, <1>5, <1>6, <1>9, RegKept, ZenonT(60)
  <2> QED BY <1>10, <2>1, <2>2, <2>3
<1>12. WaitType'
  BY <1>9, <1>10, <1>11 DEF TypeInv, WaitType
<1>13. FireType'
  <2>1. CASE kept \/ none
    BY <2>1, ZenonT(60) DEF EndFire, PopNone, TypeInv, FireType
  <2>2. CASE pop
    BY <2>2, <1>7 DEF Pop, TypeInv, FireType
  <2> QED BY <1>8, <2>1, <2>2
<1> QED
  BY <1>1, <1>2, <1>11, <1>12, <1>13, FireMoveKeeps DEF TypeInv

(* The steps of WakerInner::wake go on with fire(), or end it.             *)
LEMMA WakeMoves ==
  ASSUME TypeInv, NEW t \in Threads,
         WakeLoad(t) \/ WakeStore(t) \/ WakeCas(t) \/ WakeUnpark(t)
  PROVE  pc[t] \in InFire /\ FireMove(t) /\ FireType'
<1>1. pc[t] \in InFire
  BY DEF WakeLoad, WakeStore, WakeCas, WakeUnpark, InFire
<1> DEFINE go == \E l \in InFire : Goto(t, l) /\ UNCHANGED firing
<1>2. FireFrame /\ (NotDone(t) \/ EndFire(t) \/ go)
  BY DEF WakeLoad, WakeStore, WakeCas, WakeUnpark, InFire
<1>3. CASE EndFire(t)
  BY <1>1, <1>2, <1>3 DEF FireFrame, EndFire, Goto, FireMove, TypeInv, FireType
<1>4. CASE NotDone(t) /\ ~EndFire(t)
  <2>1. Goto(t, "f_again") /\ held' = [held EXCEPT ![t] = Nil]
        /\ UNCHANGED <<last, again, target>>
    BY <1>4 DEF NotDone
  <2> QED
    BY <1>1, <1>2, <2>1 DEF FireFrame, Goto, FireMove, TypeInv, FireType, InFire
<1>5. CASE go
  BY <1>1, <1>2, <1>5, ZenonT(60)
     DEF FireFrame, firing, Goto, FireMove, TypeInv, FireType
<1> QED
  BY <1>2, <1>3, <1>4, <1>5

(* They change one state or one park token.                                *)
LEMMA WakeType ==
  ASSUME TypeInv, NEW t \in Threads,
         WakeLoad(t) \/ WakeStore(t) \/ WakeCas(t) \/ WakeUnpark(t)
  PROVE  TypeInv'
<1>1. pc[t] \in InFire /\ FireMove(t) /\ FireType'
  BY WakeMoves
<1>2. FireFrame
  BY DEF WakeLoad, WakeStore, WakeCas, WakeUnpark
<1>3. /\ state' = state \/ state' = [state EXCEPT ![held[t]] = WOKEN]
      /\ unparked' = unparked
         \/ unparked' = [unparked EXCEPT ![held[t][1]] = TRUE]
  BY DEF WakeLoad, WakeStore, WakeCas, WakeUnpark, SetWoken
<1>4. WaitType' /\ RegInv'
  BY <1>2, <1>3, ZenonT(60)
     DEF FireFrame, TypeInv, WaitType, RegInv, WakerStates, WOKEN
<1> QED
  BY <1>1, <1>4, FireMoveKeeps DEF TypeInv

(* A thread that goes from one point of its call to another, outside of    *)
(* fire(), with the o_waker it has.                                        *)
QuietMove(t) ==
  /\ \E l \in Labels : /\ pc' = [pc EXCEPT ![t] = l]
                       /\ l \notin InFire /\ l \notin Left
                       /\ l \in Holding => pc[t] \in Holding
  /\ pc[t] \notin Left
  /\ \A u \in Threads : u # t => ret'[u] = ret[u]
  /\ UNCHANGED <<queue, count, reg, regSeq, hasWaker, seq, own, firing, history>>

(* It keeps the types, given those of what it assigns.                     *)
LEMMA QuietMoveKeeps ==
  ASSUME TypeInv, NEW t \in Threads, QuietMove(t),
         op' \in [Threads -> SendOps \cup RecvOps \cup {Nil}],
         nops' \in [Threads -> Nat],
         seen' \in [Threads -> WakerStates],
         ret' \in [Threads -> {"ok", "cancel", "timeout", "s_try"}],
         state' \in [Wakers -> WakerStates],
         unparked' \in [Threads -> BOOLEAN]
  PROVE  TypeInv'
<1>1. PICK l \in Labels : /\ pc' = [pc EXCEPT ![t] = l]
                          /\ l \notin InFire /\ l \notin Left
                          /\ l \in Holding => pc[t] \in Holding
  BY ZenonT(60) DEF QuietMove
<1>2. CallType'
  BY <1>1, ZenonT(60) DEF QuietMove, TypeInv, CallType
<1>3. MsgType' /\ FireType' /\ WaitType' /\ RegInv'
  BY DEF QuietMove, TypeInv, MsgType, FireType, WaitType, RegInv, firing, history
<1>4. CountType' /\ CountInv'
  BY <1>1, CountKept, ZenonT(60) DEF QuietMove, TypeInv
<1>5. ControlInv'
  <2>1. NeedsOwn(l, ret'[t]) => own'[t] \in Wakers
    BY <1>1 DEF QuietMove, TypeInv, ControlInv, OwnInv, NeedsOwn
  <2>2. own'[t] \in Wakers => own'[t][1] = t
    BY DEF QuietMove, TypeInv, ControlInv, OwnInv
  <2> QED
    BY <1>1, <2>1, <2>2, ControlKept, ZenonT(60) DEF QuietMove, TypeInv, firing
<1> QED
  BY <1>2, <1>3, <1>4, <1>5 DEF TypeInv

(* Where OnState leads.                                                    *)
LEMMA OnStateMoves ==
  ASSUME NEW t, NEW s, OnState(t, s)
  PROVE  \E l \in {"park", "s_try", "r_try", "s_closed", "r_last"} :
           pc' = [pc EXCEPT ![t] = l]
BY ZenonT(60) DEF OnState, Goto

(* cancel_waker, commit_waiting, the check of the count, the park loop.    *)
LEMMA CallMoveType ==
  ASSUME TypeInv, NEW t \in Threads,
         CancelWaker(t) \/ CommitWaiting(t) \/ ClosedCheck(t) \/ Park(t)
  PROVE  TypeInv'
<1> USE DEF TypeInv
<1>1. pc[t] \in Holding /\ own[t] \in Wakers
  BY DEF CancelWaker, CommitWaiting, ClosedCheck, Park, Holding, ControlInv,
     OwnInv, NeedsOwn
<1>2. CASE CancelWaker(t)
  <2>1. QuietMove(t)
    BY <1>1, <1>2 DEF CancelWaker, Goto, QuietMove, Holding, InFire, Left,
       Labels, waits, CallType
  <2> QED
    BY <1>2, <2>1, QuietMoveKeeps, ZenonT(60) DEF CancelWaker, waits, CallType, WaitType
<1>3. CASE CommitWaiting(t)
  <2>1. QuietMove(t)
    BY <1>1, <1>3 DEF CommitWaiting, Goto, QuietMove, Holding, InFire, Left, Labels
  <2>2. state[own[t]] \in WakerStates /\ WAITING \in WakerStates
    BY <1>1 DEF WaitType, WakerStates
  <2>3. seen' \in [Threads -> WakerStates]
    BY <1>3, <2>2, ZenonT(60) DEF CommitWaiting, CallType
  <2>4. state' \in [Wakers -> WakerStates]
    BY <1>3, <2>2, ZenonT(60) DEF CommitWaiting, WaitType
  <2> QED
    BY <1>3, <2>1, <2>3, <2>4, QuietMoveKeeps, ZenonT(60)
       DEF CommitWaiting, CallType, WaitType
<1>4. CASE ClosedCheck(t)
  <2>1. PICK l \in {"park", "s_try", "r_try", "s_closed", "r_last"} :
          pc' = [pc EXCEPT ![t] = l]
    BY <1>4, OnStateMoves DEF ClosedCheck, Goto
  <2>2. QuietMove(t)
    BY <1>1, <1>4, <2>1, ZenonT(60) DEF ClosedCheck, Continues, Local, waits, QuietMove,
       Holding, InFire, Left, Labels
  <2> QED
    BY <1>4, <2>2, QuietMoveKeeps, ZenonT(60) DEF ClosedCheck, Continues, Local, waits,
       CallType, WaitType, WakerStates, INIT
<1>5. CASE Park(t)
  <2>1. PICK l \in {"park", "s_try", "r_try", "s_closed", "r_last"} :
          pc' = [pc EXCEPT ![t] = l]
    BY <1>5, OnStateMoves DEF Park
  <2>2. QuietMove(t)
    BY <1>1, <1>5, <2>1, ZenonT(60) DEF Park, QuietMove, Holding, InFire, Left, Labels
  <2> QED
    BY <1>5, <2>2, QuietMoveKeeps, ZenonT(60) DEF Park, CallType, WaitType
<1> QED
  BY <1>2, <1>3, <1>4, <1>5

(* A call that returns, and drops its o_waker.                             *)
LEMMA ReturnKeeps ==
  ASSUME TypeInv, NEW t \in Threads, Return(t), pc[t] \notin Left, MsgType',
         UNCHANGED <<count, waits, nops, seen, firing, ret>>
  PROVE  TypeInv'
<1> USE DEF TypeInv
<1>1. /\ pc' = [pc EXCEPT ![t] = "idle"] /\ "idle" \in Labels
      /\ "idle" \notin Left /\ "idle" \notin InFire /\ "idle" \notin Holding
  BY DEF Return, Goto, Labels, Left, InFire, Holding
<1>2. own'[t] = Nil /\ Nil \notin Wakers
      /\ \A u \in Threads : u # t => own'[u] = own[u]
  BY ChannelAssumption DEF Return, CallType, Wakers, Threads
<1>3. CallType'
  BY <1>1 DEF Return, CallType
<1>4. WaitType' /\ FireType' /\ RegInv'
  BY DEF waits, firing, WaitType, FireType, RegInv
<1>5. CountType' /\ CountInv'
  BY <1>1, CountKept, ZenonT(60)
<1>6. ControlInv'
  BY <1>1, <1>2, ControlKept, ZenonT(60) DEF NeedsOwn, firing
<1> QED
  BY <1>3, <1>4, <1>5, <1>6

(* A call that starts fire() on a registry and continues at `then'.        *)
LEMMA StartFireKeeps ==
  ASSUME TypeInv, NEW t \in Threads, pc[t] \notin Left, MsgType',
         NEW side \in Sides, NEW then \in {"ok", "cancel", "timeout"},
         StartFire(t, side, then), then = "cancel" => own[t] \in Wakers,
         UNCHANGED <<count, waits, op, nops, own, seen>>
  PROVE  TypeInv'
<1> USE DEF TypeInv
<1>1. pc' = [pc EXCEPT ![t] = "f_first"] /\ "f_first" \in InFire
  BY ZenonT(60) DEF StartFire, Goto, InFire
<1>2. CallType'
  BY <1>1, LabelFacts DEF StartFire, CallType
<1>3. FireType'
  BY DEF StartFire, FireType
<1>4. WaitType' /\ RegInv'
  BY ZenonT(60) DEF waits, WaitType, RegInv
<1>5. CountType' /\ CountInv'
  BY <1>1, LabelFacts, CountKept, ZenonT(60)
<1>6. ControlInv'
  <2>1. /\ ret'[t] = then /\ target'[t] = side
        /\ \A u \in Threads : u # t => ret'[u] = ret[u] /\ target'[u] = target[u]
    BY DEF StartFire, CallType, FireType
  <2>2. NeedsOwn("f_first", ret'[t]) => own'[t] \in Wakers
    BY ZenonT(60), <1>1, <2>1, LabelFacts DEF NeedsOwn
  <2>3. own'[t] \in Wakers => own'[t][1] = t
    BY ZenonT(60) DEF ControlInv, OwnInv
  <2> QED
    BY <1>1, <2>1, <2>2, <2>3, ControlKept, ZenonT(60)
<1> QED
  BY <1>2, <1>3, <1>4, <1>5, <1>6

=============================================================================
