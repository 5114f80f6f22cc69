----------------------- MODULE ChannelWakeupProofs -------------------------
(***************************************************************************)
(* Nobody who could go on is left asleep, as far as the registries of      *)
(* Channel guarantee it (WaitersReleased): after the other side has        *)
(* closed, for any number of threads; and beside a message or free room,   *)
(* for a thread that is alone on its side.                                 *)
(***************************************************************************)
EXTENDS ChannelRegistryProofs

(* The provers of a leaf that names none, in this order, with time in      *)
(* seconds that is enough on a slow machine too.                           *)
USE ZenonT(4), SMTT(60), Z3T(60), ZenonT(60)

-----------------------------------------------------------------------------
(* The inductive invariant, on top of TypeInv and WakerInv *)

Lone(t) == \A u \in Threads : Side(u) = Side(t) /\ u # t => Absent(u)

(* A thread that takes no part never registers.                            *)
AbsentInv ==
  \A u \in Threads : Absent(u) =>
    pc[u] = "gone" /\ \A w \in Wakers : w[1] = u => seq[w] = 0

(* Only a fire() holds the waker of somebody else.                         *)
HeldInv == \A f \in Threads : held[f] # Nil => pc[f] \in InFire

(* A waker that the call found woken or closed is not set back to waiting. *)
SeenInv ==
  \A t \in Threads : pc[t] = "closed?" /\ seen[t] >= WOKEN => state[own[t]] >= WOKEN

(* A fire() may still hold a waker that its thread has registered again.   *)
(* This entry upgrades, so it must be the one of the call in progress.     *)
HandInv ==
  \A t \in Threads : Lone(t) =>
    \A w \in Wakers, f \in Threads : w[1] = t /\ Listed(w) /\ held[f] = w => own[t] = w

(* A closed waker is out of the registry, or about to be taken out.        *)
ClosedInv ==
  \A t \in Threads :
    Lone(t) /\ own[t] \in Wakers /\ state[own[t]] = CLOSED /\ Listed(own[t])
      => pc[t] = "clear_all"

(* A call on its way out leaves its waker registered only when there is    *)
(* nobody left to find it.                                                 *)
Exits == {"r_last", "s_closed", "ok", "timeout", "t_closed", "t_pop"}
Leaving(t) == pc[t] \in Exits \/ (pc[t] \in InFire /\ ret[t] # "cancel")
LeaveInv ==
  \A t \in Threads :
    Lone(t) /\ own[t] \in Wakers /\ Leaving(t) /\ Listed(own[t])
      => count[Other(Side(t))] = 0

(* A call that could go on, and blocks, is about to be woken.              *)
CanGo(t) == IF t \in Receivers THEN queue # <<>> ELSE Len(queue) < Cap
Blocks == {"commit", "closed?", "park"}
Comes(f, t) == pc[f] = "f_first" /\ target[f] = Side(t)
RoomInv ==
  \A t \in Threads :
    Lone(t) /\ pc[t] \in Blocks /\ state[own[t]] <= WAITING /\ CanGo(t)
      => \E f \in Threads : Wakes(f, own[t]) \/ Comes(f, t)

(* So is a call that blocks although the other side has closed.            *)
Closing(f, t) == pc[f] = "close" /\ Side(f) = Other(Side(t))
ShutInv ==
  \A t \in Threads :
    pc[t] = "park" /\ state[own[t]] <= WAITING /\ count[Other(Side(t))] = 0
      => \E f \in Threads : Wakes(f, own[t]) \/ Closing(f, t)

WakeupInv == /\ AbsentInv /\ HeldInv /\ SeenInv /\ HandInv
             /\ ClosedInv /\ LeaveInv /\ RoomInv /\ ShutInv

-----------------------------------------------------------------------------
(* What a step of thread a that registers no waker does, beside Calm(a)    *)

Present(a) ==
  /\ pc[a] # "gone" \/ nops[a] < MaxOps[a]
  /\ \A u \in Threads : u # a => nops'[u] = nops[u]
  /\ nops'[a] = nops[a] \/ (nops[a] < MaxOps[a] /\ nops'[a] = nops[a] + 1)

Fires(a) ==
  /\ \A u \in Threads : u # a => target'[u] = target[u]
  /\ held'[a] # Nil => /\ pc'[a] \in InFire
                       /\ held'[a] = held[a] \/ pc'[a] \in Waking

(* Whoever makes room, sends a message or leaves goes on to tell it.       *)
Gates(a) ==
  /\ \A u \in Threads : CanGo(u)' => CanGo(u) \/ Comes(a, u)'
  /\ \A d \in Sides : count[d] = 0 => count'[d] = 0
  /\ \A d \in Sides : count'[d] = 0 =>
       count[d] = 0 \/ (pc'[a] = "close" /\ Side(a) = d)

(* A call blocks after it has looked.                                      *)
Enters(a) ==
  /\ pc'[a] \in Blocks => pc[a] \in Blocks \/ ~CanGo(a)'
  /\ pc'[a] = "park" => pc[a] = "park" \/ count'[Other(Side(a))] # 0
  /\ pc'[a] = "closed?" /\ seen'[a] >= WOKEN => state'[own'[a]] >= WOKEN

Drops(a) ==
  Lone(a) /\ own[a] \in Wakers /\ own[a] \in Range(reg'[Side(a)]) =>
    /\ pc[a] # "clear_all"
    /\ own'[a] # own[a] => Leaving(a) /\ pc[a] \notin InFire
    /\ Leaving(a)' => Leaving(a) \/ count[Other(Side(a))] = 0

Closes(a) ==
  \A w \in Wakers : state'[w] = CLOSED =>
    \/ state[w] = CLOSED
    \/ w \notin Range(reg'[Side(w[1])])
    \/ w = own[a] /\ pc'[a] = "clear_all"

(* A fire() takes the waker of a lone thread, a close closes everybody's.  *)
Serves(a) ==
  \A u \in Threads : pc[u] \in Waits /\ Listed(own[u]) =>
    /\ Lone(u) /\ Comes(a, u) => pc'[a] \in Waking /\ held'[a] = own[u]
    /\ Closing(a, u) => ~(state'[own[u]] <= WAITING)

Moves(a) == /\ Present(a) /\ Fires(a) /\ Gates(a) /\ Enters(a)
            /\ Drops(a) /\ Closes(a) /\ Serves(a)

(* The threads that take part stay the same.                               *)
LEMMA PresentKeeps ==
  ASSUME TypeInv, TypeInv', AbsentInv, NEW a \in Threads, Present(a)
  PROVE  /\ ~Absent(a) /\ \A u \in Threads : Absent(u)' <=> Absent(u)
         /\ \A u \in Threads : Lone(u)' <=> Lone(u)
<1>1. MaxOps[a] \in Nat /\ nops[a] \in Nat
  BY ChannelAssumption DEF TypeInv, CallType, Threads
<1>2. ~Absent(a) /\ ~Absent(a)'
  BY <1>1 DEF Present, Absent, AbsentInv
<1>3. \A u \in Threads : Absent(u)' <=> Absent(u)
  BY <1>2 DEF Present, Absent
<1> QED
  BY <1>2, <1>3 DEF Lone

(* Nobody holds a waker of a lone thread that has nobody to wake it.       *)
LEMMA NobodyHolds ==
  ASSUME TypeInv, AbsentInv, HeldInv, NEW t \in Threads, Lone(t),
         count[Other(Side(t))] = 0, pc[t] \notin InFire, NEW f \in Threads
  PROVE  held[f] = Nil
<1>1. "gone" \notin InFire /\ "close" \notin InFire
  BY DEF InFire
<1>2. CASE Side(f) = Side(t)
  BY <1>1, <1>2 DEF Lone, AbsentInv, HeldInv
<1>3. CASE Side(f) # Side(t)
  <2>1. Side(f) = Other(Side(t))
    BY <1>3 DEF Side, Other
  <2>2. pc[f] \in Left
    BY <2>1, HandleCounted
  <2> QED BY <1>1, <2>2 DEF HeldInv, Left
<1> QED
  BY <1>2, <1>3

(* An entry in the registry of a lone thread upgrades only when it is the  *)
(* o_waker of its call.                                                    *)
LEMMA LoneListed ==
  ASSUME TypeInv, WakerInv, WakeupInv, NEW t \in Threads, Lone(t),
         NEW w \in Range(reg[Side(t)])
  PROVE  w \in Wakers /\ w[1] = t /\ (Alive(w) => own[t] = w)
<1>1. Side(t) \in Sides
  BY SideType
<1>2. w \in Wakers /\ Side(w[1]) = Side(t) /\ w[1] \in Threads
  BY <1>1, RegIs DEF WakersOf, Wakers
<1>3. seq[w] > 0 /\ seq[w] \in Nat
  <2>1. PICK i \in 1..Len(reg[Side(t)]) : w = reg[Side(t)][i]
    BY <1>1 DEF Range, TypeInv, WaitType
  <2> QED BY <1>1, <1>2, <2>1 DEF WakerInv, OrderInv, Sorted, TypeInv, WaitType
<1>4. w[1] = t
  <2>1. ~Absent(w[1])
    BY <1>2, <1>3 DEF WakeupInv, AbsentInv
  <2> QED BY <1>2, <2>1 DEF Lone
<1>5. Listed(w)
  BY <1>4 DEF Listed
<1> QED
  BY <1>2, <1>4, <1>5 DEF Alive, WakeupInv, HandInv

(* A step that does this keeps the invariant.                              *)
LEMMA MoveKeeps ==
  ASSUME TypeInv, TypeInv', WakerInv, WakerInv', WakeupInv,
         NEW a \in Threads, Calm(a), Moves(a)
  PROVE  WakeupInv'
<1> USE DEF WakeupInv, Calm, Moves
<1>1. /\ ~Absent(a) /\ \A u \in Threads : Absent(u)' <=> Absent(u)
      /\ \A u \in Threads : Lone(u)' <=> Lone(u)
  BY PresentKeeps
<1>2. Nil \notin Wakers
  BY ChannelAssumption DEF Wakers, Threads
<1>3. ASSUME NEW u \in Threads, own'[u] \in Wakers
      PROVE  own'[u] = own[u] /\ own[u][1] = u
  BY <1>2, <1>3 DEF Alone, CallMove, TypeInv, ControlInv, OwnInv
<1>4. \A w \in Wakers : Listed(w)' => Listed(w)
  BY SideType DEF Shrinks, Listed, Wakers
<1>5. ASSUME NEW w \in Wakers, state[w] >= WOKEN PROVE state'[w] >= WOKEN
  <2>1. state[w] \in WakerStates /\ state'[w] \in WakerStates
    BY ZenonT(60) DEF TypeInv, WaitType
  <2> QED BY <1>5, <2>1, StateSplit DEF StateMoves
<1>6. AbsentInv'
  <2> SUFFICES ASSUME NEW u \in Threads, Absent(u)
               PROVE  pc'[u] = "gone" /\ \A w \in Wakers : w[1] = u => seq'[w] = 0
    BY <1>1 DEF AbsentInv
  <2> QED BY <1>1 DEF AbsentInv, Alone, Shrinks
<1>7. HeldInv'
  BY DEF HeldInv, Alone, Fires
<1>8. SeenInv'
  <2> SUFFICES ASSUME NEW u \in Threads, pc'[u] = "closed?", seen'[u] >= WOKEN
               PROVE  state'[own'[u]] >= WOKEN
    BY ZenonT(60) DEF SeenInv
  <2>1. CASE u = a
    BY <2>1 DEF Enters
  <2>2. CASE u # a
    <3>1. pc[u] = "closed?" /\ seen[u] >= WOKEN /\ own'[u] = own[u]
      BY <2>2 DEF Alone
    <3>2. own[u] \in Wakers
      BY <3>1, WaiterOwns DEF Waits
    <3> QED BY <1>5, <3>1, <3>2 DEF SeenInv
  <2> QED BY <2>1, <2>2
<1>9. HandInv'
  <2> SUFFICES ASSUME NEW u \in Threads, Lone(u), NEW w \in Wakers, NEW f \in Threads,
                      w[1] = u, Listed(w)', held'[f] = w
               PROVE  own'[u] = w
    BY <1>1 DEF HandInv
  <2>1. held[f] = w
    <3>1. CASE pc'[f] \in Waking
      <4>1. ~Listed(held[f])'
        BY <3>1 DEF WakerInv, WakesInv
      <4> QED BY <4>1 DEF Listed
    <3>2. CASE pc'[f] \notin Waking
      BY <1>2, <3>2 DEF Alone, Fires
    <3> QED BY <3>1, <3>2
  <2>2. own[u] = w
    BY <1>4, <2>1 DEF HandInv
  <2>3. ASSUME own'[u] # own[u] PROVE FALSE
    <3>1. u = a
      BY <2>3 DEF Alone
    <3>2. Leaving(a) /\ pc[a] \notin InFire
      BY <2>2, <2>3, <3>1 DEF Drops, Listed
    <3>3. count[Other(Side(a))] = 0
      BY <1>4, <2>2, <3>1, <3>2 DEF LeaveInv
    <3>4. held[f] = Nil
      BY <3>1, <3>2, <3>3, NobodyHolds
    <3> QED BY <1>2, <2>1, <3>4
  <2> QED BY <2>2, <2>3
<1>10. ClosedInv'
  <2> SUFFICES ASSUME NEW u \in Threads, Lone(u), own'[u] \in Wakers,
                      state'[own'[u]] = CLOSED, Listed(own[u])'
               PROVE  pc'[u] = "clear_all"
    BY <1>1 DEF ClosedInv
  <2>1. PICK w \in Wakers : w = own[u] /\ w = own'[u] /\ w[1] = u
    BY <1>3
  <2>2. Listed(w)' /\ Listed(w) /\ state'[w] = CLOSED
    BY <1>4, <2>1 DEF Listed
  <2>3. CASE state[w] = CLOSED
    <3>1. pc[u] = "clear_all"
      BY <2>1, <2>2, <2>3 DEF ClosedInv
    <3>2. u # a
      BY <2>1, <2>2, <3>1 DEF Drops, Listed
    <3> QED BY <3>1, <3>2 DEF Alone
  <2>4. CASE state[w] # CLOSED
    <3>1. w = own[a] /\ pc'[a] = "clear_all"
      BY <2>2, <2>4 DEF Closes, Listed
    <3>2. w[1] = a
      BY <3>1 DEF TypeInv, ControlInv, OwnInv
    <3> QED BY <2>1, <3>1, <3>2
  <2> QED BY <2>3, <2>4
<1>11. LeaveInv'
  <2> SUFFICES ASSUME NEW u \in Threads, Lone(u), own'[u] \in Wakers, Leaving(u)',
                      Listed(own[u])'
               PROVE  count'[Other(Side(u))] = 0
    BY <1>1 DEF LeaveInv
  <2>1. PICK w \in Wakers : w = own[u] /\ w = own'[u] /\ w[1] = u
    BY <1>3
  <2>2. Listed(w)' /\ Listed(w)
    BY <1>4, <2>1 DEF Listed
  <2>3. Leaving(u) \/ count[Other(Side(u))] = 0
    <3>1. CASE u = a
      BY <2>1, <2>2, <3>1 DEF Drops, Listed
    <3>2. CASE u # a
      BY <3>2 DEF Alone, Leaving
    <3> QED BY <3>1, <3>2
  <2>4. count[Other(Side(u))] = 0
    BY <2>1, <2>2, <2>3 DEF LeaveInv
  <2> QED BY <2>4, SideType DEF Gates
<1>12. ASSUME NEW u \in Threads, pc[u] \in Waits, pc'[u] \in Waits,
              state'[own[u]] <= WAITING, NEW f \in Threads, Wakes(f, own[u])
       PROVE  pc'[f] \in Waking /\ held'[f] = own[u]
  BY <1>12 DEF Finds, Alone, Wakes
<1>13. ASSUME NEW u \in Threads, pc[u] \in Waits, pc'[u] \in Waits,
              state'[own[u]] <= WAITING, ~Listed(own[u])
       PROVE  \E f \in Threads : pc'[f] \in Waking /\ held'[f] = own[u]
  <2>1. own[u] \in Wakers
    BY <1>13, WaiterOwns
  <2>2. state[own[u]] <= WAITING
    BY <1>13, <2>1 DEF StateMoves
  <2>3. PICK f \in Threads : Wakes(f, own[u])
    BY <1>13, <2>2 DEF WakerInv, WaitInv
  <2> QED BY <1>12, <1>13, <2>3
<1>14. "park" \in Blocks /\ Blocks \subseteq Waits
  BY DEF Blocks, Waits
<1>15. RoomInv'
  <2> SUFFICES ASSUME NEW u \in Threads, Lone(u), pc'[u] \in Blocks,
                      state'[own'[u]] <= WAITING, CanGo(u)'
               PROVE  \E f \in Threads : \/ pc'[f] \in Waking /\ held'[f] = own'[u]
                                         \/ Comes(f, u)'
    BY <1>1, ZenonT(60) DEF RoomInv, Wakes, Blocks
  <2>1. pc[u] \in Blocks /\ own'[u] = own[u]
    BY <1>14 DEF Alone, CallMove, Enters
  <2>2. own[u] \in Wakers /\ state[own[u]] <= WAITING
    BY <1>14, <2>1, WaiterOwns DEF StateMoves
  <2>3. CASE \E f \in Threads : Wakes(f, own[u])
    BY <1>12, <1>14, <2>1, <2>3
  <2>4. CASE \E f \in Threads : f # a /\ Comes(f, u)
    BY <2>4 DEF Alone, Fires, Comes
  <2>5. CASE Comes(a, u)
    <3>1. CASE Listed(own[u])
      BY <1>14, <2>1, <2>5, <3>1 DEF Serves
    <3>2. CASE ~Listed(own[u])
      BY <1>13, <1>14, <2>1, <3>2
    <3> QED BY <3>1, <3>2
  <2>6. CASE ~CanGo(u)
    BY <2>6 DEF Gates
  <2> QED BY <2>1, <2>2, <2>3, <2>4, <2>5, <2>6 DEF RoomInv
<1>16. ShutInv'
  <2> SUFFICES ASSUME NEW u \in Threads, pc'[u] = "park",
                      state'[own'[u]] <= WAITING, count'[Other(Side(u))] = 0
               PROVE  \E f \in Threads : \/ pc'[f] \in Waking /\ held'[f] = own'[u]
                                         \/ Closing(f, u)'
    BY ZenonT(60) DEF ShutInv, Wakes
  <2>1. pc[u] = "park" /\ own'[u] = own[u]
    BY <1>14 DEF Alone, CallMove, Enters
  <2>2. own[u] \in Wakers /\ state[own[u]] <= WAITING
    BY <1>14, <2>1, WaiterOwns DEF StateMoves
  <2>3. CASE \E f \in Threads : Wakes(f, own[u])
    BY <1>12, <1>14, <2>1, <2>3
  <2>4. CASE \E f \in Threads : f # a /\ Closing(f, u)
    BY <2>4 DEF Alone, Closing
  <2>5. CASE Closing(a, u)
    <3>1. ~Listed(own[u])
      BY <1>14, <2>1, <2>5 DEF Serves
    <3> QED BY <1>13, <1>14, <2>1, <3>1
  <2>6. CASE count[Other(Side(u))] # 0
    BY <2>6, SideType DEF Gates, Closing
  <2> QED BY <2>1, <2>2, <2>3, <2>4, <2>5, <2>6 DEF ShutInv
<1> QED
  BY <1>6, <1>7, <1>8, <1>9, <1>10, <1>11, <1>15, <1>16

-----------------------------------------------------------------------------
(* The steps of fire() *)

LEMMA FireMoves ==
  ASSUME TypeInv, WakerInv, NEW a \in Threads, pc[a] \in InFire, FireMove(a)
  PROVE  Present(a) /\ Gates(a) /\ Enters(a) /\ Drops(a)
<1>1. ret[a] \in {"ok", "cancel", "timeout"} /\ ret'[a] = ret[a]
  BY DEF TypeInv, CallType, WakerInv, CallInv, FireMove
<1>2. pc'[a] = ret[a] \/ pc'[a] \in InFire
  BY DEF FireMove, TypeInv, CallType
<1>3. pc'[a] \notin Blocks /\ (pc'[a] \in Exits => ret[a] # "cancel")
  BY <1>1, <1>2 DEF Blocks, InFire, Exits
<1>4. pc'[a] # "closed?" /\ pc'[a] # "park"
  BY <1>3 DEF Blocks
<1>5. pc[a] # "gone" /\ pc[a] # "clear_all"
  BY DEF InFire
<1>6. Present(a)
  BY <1>5 DEF Present, FireMove
<1>7. Gates(a)
  BY DEF Gates, FireMove, CanGo
<1>8. Drops(a)
  BY <1>1, <1>3, <1>5 DEF Drops, Leaving, FireMove
<1> QED
  BY <1>3, <1>4, <1>6, <1>7, <1>8 DEF Enters

LEMMA WakeIsMove ==
  ASSUME TypeInv, WakerInv, NEW a \in Threads,
         WakeLoad(a) \/ WakeStore(a) \/ WakeCas(a) \/ WakeUnpark(a)
  PROVE  Moves(a)
<1>1. pc[a] \in InFire /\ FireMove(a)
  BY WakeMoves
<1>2. Fires(a)
  <2>1. NotDone(a) \/ EndFire(a) \/ \E l \in InFire : Goto(a, l) /\ UNCHANGED firing
    BY DEF WakeLoad, WakeStore, WakeCas, WakeUnpark, InFire
  <2>2. held'[a] # Nil => pc'[a] \in InFire /\ held'[a] = held[a]
    <3>1. CASE NotDone(a) \/ EndFire(a)
      BY <3>1 DEF NotDone, EndFire, TypeInv, FireType
    <3>2. CASE \E l \in InFire : Goto(a, l) /\ UNCHANGED firing
      BY <3>2 DEF Goto, firing, TypeInv, CallType
    <3> QED BY <2>1, <3>1, <3>2
  <2> QED BY <1>1, <2>2 DEF Fires, FireMove
<1>3. Closes(a)
  <2>1. state' = state \/ state' = [state EXCEPT ![held[a]] = WOKEN]
    BY DEF WakeLoad, WakeStore, WakeCas, WakeUnpark, SetWoken
  <2>2. CLOSED # WOKEN
    BY DEF CLOSED, WOKEN
  <2>3. \A w \in Wakers : state'[w] = state[w] \/ state'[w] = WOKEN
    BY <2>1 DEF TypeInv, WaitType
  <2> QED BY <2>2, <2>3 DEF Closes
<1>4. Serves(a)
  <2>1. pc[a] # "f_first" /\ pc[a] # "close"
    BY DEF WakeLoad, WakeStore, WakeCas, WakeUnpark
  <2> QED BY <2>1 DEF Serves, Comes, Closing
<1> QED
  BY <1>1, <1>2, <1>3, <1>4, FireMoves DEF Moves

(* A fire() at the registry of a lone thread that is listed pops its waker.*)
LEMMA PopServes ==
  ASSUME TypeInv, WakerInv, WakeupInv, NEW a \in Threads, PopFirst(a),
         NEW u \in Threads, pc[u] \in Waits, Listed(own[u]), Lone(u), target[a] = Side(u)
  PROVE  pc'[a] \in Waking /\ held'[a] = own[u]
<1> DEFINE side == Side(u)
           q == reg[side]
           i == FirstAlive(q)
<1>1. /\ side \in Sides /\ q \in Seq(WakersOf(side))
      /\ own[u] \in Range(q) /\ Alive(own[u])
  BY SideType, RegIs, WaiterOwns DEF Listed
<1>2. PICK j \in 1..Len(q) : q[j] = own[u]
  BY <1>1 DEF Range
<1>3. /\ i \in 1..(Len(q) + 1)
      /\ \A k \in 1..Len(q) : k < i => ~Alive(q[k])
      /\ i <= Len(q) => Alive(q[i])
  BY <1>1, FirstAliveIs, ZenonT(60)
<1>4. i \in 1..Len(q) /\ i <= Len(q) /\ ~(i > Len(q))
  <2>1. ~(j < i)
    BY <1>1, <1>2, <1>3
  <2>2. Len(q) \in Nat
    BY <1>1
  <2> HIDE DEF i, q
  <2> QED BY <1>2, <1>3, <2>1, <2>2
<1>5. q[i] \in Range(q) /\ Alive(q[i])
  BY <1>1, <1>3, <1>4 DEF Range
<1>6. own[u] = q[i]
  <2> HIDE DEF i
  <2> QED BY <1>5, LoneListed
<1>7. hasWaker[side]
  <2>1. q # <<>>
    BY <1>1, <1>2
  <2> QED BY <1>1, <2>1 DEF WakerInv, OrderInv
<1>8. Pop(a)
  BY <1>4, <1>7, ZenonT(60) DEF PopFirst
<1>9. held'[a] = q[i] /\ pc'[a] = "f_load"
  BY <1>8 DEF Pop, Goto, TypeInv, CallType, FireType
<1> QED
  BY <1>6, <1>9 DEF Waking

LEMMA PopIsMove ==
  ASSUME TypeInv, WakerInv, WakeupInv, NEW a \in Threads, PopFirst(a) \/ PopAgain(a)
  PROVE  Moves(a)
<1>1. pc[a] \in InFire /\ "f_load" \in InFire /\ "f_load" \in Waking
  BY DEF PopFirst, PopAgain, InFire, Waking
<1>2. EndFire(a) \/ (Pop(a) /\ UNCHANGED target)
  BY DEF PopFirst, PopAgain, PopNone
<1>3. UNCHANGED <<queue, count, regSeq, state, seq, op, nops, own, seen, ret, history>>
  BY DEF PopFirst, PopAgain
<1>4. FireMove(a) /\ Fires(a)
  <2>1. CASE EndFire(a)
    BY <1>3, <2>1 DEF EndFire, Goto, FireMove, Fires, TypeInv, CallType, FireType
  <2>2. CASE Pop(a) /\ UNCHANGED target
    <3>1. pc' = [pc EXCEPT ![a] = "f_load"] /\ pc'[a] = "f_load"
      BY <2>2 DEF Pop, Goto, TypeInv, CallType
    <3> QED BY <1>1, <1>3, <2>2, <3>1 DEF FireMove, Fires
  <2> QED BY <1>2, <2>1, <2>2
<1>5. Closes(a)
  BY <1>3 DEF Closes
<1>6. Serves(a)
  <2>1. pc[a] # "close"
    BY <1>1 DEF InFire
  <2>2. pc[a] = "f_first" => PopFirst(a)
    BY DEF PopAgain
  <2> QED BY <2>1, <2>2, PopServes DEF Serves, Comes, Closing
<1> QED
  BY <1>1, <1>4, <1>5, <1>6, FireMoves DEF Moves

-----------------------------------------------------------------------------
(* The steps that clear, commit, give up and close *)

(* _clear_wakers stops at its own waker when no other entry upgrades, and  *)
(* takes it out.                                                           *)
LEMMA ClearedDrops ==
  ASSUME WaitType, NEW S \in SUBSET Wakers, NEW q \in Seq(S), Sorted(q),
         NEW old \in Wakers, Alive(old), NEW oneshot \in BOOLEAN,
         \A w \in Range(q) : Alive(w) => w = old
  PROVE  old \notin Range(Cleared(q, old, oneshot))
<1> DEFINE T == {i \in 1..Len(q) : ~ScanPast(q[i], old, oneshot)}
                \cup {Len(q) + 1}
           stop == Min(T)
<1>1. T \in SUBSET Nat /\ T # {} /\ T \subseteq 1..(Len(q) + 1)
  OBVIOUS
<1>2. stop \in T /\ \A j \in T : stop =< j
  BY <1>1, MinIsLeast, ZenonT(60)
<1>3. stop \in 1..(Len(q) + 1) /\ Len(q) \in Nat /\ DOMAIN q = 1..Len(q)
  BY <1>1, <1>2
<1>4. CASE stop > Len(q)
  <2>1. Cleared(q, old, oneshot) = <<>>
    BY <1>4 DEF Cleared
  <2>2. Range(<<>>) = {}
    BY DEF Range
  <2> QED BY <2>1, <2>2
<1>5. CASE stop <= Len(q)
  <2>1. stop \in 1..Len(q) /\ stop # Len(q) + 1
    BY <1>3, <1>5
  <2>2. ~ScanPast(q[stop], old, oneshot)
    <3> HIDE DEF stop
    <3> QED BY <1>2, <2>1
  <2>3. Alive(q[stop])
    BY <2>2, ZenonT(60) DEF ScanPast
  <2>4. q[stop] = old
    <3>1. q[stop] \in Range(q)
      BY <1>3, <2>1 DEF Range
    <3> QED BY <2>3, <3>1
  <2>5. Cleared(q, old, oneshot) = Rest(q, stop)
    <3>1. ScanDrops(q[stop], old, oneshot)
      BY <2>4, ZenonT(60) DEF ScanDrops
    <3>2. ~(stop > Len(q))
      BY <1>3, <1>5
    <3> QED BY <3>1, <3>2, ZenonT(60) DEF Cleared
  <2>6. stop \in 0..Len(q) /\ stop > 0
    BY <2>1
  <2>7. q[stop] \notin Range(Rest(q, stop))
    <3> HIDE DEF stop
    <3> QED BY <2>6, RestSorted
  <2> QED BY <2>4, <2>5, <2>7
<1> QED
  BY <1>3, <1>4, <1>5

LEMMA ClearIsMove ==
  ASSUME TypeInv, WakerInv, WakeupInv, NEW a \in Threads, Clear(a)
  PROVE  Moves(a)
<1>1. /\ pc[a] \in {"clear_one", "clear_all"} /\ pc[a] \in Holding /\ own[a] \in Wakers
      /\ own[a][1] = a /\ Alive(own[a])
  BY OwnAlive DEF Clear, TypeInv, ControlInv, OwnInv, NeedsOwn, Holding
<1>2. pc[a] \notin InFire /\ pc[a] # "gone" /\ pc[a] # "f_first" /\ pc[a] # "close"
  BY <1>1 DEF InFire
<1>3. UNCHANGED <<queue, count, state, nops, target, held>>
  BY DEF Clear, firing
<1>4. /\ pc'[a] = ret[a] /\ ret[a] \in {"ok", "cancel", "timeout", "s_try"}
      /\ pc'[a] \notin Blocks /\ pc'[a] \notin InFire
  BY DEF Clear, Goto, TypeInv, CallType, Blocks, InFire
<1>5. Present(a) /\ Gates(a)
  BY <1>2, <1>3 DEF Present, Gates, CanGo
<1>6. Fires(a) /\ Closes(a) /\ Serves(a)
  BY <1>2, <1>3 DEF Fires, Closes, Serves, Comes, Closing, WakeupInv, HeldInv
<1>7. Enters(a)
  BY <1>4 DEF Enters, Blocks
<1>8. ASSUME Lone(a) PROVE own[a] \notin Range(reg'[Side(a)])
  <2> DEFINE side == Side(a)
             q == reg[side]
  <2>1. side \in Sides
    BY SideType
  <2>2. /\ q \in Seq(WakersOf(side)) /\ WakersOf(side) \in SUBSET Wakers
        /\ Sorted(q) /\ WaitType
    BY <2>1, RegIs
  <2>3. \A w \in Range(q) : Alive(w) => w = own[a]
    BY <1>8, LoneListed
  <2>4. PICK oneshot \in BOOLEAN : oneshot = (pc[a] = "clear_one")
    BY ZenonT(60)
  <2>5. PICK old \in Wakers : old = own[a]
    BY <1>1
  <2>6. old \notin Range(Cleared(q, old, oneshot))
    <3> HIDE DEF q
    <3> QED BY <1>1, <2>2, <2>3, <2>5, ClearedDrops
  <2>7. CASE hasWaker[side]
    <3>1. reg' = [reg EXCEPT ![side] = Cleared(q, own[a], pc[a] = "clear_one")]
      BY <2>7, ZenonT(60) DEF Clear, ClearWakers
    <3>2. reg'[side] = Cleared(q, old, oneshot)
      BY <2>1, <2>4, <2>5, <3>1 DEF TypeInv, WaitType
    <3> QED BY <2>5, <2>6, <3>2
  <2>8. CASE ~hasWaker[side]
    <3>1. UNCHANGED reg
      BY <2>8, ZenonT(60) DEF Clear, ClearWakers
    <3>2. q = <<>>
      BY <2>1, <2>8 DEF WakerInv, OrderInv
    <3> QED BY <3>1, <3>2 DEF Range
  <2> QED BY <2>7, <2>8
<1>9. Drops(a)
  BY <1>8 DEF Drops
<1> QED
  BY <1>5, <1>6, <1>7, <1>9 DEF Moves

LEMMA CommitIsMove ==
  ASSUME TypeInv, WakerInv, WakeupInv, NEW a \in Threads, CommitWaiting(a)
  PROVE  Moves(a)
<1>1. /\ pc[a] = "commit" /\ pc[a] \in Waits /\ pc[a] \in Blocks /\ pc[a] \notin InFire
      /\ UNCHANGED <<queue, count, reg, nops, own, target, held>>
  BY DEF CommitWaiting, firing, Waits, Blocks, InFire
<1>2. own[a] \in Wakers /\ pc'[a] = "closed?"
  BY <1>1, WaiterOwns DEF CommitWaiting, Goto, TypeInv, CallType
<1>3. /\ state'[own[a]] = state[own[a]] \/ state'[own[a]] = WAITING
      /\ \A w \in Wakers : w # own[a] => state'[w] = state[w]
      /\ seen'[a] = state'[own[a]]
  BY <1>2 DEF CommitWaiting, TypeInv, WaitType, CallType
<1>4. Present(a) /\ Gates(a)
  BY <1>1 DEF Present, Gates, CanGo
<1>5. Fires(a) /\ Serves(a)
  BY <1>1 DEF Fires, Serves, Comes, Closing, WakeupInv, HeldInv
<1>6. Closes(a)
  <2>1. WAITING # CLOSED
    BY DEF WAITING, CLOSED
  <2> QED BY <1>3, <2>1 DEF Closes
<1>7. Enters(a)
  BY <1>1, <1>2, <1>3 DEF Enters
<1>8. Drops(a)
  <2>1. ~Leaving(a)'
    BY <1>2 DEF Leaving, Exits, InFire
  <2> QED BY <1>1, <2>1 DEF Drops
<1> QED
  BY <1>4, <1>5, <1>6, <1>7, <1>8 DEF Moves

LEMMA CloseIsMove ==
  ASSUME TypeInv, WakerInv, WakeupInv, NEW a \in Threads, Close(a)
  PROVE  Moves(a)
<1> DEFINE side == Other(Side(a))
           closing == {w \in Range(reg[side]) : Alive(w) /\ state[w] <= WAITING}
<1>1. /\ pc[a] = "close" /\ pc[a] \notin InFire /\ side \in Sides /\ own[a] = Nil
      /\ UNCHANGED <<queue, count, nops, own, target, held>>
  BY SideType DEF Close, firing, InFire, WakerInv, CallInv
<1>2. pc'[a] = "gone" /\ "gone" \notin Blocks
  BY DEF Close, Goto, TypeInv, CallType, Blocks
<1>3. \A w \in Wakers : state'[w] = (IF w \in closing THEN CLOSED ELSE state[w])
  BY ZenonT(60) DEF Close
<1>4. reg'[side] = <<>>
  BY <1>1 DEF Close, TypeInv, WaitType
<1>5. Present(a) /\ Gates(a)
  BY <1>1 DEF Present, Gates, CanGo
<1>6. Fires(a)
  BY <1>1 DEF Fires, WakeupInv, HeldInv
<1>7. Enters(a)
  BY <1>2 DEF Enters, Blocks
<1>8. Drops(a)
  BY <1>1, ChannelAssumption DEF Drops, Wakers, Threads
<1>9. Closes(a)
  <2> SUFFICES ASSUME NEW w \in Wakers, w \in closing
               PROVE  w \notin Range(reg'[Side(w[1])])
    BY <1>3 DEF Closes
  <2>1. Side(w[1]) = side
    BY <1>1, RegIs DEF WakersOf
  <2> QED BY <1>4, <2>1 DEF Range
<1>10. Serves(a)
  <2> SUFFICES ASSUME NEW u \in Threads, pc[u] \in Waits, Listed(own[u]), Closing(a, u)
               PROVE  ~(state'[own[u]] <= WAITING)
    BY <1>1 DEF Serves, Comes
  <2>1. Side(u) = side
    BY DEF Closing, Side, Other
  <2>2. own[u] \in Wakers /\ Alive(own[u]) /\ own[u] \in Range(reg[side])
    BY <2>1, WaiterOwns DEF Listed
  <2>3. ~(CLOSED <= WAITING)
    BY DEF CLOSED, WAITING
  <2> QED BY <1>3, <2>2, <2>3
<1> QED
  BY <1>5, <1>6, <1>7, <1>8, <1>9, <1>10 DEF Moves

-----------------------------------------------------------------------------
(* The steps that leave the registries and the states of the wakers alone  *)

(* A waker that its call finds woken, or closed, is registered no more.    *)
LEMMA WokenUnlisted ==
  ASSUME TypeInv, WakerInv, WakeupInv, NEW t \in Threads, Lone(t), own[t] \in Wakers,
         state[own[t]] >= WOKEN, pc[t] # "clear_all"
  PROVE  own[t] \notin Range(reg[Side(t)])
<1>1. own[t][1] = t /\ state[own[t]] \in WakerStates
  BY ZenonT(60), OwnAlive DEF TypeInv, WaitType
<1>2. state[own[t]] = WOKEN \/ state[own[t]] = CLOSED
  BY <1>1 DEF WakerStates, INIT, WAITING, WOKEN, CLOSED
<1>3. ~Listed(own[t])
  BY <1>2 DEF WakerInv, WokenInv, WakeupInv, ClosedInv
<1> QED
  BY <1>1, <1>3 DEF Listed

(* What thread a must show of itself when it starts to leave.              *)
MayLeave(a) ==
  \/ pc[a] \in Exits \/ own[a] \notin Wakers
  \/ state[own[a]] >= WOKEN \/ count[Other(Side(a))] = 0

(* A thread that goes from one point of its call to another.               *)
LEMMA LocalMoves ==
  ASSUME TypeInv, WakerInv, WakeupInv, NEW a \in Threads, NEW k,
         pc' = [pc EXCEPT ![a] = k], pc[a] \notin InFire, k \notin InFire,
         pc[a] # "close", pc[a] # "clear_all", k # "closed?",
         Present(a), Gates(a), UNCHANGED <<reg, state, held, target>>,
         own'[a] # own[a] => pc[a] \in Exits,
         k \in Blocks => pc[a] \in Blocks \/ ~CanGo(a)',
         k = "park" => pc[a] = "park" \/ count'[Other(Side(a))] # 0,
         k \in Exits => MayLeave(a)
  PROVE  Moves(a)
<1>1. pc'[a] = k
  BY DEF TypeInv, CallType
<1>2. Fires(a) /\ Closes(a)
  BY DEF Fires, Closes, WakeupInv, HeldInv
<1>3. pc[a] # "f_first"
  BY DEF InFire
<1>4. Serves(a)
  BY <1>3 DEF Serves, Comes, Closing
<1>5. Enters(a)
  BY <1>1 DEF Enters
<1>6. Drops(a)
  <2> SUFFICES ASSUME Lone(a), own[a] \in Wakers, own[a] \in Range(reg[Side(a)])
               PROVE  /\ own'[a] # own[a] => Leaving(a)
                      /\ Leaving(a)' => Leaving(a) \/ count[Other(Side(a))] = 0
    BY DEF Drops
  <2>1. Leaving(a)' => k \in Exits
    BY <1>1 DEF Leaving
  <2>2. ~(state[own[a]] >= WOKEN)
    BY WokenUnlisted
  <2> QED BY <2>1, <2>2 DEF MayLeave, Leaving
<1> QED
  BY <1>2, <1>4, <1>5, <1>6 DEF Moves

(* A thread that starts a fire().                                          *)
LEMMA StartMoves ==
  ASSUME TypeInv, WakerInv, WakeupInv, NEW a \in Threads, NEW side,
         NEW then \in {"ok", "cancel", "timeout"}, StartFire(a, side, then),
         pc[a] \notin InFire, pc[a] # "close", pc[a] # "clear_all",
         Present(a), Gates(a), UNCHANGED <<reg, state, own>>,
         then = "cancel" \/ MayLeave(a)
  PROVE  Moves(a)
<1>1. /\ pc'[a] = "f_first" /\ ret'[a] = then /\ held'[a] = Nil
      /\ \A u \in Threads : u # a => target'[u] = target[u]
  BY DEF StartFire, Goto, TypeInv, CallType, FireType
<1>2. Fires(a) /\ Closes(a)
  BY <1>1 DEF Fires, Closes
<1>3. pc[a] # "f_first"
  BY DEF InFire
<1>4. Serves(a)
  BY <1>3 DEF Serves, Comes, Closing
<1>5. Enters(a)
  BY <1>1 DEF Enters, Blocks
<1>6. Drops(a)
  <2> SUFFICES ASSUME Lone(a), own[a] \in Wakers, own[a] \in Range(reg[Side(a)])
               PROVE  Leaving(a)' => Leaving(a) \/ count[Other(Side(a))] = 0
    BY DEF Drops
  <2>1. Leaving(a)' => then # "cancel"
    BY <1>1 DEF Leaving, Exits
  <2>2. ~(state[own[a]] >= WOKEN)
    BY WokenUnlisted
  <2> QED BY <2>1, <2>2 DEF MayLeave, Leaving
<1> QED
  BY <1>2, <1>4, <1>5, <1>6 DEF Moves

(* A step of a thread with a handle, that leaves the queue and the counts. *)
LEMMA PlainStep ==
  ASSUME NEW a \in Threads, pc[a] # "gone", UNCHANGED <<queue, count>>,
         \/ UNCHANGED nops
         \/ TypeInv /\ nops[a] < MaxOps[a] /\ nops' = [nops EXCEPT ![a] = @ + 1]
  PROVE  Present(a) /\ Gates(a)
<1>1. Gates(a)
  BY DEF Gates, CanGo
<1>2. Present(a)
  BY DEF Present, TypeInv, CallType
<1> QED
  BY <1>1, <1>2

LEMMA TimeoutIsMove ==
  ASSUME TypeInv, WakerInv, WakeupInv, NEW a \in Threads, Timeout(a)
  PROVE  Moves(a)
<1>1. /\ pc[a] = "park" /\ pc[a] \in Waits /\ pc[a] \notin InFire
      /\ UNCHANGED <<queue, count, reg, nops, own>>
  BY DEF Timeout, Abandon, Waits, InFire
<1>2. own[a] \in Wakers /\ state[own[a]] \in WakerStates
  BY <1>1, WaiterOwns
<1>3. Present(a) /\ Gates(a)
  BY <1>1, PlainStep
<1>4. CASE state[own[a]] = WOKEN /\ StartFire(a, Side(a), "timeout") /\ UNCHANGED state
  <2>1. MayLeave(a)
    BY <1>2, <1>4, StateSplit DEF MayLeave
  <2> QED BY <1>1, <1>3, <1>4, <2>1, StartMoves
<1>5. CASE state[own[a]] = CLOSED /\ Goto(a, "timeout") /\ UNCHANGED <<state, firing>>
  <2>1. MayLeave(a)
    BY <1>2, <1>5, StateSplit DEF MayLeave
  <2>2. "timeout" \notin InFire /\ "timeout" \notin Blocks
    BY DEF InFire, Blocks
  <2> QED BY <1>1, <1>3, <1>5, <2>1, <2>2, LocalMoves, ZenonT(60) DEF Goto, firing
<1>6. CASE /\ state' = [state EXCEPT ![own[a]] = CLOSED]
           /\ Goto(a, "clear_all") /\ UNCHANGED firing
  <2>1. pc'[a] = "clear_all" /\ held' = held /\ target' = target
    BY <1>6 DEF Goto, firing, TypeInv, CallType
  <2>2. \A w \in Wakers : w # own[a] => state'[w] = state[w]
    BY <1>6 DEF TypeInv, WaitType
  <2>3. Fires(a) /\ Closes(a)
    BY <1>1, <2>1, <2>2 DEF Fires, Closes, WakeupInv, HeldInv
  <2>4. Serves(a)
    BY <1>1 DEF Serves, Comes, Closing
  <2>5. Enters(a)
    BY <2>1 DEF Enters, Blocks
  <2>6. Drops(a)
    <3>1. ~Leaving(a)'
      BY <2>1 DEF Leaving, Exits, InFire
    <3> QED BY <1>1, <3>1 DEF Drops
  <2> QED BY <1>3, <2>3, <2>4, <2>5, <2>6 DEF Moves
<1> QED
  BY <1>4, <1>5, <1>6, ZenonT(60) DEF Timeout, Abandon

(* A thread that returns.                                                  *)
LEMMA ReturnMoves ==
  ASSUME TypeInv, WakerInv, WakeupInv, NEW a \in Threads, Return(a), pc[a] \in Exits,
         UNCHANGED <<queue, count, waits, nops, firing>>
  PROVE  Moves(a)
<1>1. /\ pc[a] \notin InFire /\ pc[a] # "close" /\ pc[a] # "clear_all" /\ pc[a] # "gone"
      /\ "idle" \notin InFire /\ "idle" \notin Blocks /\ "idle" \notin Exits
  BY DEF Exits, InFire, Blocks
<1>2. Present(a) /\ Gates(a)
  BY <1>1, PlainStep
<1>3. pc' = [pc EXCEPT ![a] = "idle"] /\ UNCHANGED <<reg, state, held, target>>
  BY DEF Return, Goto, waits, firing
<1> QED
  BY <1>1, <1>2, <1>3, LocalMoves

(* Where a call goes on a waker state that it has read.                    *)
LEMMA OnStateLeads ==
  ASSUME NEW t, NEW s \in WakerStates, OnState(t, s)
  PROVE  \E k \in {"park", "s_try", "r_try", "s_closed", "r_last"} :
           pc' = [pc EXCEPT ![t] = k] /\ (k # "park" => s >= WOKEN)
<1>1. s < WOKEN \/ s >= WOKEN
  BY DEF WakerStates, INIT, WAITING, WOKEN, CLOSED
<1>2. CASE s < WOKEN
  BY <1>2, ZenonT(60) DEF OnState, Goto
<1>3. CASE s >= WOKEN
  BY <1>3, ZenonT(60) DEF OnState, Goto
<1> QED
  BY <1>1, <1>2, <1>3

(* A call looks at its waker.                                              *)
LEMMA LookMoves ==
  ASSUME TypeInv, WakerInv, WakeupInv, NEW a \in Threads,
         CancelWaker(a) \/ ClosedCheck(a) \/ Park(a)
  PROVE  Moves(a)
<1>1. /\ pc[a] \in {"cancel", "closed?", "park"} /\ pc[a] \notin InFire
      /\ own[a] \in Wakers
      /\ UNCHANGED <<queue, count, reg, state, nops, own, held, target>>
  BY DEF CancelWaker, ClosedCheck, Park, Local, Continues, waits, firing, InFire,
     TypeInv, ControlInv, OwnInv, NeedsOwn, Holding
<1>2. state[own[a]] \in WakerStates /\ seen[a] \in WakerStates
  BY <1>1, ZenonT(60) DEF TypeInv, WaitType, CallType
<1>3. Present(a) /\ Gates(a)
  BY <1>1, PlainStep
<1>4. PICK k \in {"ok", "clear_one", "park", "s_try", "r_try", "s_closed", "r_last"} :
        /\ pc' = [pc EXCEPT ![a] = k]
        /\ k = "park" => pc[a] = "park" \/ (pc[a] = "closed?" /\ count[Other(Side(a))] # 0)
        /\ k \in Exits => state[own[a]] >= WOKEN \/ count[Other(Side(a))] = 0
  <2>1. CASE CancelWaker(a)
    BY <2>1 DEF CancelWaker, Goto, Exits
  <2>2. CASE Park(a)
    <3>1. OnState(a, state[own[a]]) /\ pc[a] = "park" /\ "park" \notin Exits
      BY <2>2 DEF Park, Exits
    <3> QED BY <1>2, <3>1, OnStateLeads
  <2>3. CASE ClosedCheck(a) /\ count[Other(Side(a))] = 0
    BY <2>3, ZenonT(60) DEF ClosedCheck, Goto
  <2>4. CASE ClosedCheck(a) /\ count[Other(Side(a))] # 0
    <3>1. OnState(a, seen[a]) /\ pc[a] = "closed?" /\ "park" \notin Exits
      BY <2>4 DEF ClosedCheck, Exits
    <3>2. seen[a] >= WOKEN => state[own[a]] >= WOKEN
      BY <3>1 DEF WakeupInv, SeenInv
    <3> QED BY <1>2, <2>4, <3>1, <3>2, OnStateLeads
  <2> QED BY <2>1, <2>2, <2>3, <2>4
<1>5. /\ k \notin InFire /\ k # "closed?" /\ (k \in Blocks => k = "park")
      /\ "park" \in Blocks /\ "closed?" \in Blocks
  BY <1>4 DEF InFire, Blocks
<1>6. k \in Exits => MayLeave(a)
  BY <1>4 DEF MayLeave
<1>7. /\ pc[a] # "close" /\ pc[a] # "clear_all" /\ own'[a] = own[a]
      /\ k \in Blocks => pc[a] \in Blocks
      /\ k = "park" => pc[a] = "park" \/ count'[Other(Side(a))] # 0
  BY <1>1, <1>4, <1>5
<1> QED
  BY <1>1, <1>3, <1>4, <1>5, <1>6, <1>7, LocalMoves, ZenonT(60)

(* The handles.                                                            *)
LEMMA HandleMoves ==
  ASSUME TypeInv, WakerInv, WakeupInv, NEW a \in Threads, Drop(a) \/ AddHandle(a)
  PROVE  Moves(a)
<1>1. /\ pc[a] \in {"idle", "gone"} /\ (pc[a] = "gone" => nops[a] < MaxOps[a])
      /\ UNCHANGED <<queue, reg, state, nops, own, held, target>>
  BY DEF Drop, AddHandle, waits, firing
<1>2. PICK k \in {"idle", "close", "gone"} : pc' = [pc EXCEPT ![a] = k]
  BY ZenonT(60) DEF Drop, AddHandle, Goto
<1>3. /\ k \notin InFire /\ k \notin Blocks /\ k \notin Exits /\ pc[a] \notin InFire
      /\ k # "closed?" /\ k # "park"
  BY <1>1, <1>2 DEF InFire, Blocks, Exits
<1>4. Present(a)
  BY <1>1 DEF Present
<1>5. Gates(a)
  <2>1. \A d \in Sides : count[d] = 0 => count'[d] = 0
    BY ZeroStays
  <2>2. ASSUME NEW d \in Sides, count'[d] = 0, count[d] # 0
        PROVE  pc'[a] = "close" /\ Side(a) = d
    <3>1. count[d] \in Nat /\ Side(a) \in Sides
      BY SideType DEF TypeInv, CountType
    <3>2. Side(a) = d
      BY <2>2, <3>1 DEF Drop, AddHandle, TypeInv, CountType
    <3>3. Drop(a) /\ count[d] <= 1
      BY <2>2, <3>1, <3>2 DEF Drop, AddHandle, TypeInv, CountType
    <3> QED BY <3>2, <3>3 DEF Drop, Goto, TypeInv, CallType
  <2>3. \A u \in Threads : CanGo(u)' => CanGo(u)
    BY <1>1 DEF CanGo
  <2> QED BY <2>1, <2>2, <2>3 DEF Gates
<1> QED
  BY <1>1, <1>2, <1>3, <1>4, <1>5, LocalMoves

(* A pop of the queue makes room, and goes on to tell a sender.            *)
LEMMA TakeMoves ==
  ASSUME TypeInv, WakerInv, WakeupInv, NEW a \in Receivers,
         NEW then \in {"ok", "cancel"}, Take(a, then),
         pc[a] \in {"r_try", "r_final", "r_last", "t_pop"},
         then = "cancel" \/ MayLeave(a)
  PROVE  Moves(a)
<1>1. /\ a \in Threads /\ pc[a] \notin InFire /\ pc[a] # "close" /\ pc[a] # "clear_all"
      /\ pc[a] # "gone" /\ then \in {"ok", "cancel", "timeout"}
  BY SideType DEF InFire
<1>2. /\ StartFire(a, "tx", then) /\ UNCHANGED <<count, reg, state, nops, own>>
      /\ queue # <<>>
  BY DEF Take, waits
<1>3. pc'[a] = "f_first" /\ target'[a] = "tx"
  BY <1>1, <1>2 DEF StartFire, Goto, TypeInv, CallType, FireType
<1>4. \A u \in Threads : CanGo(u)' => CanGo(u) \/ Comes(a, u)'
  BY <1>2, <1>3 DEF CanGo, Comes, Side, Threads
<1>5. Present(a) /\ Gates(a)
  BY <1>1, <1>2, <1>4 DEF Present, Gates
<1> QED
  BY <1>1, <1>2, <1>5, StartMoves

(* A push goes on to tell a receiver.                                      *)
LEMMA PushMoves ==
  ASSUME TypeInv, WakerInv, WakeupInv, NEW a \in Senders,
         NEW then \in {"ok", "cancel"}, Push(a, then),
         pc[a] \in {"s_first", "s_try", "s_check"},
         then = "cancel" \/ MayLeave(a)
  PROVE  Moves(a)
<1>1. /\ a \in Threads /\ pc[a] \notin InFire /\ pc[a] # "close" /\ pc[a] # "clear_all"
      /\ pc[a] # "gone" /\ then \in {"ok", "cancel", "timeout"}
  BY SideType DEF InFire
<1>2. /\ StartFire(a, "rx", then) /\ UNCHANGED <<count, reg, state, nops, own>>
      /\ Len(queue) < Cap
  BY DEF Push, waits
<1>3. pc'[a] = "f_first" /\ target'[a] = "rx"
  BY <1>1, <1>2 DEF StartFire, Goto, TypeInv, CallType, FireType
<1>4. \A u \in Threads : CanGo(u)' => CanGo(u) \/ Comes(a, u)'
  BY <1>2, <1>3, SideType DEF CanGo, Comes
<1>5. Present(a) /\ Gates(a)
  BY <1>1, <1>2, <1>4 DEF Present, Gates
<1> QED
  BY <1>1, <1>2, <1>5, StartMoves

(* The steps of a receiver.                                                *)
LEMMA RecvMoves ==
  ASSUME TypeInv, WakerInv, WakeupInv, NEW r \in Receivers,
         \/ RecvStart(r) \/ RecvTry(r) \/ RecvFinal(r) \/ RecvLast(r)
         \/ TryRecvClosed(r) \/ TryRecvPop(r)
  PROVE  Moves(r)
<1>1. r \in Threads /\ Nil \notin Wakers
  BY SideType, ChannelAssumption DEF Wakers, Threads
<1>2. pc[r] \in {"idle", "r_try"} \cup Exits => MayLeave(r)
  <2>1. pc[r] = "idle" => own[r] = Nil
    BY <1>1 DEF WakerInv, CallInv
  <2>2. pc[r] = "r_try" /\ own[r] \in Wakers => state[own[r]] = WOKEN
    BY <1>1 DEF WakerInv, ReuseInv, Reusing
  <2>3. WOKEN >= WOKEN
    BY DEF WOKEN
  <2> QED BY <1>1, <2>1, <2>2, <2>3 DEF MayLeave
<1>3. CASE Take(r, "ok") \/ Take(r, "cancel")
  <2>1. \/ Take(r, "ok") /\ pc[r] \in {"r_try", "r_last", "t_pop"}
        \/ Take(r, "cancel") /\ pc[r] = "r_final"
    <3>1. ~(Take(r, "ok") \/ Take(r, "cancel")) \/ pc'[r] = "f_first"
      BY <1>1 DEF Take, StartFire, Goto, TypeInv, CallType
    <3>2. RecvStart(r) \/ TryRecvClosed(r) => pc'[r] # "f_first"
      BY <1>1 DEF RecvStart, TryRecvClosed, Goto, TypeInv, CallType
    <3>3. ~(queue = <<>>)
      BY <1>3 DEF Take
    <3> QED BY <1>3, <3>1, <3>2, <3>3 DEF RecvTry, RecvFinal, RecvLast, TryRecvPop
  <2>2. {"r_last", "t_pop"} \subseteq Exits
    BY DEF Exits
  <2> QED BY <1>2, <2>1, <2>2, TakeMoves
<1>4. CASE Return(r) /\ ~Take(r, "ok") /\ ~Take(r, "cancel")
  <2>1. RecvLast(r) \/ TryRecvPop(r)
    <3>1. pc'[r] = "idle"
      BY <1>1, <1>4 DEF Return, Goto, TypeInv, CallType
    <3>2. RecvStart(r) \/ TryRecvClosed(r) \/ RecvTry(r) \/ RecvFinal(r) => pc'[r] # "idle"
      BY <1>1, <1>4 DEF RecvStart, TryRecvClosed, RecvTry, RecvFinal, Goto, TypeInv, CallType
    <3> QED BY <3>1, <3>2
  <2>2. pc[r] \in Exits /\ UNCHANGED <<queue, count, waits, nops, firing>>
    BY <1>4, <2>1, ZenonT(60) DEF RecvLast, TryRecvPop, Local, Exits
  <2> QED BY <1>1, <1>4, <2>2, ReturnMoves
<1>5. CASE ~Return(r) /\ ~Take(r, "ok") /\ ~Take(r, "cancel")
  <2>1. PICK k \in {"r_try", "t_closed", "r_reg", "commit", "r_last", "t_pop"} :
          /\ pc' = [pc EXCEPT ![r] = k]
          /\ k = "commit" => pc[r] = "r_final" /\ queue = <<>>
          /\ k \in {"t_closed", "r_last", "t_pop"} => pc[r] \in {"idle", "t_closed"}
    BY <1>5, ZenonT(60) DEF RecvStart, RecvTry, RecvFinal, RecvLast, TryRecvClosed,
       TryRecvPop, Goto
  <2>2. /\ k \notin InFire /\ k # "closed?" /\ k # "park"
        /\ (k \in Blocks => k = "commit")
        /\ (k \in Exits => k \in {"t_closed", "r_last", "t_pop"}) /\ "t_closed" \in Exits
    BY <2>1 DEF InFire, Blocks, Exits
  <2>3. /\ pc[r] \in {"idle", "r_try", "r_final", "t_closed"}
        /\ UNCHANGED <<queue, count, reg, state, own, held, target>>
        /\ \/ UNCHANGED nops
           \/ nops[r] < MaxOps[r] /\ nops' = [nops EXCEPT ![r] = @ + 1]
    BY <1>5, ZenonT(60) DEF RecvStart, RecvTry, RecvFinal, RecvLast, TryRecvClosed,
       TryRecvPop, Local, Continues, waits, firing
  <2>4. pc[r] \notin InFire /\ pc[r] # "close" /\ pc[r] # "clear_all" /\ pc[r] # "gone"
    BY <2>3 DEF InFire
  <2>5. Present(r) /\ Gates(r)
    BY <1>1, <2>3, <2>4, PlainStep
  <2>6. /\ own'[r] = own[r] /\ (k \in Exits => MayLeave(r))
        /\ (k \in Blocks => ~CanGo(r)')
    BY <1>2, <2>1, <2>2, <2>3 DEF CanGo
  <2> QED BY <1>1, <2>1, <2>2, <2>3, <2>4, <2>5, <2>6, LocalMoves, ZenonT(60)
<1> QED
  BY <1>3, <1>4, <1>5

(* The steps of a sender.                                                  *)
LEMMA SendMoves ==
  ASSUME TypeInv, WakerInv, WakeupInv, NEW s \in Senders,
         \/ SendStart(s) \/ SendFirst(s) \/ SendTry(s) \/ SenderDoubleCheck(s)
         \/ SendClosed(s)
  PROVE  Moves(s)
<1>1. s \in Threads /\ s \notin Receivers /\ Nil \notin Wakers
  BY SideType, ChannelAssumption DEF Wakers, Threads
<1>2. pc[s] \in {"idle", "s_first", "s_try"} => MayLeave(s)
  <2>1. pc[s] \in {"idle", "s_first"} => own[s] = Nil
    BY <1>1 DEF WakerInv, CallInv
  <2>2. pc[s] = "s_try" /\ own[s] \in Wakers => state[own[s]] = WOKEN
    BY <1>1 DEF WakerInv, ReuseInv, Reusing
  <2>3. WOKEN >= WOKEN
    BY DEF WOKEN
  <2> QED BY <1>1, <2>1, <2>2, <2>3 DEF MayLeave
<1>3. CASE SendClosed(s)
  <2>1. pc[s] \in Exits /\ Return(s) /\ UNCHANGED <<queue, count, waits, nops, firing>>
    BY <1>3 DEF SendClosed, Exits
  <2> QED BY <1>1, <2>1, ReturnMoves
<1>4. CASE \/ Push(s, "ok") /\ pc[s] \in {"s_first", "s_try"}
           \/ Push(s, "cancel") /\ pc[s] = "s_check"
  BY <1>2, <1>4, PushMoves
<1>5. CASE /\ ~(Push(s, "ok") /\ pc[s] \in {"s_first", "s_try"})
           /\ ~(Push(s, "cancel") /\ pc[s] = "s_check") /\ ~SendClosed(s)
  <2>1. PICK k \in {"s_closed", "s_first", "s_try", "timeout", "s_reg", "commit",
                    "s_uncertain"} :
          /\ pc' = [pc EXCEPT ![s] = k]
          /\ k = "commit" => pc[s] = "s_check" /\ Len(queue) >= Cap
          /\ k \in {"s_closed", "timeout"} => pc[s] \in {"idle", "s_first"}
    BY <1>5, ZenonT(60) DEF SendStart, SendFirst, SendTry, SenderDoubleCheck, Goto
  <2>2. /\ k \notin InFire /\ k # "closed?" /\ k # "park"
        /\ (k \in Blocks => k = "commit")
        /\ (k \in Exits => k \in {"s_closed", "timeout"})
    BY <2>1 DEF InFire, Blocks, Exits
  <2>3. /\ pc[s] \in {"idle", "s_first", "s_try", "s_check"}
        /\ UNCHANGED <<queue, count, reg, state, own, held, target>>
        /\ \/ UNCHANGED nops
           \/ nops[s] < MaxOps[s] /\ nops' = [nops EXCEPT ![s] = @ + 1]
    BY <1>5, ZenonT(60) DEF SendStart, SendFirst, SendTry, SenderDoubleCheck, Local,
       Continues, waits, firing
  <2>4. pc[s] \notin InFire /\ pc[s] # "close" /\ pc[s] # "clear_all" /\ pc[s] # "gone"
    BY <2>3 DEF InFire
  <2>5. Present(s) /\ Gates(s)
    BY <1>1, <2>3, <2>4, PlainStep
  <2>6. own'[s] = own[s] /\ (k \in Exits => MayLeave(s))
    BY <1>2, <2>1, <2>2, <2>3
  <2>7. k \in Blocks => ~CanGo(s)'
    <3>1. Len(queue) \in Nat /\ Cap \in Nat
      BY ChannelAssumption DEF TypeInv, MsgType
    <3>2. Len(queue) >= Cap => ~(Len(queue) < Cap)
      BY <3>1
    <3> QED BY <1>1, <2>1, <2>2, <2>3, <3>2 DEF CanGo
  <2> QED BY <1>1, <2>1, <2>2, <2>3, <2>4, <2>5, <2>6, <2>7, LocalMoves, ZenonT(60)
<1> QED
  BY <1>3, <1>4, <1>5

(* A sender looks at its waker.                                            *)
LEMMA SnoozeMoves ==
  ASSUME TypeInv, WakerInv, WakeupInv, NEW s \in Senders,
         CancelReuse(s) \/ SenderSnooze(s)
  PROVE  Moves(s)
<1>1. /\ s \in Threads /\ pc[s] \in {"s_uncertain", "park"} /\ pc[s] \notin InFire
      /\ pc[s] # "close" /\ pc[s] # "clear_all" /\ pc[s] # "gone"
      /\ UNCHANGED <<queue, count, reg, state, nops, own, held, target>>
  BY SideType DEF CancelReuse, SenderSnooze, Local, Continues, waits, firing, InFire
<1>2. own[s] \in Wakers
  BY <1>1 DEF TypeInv, ControlInv, OwnInv, NeedsOwn, Holding
<1>3. state[own[s]] \in WakerStates
  BY <1>2, ZenonT(60) DEF TypeInv, WaitType
<1>4. Present(s) /\ Gates(s)
  BY <1>1, PlainStep
<1>5. PICK k \in {"park", "s_try", "r_try", "s_closed", "r_last", "clear_one"} :
        /\ pc' = [pc EXCEPT ![s] = k] /\ (k \in Exits => state[own[s]] >= WOKEN)
        /\ k # "park"
  <2>1. CASE state[own[s]] >= WOKEN
    <3>1. OnState(s, state[own[s]])
      BY <2>1, ZenonT(60) DEF CancelReuse, SenderSnooze
    <3>2. ~(state[own[s]] < WOKEN)
      BY <1>3, <2>1 DEF WakerStates, INIT, WAITING, WOKEN, CLOSED
    <3> QED BY <1>3, <2>1, <3>1, <3>2, OnStateGoes, ZenonT(60)
  <2>2. CASE ~(state[own[s]] >= WOKEN)
    BY <2>2, ZenonT(60) DEF CancelReuse, SenderSnooze, Goto, Exits
  <2> QED BY <2>1, <2>2
<1>6. k \notin InFire /\ k # "closed?" /\ k \notin Blocks
  BY <1>5 DEF InFire, Blocks
<1>7. k \in Exits => MayLeave(s)
  BY <1>5 DEF MayLeave
<1> QED
  BY <1>1, <1>4, <1>5, <1>6, <1>7, LocalMoves, ZenonT(60)

(* A thread registers its waker, after it has found nothing to go on with. *)
LEMMA RegMoves ==
  ASSUME TypeInv, TypeInv', WakerInv, WakeupInv, NEW t \in Threads,
         NEW l \in {"r_final", "s_check"}, NEW w, Registers(t, w, l)
  PROVE  WakeupInv'
<1>1. /\ Registered(t, w, l) /\ w = (IF own[t] = Nil THEN NewWaker(t) ELSE own[t])
      /\ pc[t] \in {"r_reg", "s_reg"}
      /\ UNCHANGED <<queue, count, nops, seen, held, target, ret>>
  BY RegFrame, ZenonT(60) DEF Registers, firing
<1>2. /\ w \in Wakers /\ w[1] = t /\ \A u \in Threads : u # t => own[u] # w
      /\ Nil \notin Wakers
  BY RegisteredIs, ChannelAssumption, ZenonT(60) DEF Registers, Wakers, Threads
<1>3. /\ own'[t] = w /\ pc'[t] = l /\ state'[w] = INIT
      /\ \A u \in Threads : u # t => own'[u] = own[u] /\ pc'[u] = pc[u]
      /\ \A v \in Wakers : v # w => /\ state'[v] = state[v] /\ seq'[v] = seq[v]
                                    /\ (Listed(v)' <=> Listed(v))
      /\ \A f \in Threads, v \in Wakers : Wakes(f, v)' <=> Wakes(f, v)
  BY <1>1, ZenonT(60) DEF Registered
<1>4. /\ l \notin InFire /\ l \notin Blocks /\ l \notin Exits /\ l # "gone"
      /\ l # "park" /\ l # "closed?" /\ l # "close"
      /\ pc[t] \notin InFire /\ pc[t] # "f_first" /\ pc[t] # "close" /\ pc[t] # "gone"
  BY <1>1 DEF InFire, Blocks, Exits
<1>5. /\ \A u \in Threads : (Absent(u)' <=> Absent(u)) /\ (Lone(u)' <=> Lone(u))
      /\ \A u \in Threads : CanGo(u)' <=> CanGo(u)
      /\ ~Absent(t)
  BY <1>1, <1>4 DEF Absent, Lone, CanGo, WakeupInv, AbsentInv
<1>6. ASSUME NEW u \in Threads, u # t, own'[u] \in Wakers
      PROVE  /\ own'[u] = own[u] /\ own[u] # w /\ state'[own[u]] = state[own[u]]
             /\ (Listed(own[u])' <=> Listed(own[u]))
  <2>1. own'[u] = own[u] /\ own[u] # w /\ own[u] \in Wakers
    BY <1>2, <1>3, <1>6
  <2>2. PICK v \in Wakers : v = own[u] /\ v = own'[u]
    BY <2>1
  <2> QED BY <1>3, <2>1, <2>2 DEF Listed
<1>7. AbsentInv' /\ HeldInv'
  <2>1. ASSUME NEW u \in Threads, Absent(u)
        PROVE  pc'[u] = "gone" /\ \A v \in Wakers : v[1] = u => seq'[v] = 0
    BY <1>2, <1>3, <1>5, <2>1 DEF WakeupInv, AbsentInv
  <2>2. ASSUME NEW f \in Threads, held[f] # Nil PROVE pc'[f] \in InFire
    BY <1>3, <1>4, <2>2 DEF WakeupInv, HeldInv
  <2> QED BY <1>1, <1>5, <2>1, <2>2 DEF AbsentInv, HeldInv
<1>8. HandInv'
  <2> SUFFICES ASSUME NEW u \in Threads, Lone(u), NEW x \in Wakers, NEW f \in Threads,
                      x[1] = u, Listed(x)', held[f] = x, x # w
               PROVE  own'[u] = x
    BY <1>1, <1>2, <1>3, <1>5 DEF HandInv
  <2>1. own[u] = x
    BY <1>3 DEF WakeupInv, HandInv
  <2> QED BY <1>1, <1>2, <1>3, <2>1
<1>9. SeenInv'
  <2> SUFFICES ASSUME NEW u \in Threads, pc'[u] = "closed?", seen'[u] >= WOKEN
               PROVE  state'[own'[u]] >= WOKEN
    BY ZenonT(60) DEF SeenInv
  <2>1. u # t /\ pc[u] = "closed?" /\ seen[u] >= WOKEN /\ own'[u] = own[u]
    BY <1>1, <1>3, <1>4
  <2>2. own[u] \in Wakers
    BY <2>1, WaiterOwns DEF Waits
  <2>3. state'[own[u]] = state[own[u]]
    BY <1>6, <2>1, <2>2
  <2> QED BY <2>1, <2>3 DEF WakeupInv, SeenInv
<1>10. ClosedInv'
  <2> SUFFICES ASSUME NEW u \in Threads, Lone(u), own'[u] \in Wakers,
                      state'[own'[u]] = CLOSED, Listed(own[u])'
               PROVE  pc'[u] = "clear_all"
    BY <1>5 DEF ClosedInv
  <2>1. u # t
    BY <1>3 DEF INIT, CLOSED
  <2> QED BY <1>3, <1>6, <2>1 DEF WakeupInv, ClosedInv
<1>11. LeaveInv'
  <2> SUFFICES ASSUME NEW u \in Threads, Lone(u), own'[u] \in Wakers,
                      Leaving(u)', Listed(own[u])'
               PROVE  count'[Other(Side(u))] = 0
    BY <1>5 DEF LeaveInv
  <2>1. u # t
    BY <1>3, <1>4 DEF Leaving
  <2>2. Leaving(u)
    BY <1>1, <1>3, <2>1 DEF Leaving
  <2> QED BY <1>1, <1>6, <2>1, <2>2 DEF WakeupInv, LeaveInv
<1>12. ASSUME NEW u \in Threads, pc'[u] \in Blocks
       PROVE  /\ u # t /\ pc[u] = pc'[u] /\ own'[u] = own[u] /\ own[u] \in Wakers
              /\ state'[own'[u]] = state[own[u]]
              /\ \A f \in Threads : Wakes(f, own[u]) => Wakes(f, own[u])'
  <2>1. u # t /\ pc[u] = pc'[u] /\ own'[u] = own[u]
    BY <1>3, <1>4, <1>12
  <2>2. own[u] \in Wakers
    BY <1>12, <2>1, WaiterOwns DEF Waits, Blocks
  <2>3. PICK v \in Wakers : v = own[u] /\ v = own'[u]
    BY <2>1, <2>2
  <2>4. \A f \in Threads : Wakes(f, v) => Wakes(f, v)'
    BY <1>3
  <2> QED BY <1>6, <2>1, <2>2, <2>3, <2>4 DEF Wakes
<1>13. RoomInv'
  <2> SUFFICES ASSUME NEW u \in Threads, Lone(u), pc'[u] \in Blocks,
                      state'[own'[u]] <= WAITING, CanGo(u)
               PROVE  \E f \in Threads : Wakes(f, own[u])' \/ Comes(f, u)'
    BY <1>5 DEF RoomInv
  <2>1. PICK f \in Threads : Wakes(f, own[u]) \/ Comes(f, u)
    BY <1>12 DEF WakeupInv, RoomInv
  <2>2. Comes(f, u) => Comes(f, u)'
    BY <1>1, <1>3, <1>4 DEF Comes
  <2> QED BY <1>12, <2>1, <2>2
<1>14. ShutInv'
  <2> SUFFICES ASSUME NEW u \in Threads, pc'[u] = "park", state'[own'[u]] <= WAITING,
                      count'[Other(Side(u))] = 0
               PROVE  \E f \in Threads : Wakes(f, own[u])' \/ Closing(f, u)'
    BY ZenonT(60) DEF ShutInv
  <2>1. pc'[u] \in Blocks
    BY DEF Blocks
  <2>2. PICK f \in Threads : Wakes(f, own[u]) \/ Closing(f, u)
    BY <1>1, <1>12, <2>1 DEF WakeupInv, ShutInv
  <2>3. Closing(f, u) => Closing(f, u)'
    BY <1>3, <1>4 DEF Closing
  <2> QED BY <1>12, <2>1, <2>2, <2>3
<1> QED
  BY <1>7, <1>8, <1>9, <1>10, <1>11, <1>13, <1>14 DEF WakeupInv

-----------------------------------------------------------------------------
(* Every step *)

LEMMA WakeupInit == Init => WakeupInv
<1> SUFFICES ASSUME Init PROVE WakeupInv
  OBVIOUS
<1>1. ASSUME NEW t \in Threads
      PROVE  /\ pc[t] = IF nops[t] < MaxOps[t] THEN "idle" ELSE "gone"
             /\ own[t] = Nil /\ held[t] = Nil /\ nops[t] \in Nat /\ MaxOps[t] \in Nat
  BY TypeInit, ChannelAssumption DEF Init, TypeInv, CallType, Threads
<1>2. /\ \A w \in Wakers : seq[w] = 0 /\ w # Nil
      /\ \A t \in Threads : pc[t] \notin Blocks /\ pc[t] # "closed?" /\ pc[t] # "park"
  BY <1>1, ChannelAssumption DEF Init, Blocks, Wakers, Threads
<1>3. \A t \in Threads : Absent(t) => pc[t] = "gone"
  BY <1>1 DEF Absent
<1> QED
  BY <1>1, <1>2, <1>3 DEF WakeupInv, AbsentInv, HeldInv, SeenInv, HandInv, ClosedInv,
     LeaveInv, RoomInv, ShutInv

(* The steps that both sides have.                                         *)
LEMMA CallMoves ==
  ASSUME TypeInv, WakerInv, WakeupInv, NEW t \in Threads,
         CallStep(t) \/ Timeout(t) \/ Drop(t) \/ AddHandle(t)
  PROVE  Calm(t) /\ Moves(t)
<1>1. CASE ReturnOk(t) \/ ReturnTimeout(t)
  <2>1. /\ Return(t) /\ pc[t] \in Exits /\ UNCHANGED <<queue, count, waits, nops, firing>>
    BY <1>1 DEF ReturnOk, ReturnTimeout, Exits
  <2>2. \E k : Quiet(t, k)
    BY <1>1, CallQuiet
  <2> QED BY <2>1, <2>2, QuietCalm, ReturnMoves
<1>2. CASE \/ CancelWaker(t) \/ ClosedCheck(t) \/ Park(t) \/ Drop(t) \/ AddHandle(t)
  <2>1. \E k : Quiet(t, k)
    BY <1>2, CallQuiet
  <2> QED BY <1>2, <2>1, QuietCalm, LookMoves, HandleMoves
<1>3. CASE WakeLoad(t) \/ WakeStore(t) \/ WakeCas(t) \/ WakeUnpark(t)
  BY <1>3, WakeCalm, WakeIsMove
<1>4. CASE PopFirst(t) \/ PopAgain(t)
  BY <1>4, PopCalm, PopIsMove
<1>5. CASE Clear(t) \/ CommitWaiting(t)
  BY <1>5, ClearCalm, ClearIsMove, CommitCalm, CommitIsMove
<1>6. CASE Timeout(t) \/ Close(t)
  BY <1>6, TimeoutCalm, TimeoutIsMove, CloseCalm, CloseIsMove
<1> QED
  BY <1>1, <1>2, <1>3, <1>4, <1>5, <1>6, ZenonT(60) DEF CallStep, FireStep

LEMMA WakeupStep == TypeInv /\ WakerInv /\ WakeupInv /\ [Next]_vars => WakeupInv'
<1> SUFFICES ASSUME TypeInv, WakerInv, WakeupInv, [Next]_vars PROVE WakeupInv'
  OBVIOUS
<1>1. TypeInv' /\ WakerInv'
  BY TypeStep, WakerStep
<1>2. CASE UNCHANGED vars
  <2>1. UNCHANGED <<queue, count, reg, state, seq, nops, pc, own, seen, held, ret, target>>
    BY <1>2, ZenonT(60) DEF vars, waits, firing
  <2>2. AbsentInv' /\ HeldInv' /\ SeenInv'
    BY <2>1, ZenonT(60) DEF WakeupInv, AbsentInv, HeldInv, SeenInv, Absent
  <2>3. HandInv' /\ ClosedInv'
    BY <2>1, ZenonT(60) DEF WakeupInv, HandInv, ClosedInv, Lone, Absent, Listed
  <2>4. LeaveInv'
    BY <2>1, ZenonT(60) DEF WakeupInv, LeaveInv, Lone, Absent, Listed, Leaving
  <2>5. RoomInv'
    BY <2>1, ZenonT(60) DEF WakeupInv, RoomInv, Lone, Absent, CanGo, Wakes, Comes
  <2>6. ShutInv'
    BY <2>1, ZenonT(60) DEF WakeupInv, ShutInv, Wakes, Closing
  <2> QED BY <2>2, <2>3, <2>4, <2>5, <2>6 DEF WakeupInv
<1>3. ASSUME NEW t \in Threads, CallStep(t) \/ Timeout(t) \/ Drop(t) \/ AddHandle(t)
      PROVE  WakeupInv'
  BY <1>1, <1>3, CallMoves, MoveKeeps
<1>4. ASSUME NEW r \in Receivers, RecvStart(r) \/ RecvStep(r)
      PROVE  WakeupInv'
  <2>1. r \in Threads
    BY SideType
  <2>2. CASE \/ RecvStart(r) \/ RecvTry(r) \/ RecvFinal(r) \/ RecvLast(r)
             \/ TryRecvClosed(r) \/ TryRecvPop(r)
    <3>1. \E k : Quiet(r, k)
      BY <2>2, RecvQuiet
    <3>2. Moves(r)
      BY <2>2, RecvMoves
    <3> QED BY <1>1, <2>1, <3>1, <3>2, QuietCalm, MoveKeeps
  <2>3. CASE RecvReg(r)
    BY <1>1, <2>1, <2>3, RecvRegIs, RegMoves
  <2> QED BY <1>4, <2>2, <2>3 DEF RecvStep
<1>5. ASSUME NEW s \in Senders, SendStart(s) \/ SendStep(s)
      PROVE  WakeupInv'
  <2>1. s \in Threads
    BY SideType
  <2>2. CASE \/ SendStart(s) \/ SendFirst(s) \/ SendTry(s) \/ SenderDoubleCheck(s)
             \/ SendClosed(s) \/ CancelReuse(s) \/ SenderSnooze(s)
    <3>1. \E k : Quiet(s, k)
      BY <2>2, SendQuiet, SnoozeQuiet
    <3>2. Moves(s)
      BY <2>2, SendMoves, SnoozeMoves
    <3> QED BY <1>1, <2>1, <3>1, <3>2, QuietCalm, MoveKeeps
  <2>3. CASE SendReg(s)
    BY <1>1, <2>1, <2>3, SendRegIs, RegMoves
  <2> QED BY <1>5, <2>2, <2>3 DEF SendStep
<1> QED
  BY <1>2, <1>3, <1>4, <1>5, ZenonT(60) DEF Next, Terminated

LEMMA WakeupInvariant == Spec => []WakeupInv
<1>1. Init => WakeupInv
  BY WakeupInit
<1>2. TypeInv /\ WakerInv /\ WakeupInv /\ [Next]_vars => WakeupInv'
  BY WakeupStep
<1> QED
  BY <1>1, <1>2, TypeInvariant, WakerInvariant, PTL DEF Spec

(* When every call has returned or is blocked in park(), nobody is blocked *)
(* on a side whose other side has closed; and nobody who is alone on its   *)
(* side is blocked beside a message, or beside free room: fire(), the      *)
(* close of the last handle, cancel and timeout lose no wakeup there.      *)
THEOREM WaitersAreReleased == Spec => []WaitersReleased
<1>1. TypeInv /\ WakeupInv => WaitersReleased
  <2> SUFFICES ASSUME TypeInv, WakeupInv, Quiescent, NEW t \in Threads, Parked(t)
               PROVE  /\ count[Other(Side(t))] > 0
                      /\ Lone(t) => IF t \in Receivers THEN queue = <<>>
                                    ELSE Len(queue) = Cap
    BY ZenonT(60) DEF WaitersReleased, Lone
  <2>1. pc[t] = "park" /\ state[own[t]] <= WAITING /\ pc[t] \in Blocks
    BY DEF Parked, Blocks
  <2>2. \A f \in Threads : /\ ~Wakes(f, own[t]) /\ ~Comes(f, t) /\ ~Closing(f, t)
    BY DEF Quiescent, Parked, Wakes, Waking, Comes, Closing
  <2>3. count[Other(Side(t))] > 0
    <3>1. count[Other(Side(t))] # 0
      BY <2>1, <2>2 DEF WakeupInv, ShutInv
    <3>2. count[Other(Side(t))] \in Nat
      BY SideType DEF TypeInv, CountType
    <3> QED BY <3>1, <3>2
  <2>4. Lone(t) => ~CanGo(t)
    BY <2>1, <2>2 DEF WakeupInv, RoomInv
  <2>5. Len(queue) <= Cap /\ Len(queue) \in Nat /\ Cap \in Nat
    BY ChannelAssumption DEF TypeInv, MsgType
  <2> QED BY <2>3, <2>4, <2>5 DEF CanGo
<1> QED
  BY <1>1, WakeupInvariant, TypeInvariant, PTL

=============================================================================
