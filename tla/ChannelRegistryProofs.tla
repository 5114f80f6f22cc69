---------------------- MODULE ChannelRegistryProofs ------------------------
(***************************************************************************)
(* The steps of Channel that change a registry or the state of a waker     *)
(* keep WakerInv; so every step does, and the registries are in order      *)
(* (RegistryOrdered) and every waiting thread can be found by whoever must *)
(* wake it (WaiterReachable).                                              *)
(***************************************************************************)
EXTENDS ChannelWakerProofs

(* The provers of a leaf that names none, in this order, with time in      *)
(* seconds that is enough on a slow machine too.                           *)
USE ZenonT(4), SMTT(60), Z3T(60), ZenonT(60)

-----------------------------------------------------------------------------
(* The steps on a registry and on the states of wakers *)

(* The o_waker of a call upgrades.                                         *)
LEMMA OwnAlive ==
  ASSUME TypeInv, NEW u \in Threads, own[u] \in Wakers
  PROVE  Alive(own[u]) /\ own[u][1] = u
BY DEF TypeInv, ControlInv, OwnInv, Alive

(* No state is between waiting and woken.                                  *)
LEMMA StateSplit ==
  ASSUME NEW x \in WakerStates
  PROVE  /\ x <= WAITING <=> x < WOKEN
         /\ x >= WOKEN <=> ~(x <= WAITING)
         /\ WOKEN >= WOKEN /\ ~(WOKEN <= WAITING) /\ CLOSED >= WOKEN
         /\ ~(CLOSED <= WAITING) /\ CLOSED # WOKEN /\ WAITING # WOKEN
         /\ INIT # WOKEN /\ WAITING <= WAITING /\ INIT <= WAITING
BY DEF WakerStates, INIT, WAITING, WOKEN, CLOSED

(* A fire() at a waker: only its thread moves, and it stores Woken to the  *)
(* waker that it holds, or nothing.                                        *)
LEMMA WakeCalm ==
  ASSUME TypeInv, WakerInv, NEW t \in Threads,
         WakeLoad(t) \/ WakeStore(t) \/ WakeCas(t) \/ WakeUnpark(t)
  PROVE  Calm(t)
<1>1. pc[t] \in InFire /\ UNCHANGED <<reg, regSeq, hasWaker, seq, own, seen, ret>>
  BY DEF WakeLoad, WakeStore, WakeCas, WakeUnpark, FireFrame, InFire
<1>2. CASE /\ NotDone(t) \/ EndFire(t)
           /\ pc[t] \in Waking => state[held[t]] >= WOKEN
           /\ UNCHANGED state
  <2>1. \E k : Quiet(t, k)
    BY <1>1, <1>2, NotDoneQuiet, EndFireQuiet
  <2> QED BY <2>1, QuietCalm
<1>3. CASE /\ pc[t] \in Waking /\ UNCHANGED <<state, firing>>
           /\ \E k \in Waking : Goto(t, k)
  <2>1. PICK k \in Waking : Goto(t, k)
    BY <1>3
  <2>2. /\ k \notin Waits /\ k \notin Reusing
        /\ k \notin {"idle", "close", "gone", "s_first"} /\ k \in InFire
    BY DEF Waking, Waits, Reusing, InFire
  <2>3. ret'[t] # "s_try"
    BY <1>1 DEF WakerInv, CallInv
  <2>4. Quiet(t, k)
    BY <1>1, <1>3, <2>1, <2>2, <2>3, ZenonT(60) DEF Quiet, Others, Goto, firing
  <2> QED BY <2>4, QuietCalm
<1>4. CASE /\ pc[t] \in Waking /\ SetWoken(t) /\ UNCHANGED firing
           /\ \E k \in {"f_unpark_done", "f_unpark_next"} : Goto(t, k)
  <2>1. PICK k \in {"f_unpark_done", "f_unpark_next"} : Goto(t, k)
    BY <1>4
  <2>2. /\ k \notin Waking /\ k \notin Waits /\ k \notin Reusing /\ k # "closed?"
        /\ k \notin {"idle", "close", "gone", "s_first"} /\ k \in InFire
    BY <2>1 DEF Waking, Waits, Reusing, InFire
  <2>3. pc'[t] = k /\ \A u \in Threads : u # t => pc'[u] = pc[u]
    BY <2>1 DEF Goto, TypeInv, CallType
  <2>4. held[t] \in Wakers
    BY <1>4 DEF WakerInv, WakesInv
  <2>5. /\ state'[held[t]] = WOKEN
        /\ \A w \in Wakers : w # held[t] => state'[w] = state[w]
    BY <1>4, <2>4 DEF SetWoken, TypeInv, WaitType
  <2>6. Alone(t)
    BY <1>1, <1>4, <2>3, ZenonT(60) DEF Alone, firing
  <2>7. Shrinks
    BY <1>1, ZenonT(60) DEF Shrinks, WakerInv, OrderInv
  <2>8. ~(WOKEN <= WAITING)
    BY DEF WOKEN, WAITING
  <2>9. StateMoves(t)
    BY <1>4, <2>2, <2>3, <2>5, <2>8, ZenonT(60) DEF StateMoves, Wakes
  <2>10. WakesMove(t)
    BY <2>2, <2>3 DEF WakesMove
  <2>11. CallMove(t)
    <3>1. ret'[t] # "s_try"
      BY <1>1 DEF WakerInv, CallInv
    <3> QED BY <1>1, <2>2, <2>3, <3>1, ZenonT(60) DEF CallMove
  <2>12. Finds(t)
    BY <1>1, <2>5, <2>8, ZenonT(60) DEF Finds, Listed, Wakes
  <2> QED
    BY <2>6, <2>7, <2>9, <2>10, <2>11, <2>12 DEF Calm
<1>5. WakeLoad(t) \/ WakeStore(t) \/ WakeCas(t) => pc[t] \in Waking
  BY DEF WakeLoad, WakeStore, WakeCas, Waking
<1>6. WakeUnpark(t) => pc[t] \notin Waking
  BY DEF WakeUnpark, Waking
<1>7. "f_store" \in Waking /\ "f_cas" \in Waking
  BY DEF Waking
<1>8. CASE WakeLoad(t)
  BY <1>2, <1>3, <1>5, <1>7, <1>8, ZenonT(60) DEF WakeLoad
<1>9. CASE WakeStore(t)
  BY <1>4, <1>5, <1>9, ZenonT(60) DEF WakeStore
<1>10. CASE WakeCas(t)
  BY <1>2, <1>3, <1>4, <1>5, <1>7, <1>10, ZenonT(60) DEF WakeCas
<1>11. CASE WakeUnpark(t)
  BY <1>2, <1>6, <1>11, ZenonT(60) DEF WakeUnpark
<1> QED
  BY <1>8, <1>9, <1>10, <1>11

(* One registry loses entries.                                             *)
LEMMA ShrinkOne ==
  ASSUME TypeInv, WakerInv, NEW side \in Sides, NEW q, Sorted(q),
         Range(q) \subseteq Range(reg[side]), reg' = [reg EXCEPT ![side] = q],
         hasWaker'[side] = (q # <<>>),
         \A d \in Sides : d # side => hasWaker'[d] = hasWaker[d],
         UNCHANGED <<regSeq, seq>>
  PROVE  /\ Shrinks
         /\ \A w \in Wakers : Listed(w) =>
              \/ w \in Range(reg'[Side(w[1])])
              \/ Side(w[1]) = side /\ w \in Range(reg[side]) /\ w \notin Range(q)
<1>1. reg'[side] = q /\ \A d \in Sides : d # side => reg'[d] = reg[d]
  BY DEF TypeInv, WaitType
<1>2. Shrinks
  <2> SUFFICES ASSUME NEW d \in Sides
               PROVE  /\ hasWaker'[d] = (reg'[d] # <<>>) /\ Sorted(reg'[d])
                      /\ Range(reg'[d]) \subseteq Range(reg[d])
    BY ZenonT(60) DEF Shrinks
  <2>1. CASE d = side
    BY <1>1, <2>1, ZenonT(60)
  <2>2. CASE d # side
    BY <1>1, <2>2, ZenonT(60) DEF WakerInv, OrderInv
  <2> QED BY <2>1, <2>2
<1>3. ASSUME NEW w \in Wakers PROVE Side(w[1]) \in Sides
  BY SideType DEF Wakers
<1> QED
  BY <1>1, <1>2, <1>3, ZenonT(60) DEF Listed

(* The wakers of a registry.                                               *)
LEMMA RegIs ==
  ASSUME TypeInv, WakerInv, NEW side \in Sides
  PROVE  /\ reg[side] \in Seq(WakersOf(side)) /\ WakersOf(side) \in SUBSET Wakers
         /\ Sorted(reg[side]) /\ WaitType
         /\ Range(reg[side]) \subseteq WakersOf(side)
<1>1. reg[side] \in Seq(WakersOf(side))
  BY DEF TypeInv, RegInv
<1>2. Range(reg[side]) \subseteq WakersOf(side)
  BY <1>1 DEF Range
<1> QED
  BY <1>1, <1>2, ZenonT(60) DEF TypeInv, WakerInv, OrderInv, WakersOf

(* pop_first and pop_again drop dead entries only, and hand on the waker   *)
(* that they pop.                                                          *)
LEMMA PopCalm ==
  ASSUME TypeInv, WakerInv, NEW t \in Threads, PopFirst(t) \/ PopAgain(t)
  PROVE  Calm(t)
<1> DEFINE side == target[t]
           q == reg[side]
           i == FirstAlive(q)
<1>1. /\ pc[t] \in InFire /\ pc[t] \notin Waking /\ side \in Sides
      /\ UNCHANGED <<regSeq, state, seq, own, seen, ret>>
  BY DEF PopFirst, PopAgain, InFire, Waking, TypeInv, ControlInv, TargetInv
<1>2. /\ q \in Seq(WakersOf(side)) /\ WakersOf(side) \in SUBSET Wakers
      /\ Sorted(q) /\ WaitType /\ Range(q) \subseteq WakersOf(side)
  BY <1>1, RegIs
<1>3. /\ i \in 1..(Len(q) + 1)
      /\ \A j \in 1..Len(q) : j < i => ~Alive(q[j])
      /\ i <= Len(q) => Alive(q[i])
  BY <1>2, FirstAliveIs, ZenonT(60)
<1>4. StateMoves(t)
  BY <1>1, ZenonT(60) DEF StateMoves
<1>5. ret[t] # "s_try" /\ ret[t] \in {"ok", "cancel", "timeout"}
  BY <1>1 DEF TypeInv, CallType, WakerInv, CallInv
<1>6. ret'[t] = ret[t] /\ ret[t] \notin Waking /\ ret[t] \notin Waits
      /\ ret[t] \notin Reusing /\ ret[t] # "closed?"
      /\ ret[t] \notin {"idle", "close", "gone", "s_first"} /\ ret[t] \notin InFire
  BY <1>1, <1>5 DEF Waking, Waits, Reusing, InFire
<1>7. ASSUME NEW u \in Threads, pc[u] \in Waits
      PROVE  own[u] \in Wakers /\ Alive(own[u])
  <2>1. own[u] \in Wakers
    BY <1>7 DEF TypeInv, ControlInv, OwnInv, NeedsOwn, Holding, Waits
  <2> QED BY <2>1, OwnAlive
<1>8. CASE EndFire(t) /\ UNCHANGED <<reg, hasWaker>>
  <2>1. Quiet(t, ret[t])
    BY <1>1, <1>8, EndFireQuiet
  <2> QED BY <2>1, QuietCalm
<1>9. CASE i > Len(q) /\ PopNone(t)
  <2>1. \A w \in Range(q) : ~Alive(w)
    <3>1. \A j \in 1..Len(q) : ~Alive(q[j])
      BY <1>2, <1>3, <1>9
    <3>2. DOMAIN q = 1..Len(q)
      BY <1>2
    <3> QED BY <3>1, <3>2, ZenonT(60) DEF Range
  <2>2. /\ reg' = [reg EXCEPT ![side] = <<>>] /\ hasWaker'[side] = FALSE
        /\ \A d \in Sides : d # side => hasWaker'[d] = hasWaker[d]
    BY <1>1, <1>9 DEF PopNone, TypeInv, WaitType, WakerInv, OrderInv
  <2>3. Sorted(<<>>) /\ Range(<<>>) = {}
    BY DEF Sorted, Range
  <2>4. /\ Shrinks
        /\ \A w \in Wakers : Listed(w) => w \in Range(reg'[Side(w[1])]) \/ w \in Range(q)
    <3>1. hasWaker'[side] = (<<>> # <<>>)
      BY <2>2, ZenonT(60)
    <3> HIDE DEF side
    <3> QED BY <1>1, <2>2, <2>3, <3>1, ShrinkOne, ZenonT(60) DEF q
  <2>5. /\ Alone(t) /\ pc'[t] = ret[t]
    BY <1>1, <1>9 DEF PopNone, EndFire, Goto, Alone, TypeInv, CallType, FireType
  <2>6. WakesMove(t) /\ CallMove(t)
    BY <1>1, <1>6, <2>5, ZenonT(60) DEF WakesMove, CallMove
  <2>7. Finds(t)
    BY <1>1, <1>7, <2>1, <2>4, ZenonT(60) DEF Finds, Wakes
  <2> QED BY <1>4, <2>4, <2>5, <2>6, <2>7 DEF Calm
<1>10. CASE i <= Len(q) /\ Pop(t)
  <2> DEFINE r == Rest(q, i)
  <2>1. i \in 0..Len(q) /\ i \in 1..Len(q) /\ i > 0 /\ Len(q) \in Nat
    BY <1>2, <1>3, <1>10
  <2>2. /\ Sorted(r) /\ Range(r) \subseteq Range(q) /\ q[i] \notin Range(r)
        /\ \A j \in 1..Len(q) : j > i => q[j] \in Range(r)
    <3> HIDE DEF i, q
    <3> QED BY <1>2, <2>1, RestSorted
  <2>3. q[i] \in Range(q) /\ q[i] \in Wakers /\ Side(q[i][1]) = side
    <3>1. q[i] \in Range(q)
      BY <1>2, <2>1 DEF Range
    <3> QED BY <1>2, <3>1 DEF WakersOf
  <2>4. \A w \in Range(q) : w \in Range(r) \/ w = q[i] \/ ~Alive(w)
    <3>1. ASSUME NEW j \in 1..Len(q) PROVE q[j] \in Range(r) \/ j = i \/ ~Alive(q[j])
      BY <1>3, <2>1, <2>2
    <3>2. DOMAIN q = 1..Len(q)
      BY <1>2
    <3> QED BY <3>1, <3>2, ZenonT(60) DEF Range
  <2>5. q # <<>>
    BY <1>2, <2>1
  <2>6. /\ reg' = [reg EXCEPT ![side] = r] /\ hasWaker'[side] = (r # <<>>)
        /\ \A d \in Sides : d # side => hasWaker'[d] = hasWaker[d]
    <3>1. hasWaker[side] = TRUE /\ hasWaker \in [Sides -> BOOLEAN]
      BY <1>1, <2>5 DEF WakerInv, OrderInv, TypeInv, WaitType
    <3> QED BY <1>1, <1>10, <3>1, ZenonT(60) DEF Pop
  <2>7. /\ Shrinks
        /\ \A w \in Wakers : Listed(w) =>
             \/ w \in Range(reg'[Side(w[1])])
             \/ w \in Range(q) /\ w \notin Range(r)
    <3>1. /\ UNCHANGED <<regSeq, seq>> /\ Range(r) \subseteq Range(reg[side])
          /\ q = reg[side]
      BY <1>1, <2>2
    <3>2. /\ Shrinks
          /\ \A w \in Wakers : Listed(w) =>
               \/ w \in Range(reg'[Side(w[1])])
               \/ Side(w[1]) = side /\ w \in Range(reg[side]) /\ w \notin Range(r)
      <4> HIDE DEF side, q, r
      <4> QED BY <1>1, <2>2, <2>6, <3>1, ShrinkOne, ZenonT(60)
    <3> QED BY <3>2, ZenonT(60)
  <2>8. /\ Alone(t) /\ pc'[t] = "f_load" /\ held'[t] = q[i]
    BY <1>1, <1>10 DEF Pop, Goto, Alone, TypeInv, CallType, FireType
  <2>9. "f_load" \in Waking /\ "f_load" \notin Waits /\ "f_load" \notin Reusing
        /\ "f_load" \notin {"idle", "close", "gone", "s_first"}
    BY DEF Waking, Waits, Reusing
  <2>10. CallMove(t)
    BY <1>1, <1>5, <1>6, <2>8, <2>9, ZenonT(60) DEF CallMove
  <2>11. WakesMove(t)
    <3>1. reg'[side] = r
      BY <1>1, <2>6 DEF TypeInv, WaitType
    <3> HIDE DEF i, r
    <3> QED BY <2>2, <2>3, <2>8, <3>1, ZenonT(60) DEF WakesMove, Listed
  <2>12. Finds(t)
    <3> HIDE DEF i, r
    <3> QED BY <1>1, <1>7, <2>4, <2>7, <2>8, <2>9, ZenonT(60) DEF Finds, Wakes
  <2> QED BY <1>4, <2>7, <2>8, <2>10, <2>11, <2>12 DEF Calm
<1>11. \/ EndFire(t) /\ UNCHANGED <<reg, hasWaker>>
       \/ i > Len(q) /\ PopNone(t)
       \/ i <= Len(q) /\ Pop(t)
  BY ZenonT(60) DEF PopFirst, PopAgain
<1> QED
  BY <1>8, <1>9, <1>10, <1>11

(* A call that waits holds its waker.                                      *)
LEMMA WaiterOwns ==
  ASSUME TypeInv, NEW u \in Threads, pc[u] \in Waits
  PROVE  /\ own[u] \in Wakers /\ Alive(own[u]) /\ own[u][1] = u
         /\ state[own[u]] \in WakerStates
<1>1. own[u] \in Wakers
  BY DEF TypeInv, ControlInv, OwnInv, NeedsOwn, Holding, Waits
<1>2. state[own[u]] \in WakerStates
  BY <1>1, ZenonT(60) DEF TypeInv, WaitType
<1> QED
  BY <1>1, <1>2, OwnAlive

(* _clear_wakers drops the waker of its own call, the dead and the woken.  *)
LEMMA ClearCalm ==
  ASSUME TypeInv, WakerInv, NEW t \in Threads, Clear(t)
  PROVE  Calm(t)
<1> DEFINE side == Side(t)
           q == reg[side]
           p == Cleared(q, own[t], pc[t] = "clear_one")
           Goes(w) == \/ ~Alive(w) \/ state[w] >= WOKEN
                      \/ Side(w[1]) = side /\ seq[w] = seq[own[t]]
<1>1. /\ side \in Sides /\ own[t] \in Wakers /\ own[t][1] = t
      /\ UNCHANGED <<regSeq, state, seq, seen, held, ret>>
      /\ pc[t] \notin Waking /\ pc[t] \notin Waits
  BY SideType DEF Clear, firing, TypeInv, ControlInv, OwnInv, NeedsOwn, Holding,
     Waking, Waits
<1>2. /\ q \in Seq(WakersOf(side)) /\ WakersOf(side) \in SUBSET Wakers
      /\ Sorted(q) /\ WaitType /\ Range(q) \subseteq WakersOf(side)
  BY <1>1, RegIs
<1>3. /\ Sorted(p) /\ Range(p) \subseteq Range(q)
      /\ \A w \in Range(q) : w \in Range(p) \/ ~Alive(w)
            \/ state[w] >= WOKEN \/ seq[w] = seq[own[t]]
  <2>1. PICK oneshot \in BOOLEAN : oneshot = (pc[t] = "clear_one")
    BY ZenonT(60)
  <2>2. p = Cleared(q, own[t], oneshot)
    BY <2>1
  <2> HIDE DEF q, p
  <2> QED BY <1>2, <2>2, ClearedIs
<1>4. /\ Shrinks
      /\ \A w \in Wakers : Listed(w) => w \in Range(reg'[Side(w[1])]) \/ Goes(w)
  <2>1. CASE hasWaker[side]
    <3>1. /\ reg' = [reg EXCEPT ![side] = p]
          /\ hasWaker' = [hasWaker EXCEPT ![side] = p # <<>>]
      BY <2>1, ZenonT(60) DEF Clear, ClearWakers, SetFlag
    <3>2. /\ hasWaker'[side] = (p # <<>>)
          /\ \A d \in Sides : d # side => hasWaker'[d] = hasWaker[d]
      BY <1>1, <3>1 DEF TypeInv, WaitType
    <3> HIDE DEF side, p
    <3> QED BY <1>1, <1>3, <3>1, <3>2, ShrinkOne, ZenonT(60) DEF q
  <2>2. CASE ~hasWaker[side]
    <3>1. UNCHANGED <<reg, hasWaker>>
      BY <2>2, ZenonT(60) DEF Clear, ClearWakers
    <3> QED BY <1>1, <3>1, ZenonT(60) DEF Shrinks, WakerInv, OrderInv, Listed
  <2> QED BY <2>1, <2>2
<1> HIDE DEF q, p
<1>5. /\ pc'[t] = ret[t] /\ own'[t] = (IF ret[t] = "s_try" THEN Nil ELSE own[t])
      /\ \A u \in Threads : u # t => pc'[u] = pc[u] /\ own'[u] = own[u]
  BY DEF Clear, Goto, TypeInv, CallType
<1>6. ret[t] \in {"ok", "cancel", "timeout", "s_try"}
  BY DEF TypeInv, CallType
<1>7. /\ ret[t] \notin Waking /\ ret[t] \notin Waits /\ ret[t] \notin InFire
      /\ ret[t] \notin {"idle", "close", "gone", "s_first"} /\ ret[t] # "closed?"
      /\ ret[t] \in Reusing => ret[t] = "s_try"
  BY <1>6 DEF Waking, Waits, Reusing, InFire
<1>8. Alone(t) /\ StateMoves(t) /\ WakesMove(t)
  BY <1>1, <1>5, <1>7, ZenonT(60) DEF Alone, StateMoves, WakesMove
<1>9. CallMove(t)
  <2>1. Nil \notin Wakers
    BY ChannelAssumption DEF Wakers, Threads
  <2> QED BY <1>5, <1>7, <2>1, ZenonT(60) DEF CallMove
<1>10. Finds(t)
  <2> SUFFICES ASSUME NEW u \in Threads, pc[u] \in Waits, state[own[u]] <= WAITING,
                      Listed(own[u])
               PROVE  own[u] \in Range(reg'[Side(own[u][1])])
    BY <1>1, ZenonT(60) DEF Finds, Wakes
  <2>1. /\ own[u] \in Wakers /\ Alive(own[u]) /\ own[u][1] = u
        /\ state[own[u]] \in WakerStates
    BY WaiterOwns
  <2>2. ~(state[own[u]] >= WOKEN)
    BY <2>1, StateSplit
  <2>3. ASSUME Side(u) = side, seq[own[u]] = seq[own[t]] PROVE FALSE
    <3>1. seq[own[u]] > 0
      BY <2>1 DEF WakerInv, CallInv
    <3>2. own[u] = own[t]
      BY <1>1, <2>1, <2>3, <3>1, ZenonT(60) DEF WakerInv, SeqInv
    <3> QED BY <1>1, <2>1, <3>2
  <2>4. ~Goes(own[u])
    BY <2>1, <2>2, <2>3
  <2> HIDE DEF Goes
  <2> QED BY <1>4, <2>1, <2>4
<1> QED
  BY <1>4, <1>8, <1>9, <1>10 DEF Calm

(* commit_waiting.                                                         *)
LEMMA CommitCalm ==
  ASSUME TypeInv, WakerInv, NEW t \in Threads, CommitWaiting(t)
  PROVE  Calm(t)
<1>1. /\ pc[t] = "commit" /\ pc[t] \in Waits /\ pc[t] \notin Waking
      /\ UNCHANGED <<reg, regSeq, hasWaker, seq, own, held, ret>>
  BY DEF CommitWaiting, firing, Waits, Waking
<1>2. own[t] \in Wakers /\ state[own[t]] \in WakerStates
  BY <1>1, WaiterOwns
<1>3. /\ pc'[t] = "closed?"
      /\ \A u \in Threads : u # t => pc'[u] = pc[u] /\ seen'[u] = seen[u]
  BY DEF CommitWaiting, Goto, TypeInv, CallType
<1>4. /\ \/ state'[own[t]] = state[own[t]]
         \/ state[own[t]] = INIT /\ state'[own[t]] = WAITING
      /\ \A w \in Wakers : w # own[t] => state'[w] = state[w]
      /\ seen'[t] = state'[own[t]]
  BY <1>2 DEF CommitWaiting, TypeInv, WaitType, CallType
<1>5. Alone(t) /\ Shrinks
  BY <1>1, <1>3, ZenonT(60) DEF Alone, Shrinks, WakerInv, OrderInv
<1>6. INIT <= WAITING /\ WAITING # WOKEN /\ INIT # WOKEN
  BY DEF INIT, WAITING, WOKEN
<1>7. StateMoves(t)
  BY <1>4, <1>6, ZenonT(60) DEF StateMoves
<1>8. /\ "closed?" \notin Waking /\ "closed?" \notin Reusing /\ "closed?" \notin InFire
      /\ "closed?" \notin {"idle", "close", "gone", "s_first"}
  BY DEF Waking, Reusing, InFire
<1>9. WakesMove(t) /\ CallMove(t)
  BY <1>1, <1>3, <1>4, <1>8, ZenonT(60) DEF WakesMove, CallMove
<1>10. Finds(t)
  BY <1>1, ZenonT(60) DEF Finds, Listed, Wakes
<1> QED
  BY <1>5, <1>7, <1>9, <1>10 DEF Calm

(* A call that gives up closes its own waker, or passes its wakeup on.     *)
LEMMA TimeoutCalm ==
  ASSUME TypeInv, WakerInv, NEW t \in Threads, Timeout(t)
  PROVE  Calm(t)
<1>1. /\ pc[t] = "park" /\ pc[t] \in Waits /\ pc[t] \notin Waking /\ pc[t] \notin InFire
      /\ UNCHANGED <<reg, regSeq, hasWaker, seq, own, seen>>
  BY DEF Timeout, Abandon, Waits, Waking, InFire
<1>2. own[t] \in Wakers /\ state[own[t]] \in WakerStates
  BY <1>1, WaiterOwns
<1>3. CASE StartFire(t, Side(t), "timeout") /\ UNCHANGED state
  <2>1. Quiet(t, "f_first")
    BY <1>1, <1>3, StartFireQuiet
  <2> QED BY <2>1, QuietCalm
<1>4. CASE Goto(t, "timeout") /\ UNCHANGED <<state, firing, ret>>
  <2>1. /\ "timeout" \notin InFire /\ "timeout" \notin Waits /\ "timeout" \notin Reusing
        /\ "timeout" \notin {"idle", "close", "gone", "s_first"} /\ "timeout" # "closed?"
    BY DEF InFire, Waits, Reusing
  <2>2. Quiet(t, "timeout")
    BY <1>1, <1>4, <2>1, StepQuiet, ZenonT(60) DEF Goto, firing
  <2> QED BY <2>2, QuietCalm
<1>5. CASE /\ state[own[t]] <= WAITING /\ state' = [state EXCEPT ![own[t]] = CLOSED]
           /\ ret' = [ret EXCEPT ![t] = "timeout"] /\ Goto(t, "clear_all")
           /\ UNCHANGED firing
  <2>1. /\ pc'[t] = "clear_all" /\ held' = held
        /\ \A u \in Threads : u # t => pc'[u] = pc[u] /\ ret'[u] = ret[u]
    BY <1>5 DEF Goto, firing, TypeInv, CallType
  <2>2. /\ state'[own[t]] = CLOSED
        /\ \A w \in Wakers : w # own[t] => state'[w] = state[w]
    BY <1>2, <1>5 DEF TypeInv, WaitType
  <2>3. state[own[t]] # WOKEN /\ CLOSED # WOKEN /\ ~(CLOSED <= WAITING)
    BY <1>2, <1>5, StateSplit
  <2>4. /\ "clear_all" \notin Waking /\ "clear_all" \notin Waits
        /\ "clear_all" \notin Reusing /\ "clear_all" \notin InFire
        /\ "clear_all" # "closed?"
        /\ "clear_all" \notin {"idle", "close", "gone", "s_first"}
    BY DEF Waking, Waits, Reusing, InFire
  <2>5. Alone(t) /\ Shrinks
    BY <1>1, <2>1, ZenonT(60) DEF Alone, Shrinks, WakerInv, OrderInv
  <2>6. StateMoves(t)
    BY <2>2, <2>3, ZenonT(60) DEF StateMoves
  <2>7. WakesMove(t) /\ CallMove(t)
    BY <1>1, <2>1, <2>4, ZenonT(60) DEF WakesMove, CallMove
  <2>8. Finds(t)
    BY <1>1, ZenonT(60) DEF Finds, Listed, Wakes
  <2> QED
    BY <2>5, <2>6, <2>7, <2>8 DEF Calm
<1> QED
  BY <1>3, <1>4, <1>5, ZenonT(60) DEF Timeout, Abandon

(* Registry::close takes every waker out, and closes the ones that wait.   *)
LEMMA CloseCalm ==
  ASSUME TypeInv, WakerInv, NEW t \in Threads, Close(t)
  PROVE  Calm(t)
<1> DEFINE side == Other(Side(t))
           closing == {w \in Range(reg[side]) : Alive(w) /\ state[w] <= WAITING}
<1>1. /\ pc[t] = "close" /\ pc[t] \notin Waits /\ pc[t] \notin Waking /\ side \in Sides
      /\ UNCHANGED <<regSeq, seq, own, seen, held, ret>>
  BY SideType DEF Close, Waits, Waking, firing
<1>2. /\ pc'[t] = "gone" /\ own'[t] = Nil
      /\ \A u \in Threads : u # t => pc'[u] = pc[u]
  BY <1>1 DEF Close, Goto, TypeInv, CallType, WakerInv, CallInv
<1>3. \A w \in Wakers : state'[w] = (IF w \in closing THEN CLOSED ELSE state[w])
  BY ZenonT(60) DEF Close
<1>4. /\ Shrinks
      /\ \A w \in Wakers : Listed(w) =>
           w \in Range(reg'[Side(w[1])]) \/ w \in Range(reg[side])
  <2>1. /\ reg' = [reg EXCEPT ![side] = <<>>] /\ hasWaker'[side] = FALSE
        /\ \A d \in Sides : d # side => hasWaker'[d] = hasWaker[d]
    BY <1>1 DEF Close, TypeInv, WaitType
  <2>2. Sorted(<<>>) /\ Range(<<>>) = {}
    BY DEF Sorted, Range
  <2>3. hasWaker'[side] = (<<>> # <<>>)
    BY <2>1, ZenonT(60)
  <2> HIDE DEF side
  <2> QED BY <1>1, <2>1, <2>2, <2>3, ShrinkOne, ZenonT(60)
<1>5. /\ "gone" \notin Waking /\ "gone" \notin Waits /\ "gone" \notin Reusing
      /\ "gone" \notin InFire /\ "gone" # "closed?"
  BY DEF Waking, Waits, Reusing, InFire
<1>6. Alone(t) /\ WakesMove(t) /\ CallMove(t)
  BY <1>1, <1>2, <1>5, ZenonT(60) DEF Alone, WakesMove, CallMove
<1>7. ASSUME NEW w \in Wakers
      PROVE  /\ state[w] \in WakerStates
             /\ w \in closing => state[w] # WOKEN /\ state'[w] = CLOSED
             /\ w \notin closing => state'[w] = state[w]
  <2>1. state[w] \in WakerStates
    BY ZenonT(60) DEF TypeInv, WaitType
  <2> QED BY <1>3, <2>1, StateSplit
<1>8. CLOSED # WOKEN /\ ~(CLOSED <= WAITING)
  BY DEF CLOSED, WOKEN, WAITING
<1>9. StateMoves(t)
  <2> HIDE DEF closing
  <2> QED BY <1>7, <1>8, ZenonT(60) DEF StateMoves
<1>10. Finds(t)
  <2> SUFFICES ASSUME NEW u \in Threads, pc[u] \in Waits, state'[own[u]] <= WAITING,
                      Listed(own[u])
               PROVE  own[u] \in Range(reg'[Side(own[u][1])])
    BY <1>1, ZenonT(60) DEF Finds, Wakes
  <2>1. own[u] \in Wakers /\ Alive(own[u])
    BY WaiterOwns
  <2>2. own[u] \notin closing /\ state[own[u]] <= WAITING
    BY <1>7, <1>8, <2>1
  <2> QED BY <1>4, <2>1, <2>2
<1> QED
  BY <1>4, <1>6, <1>9, <1>10 DEF Calm

-----------------------------------------------------------------------------
(* reg_waker *)

(* The waker that reg_waker puts into the registry is in none, is the      *)
(* o_waker of no other call, and nobody is about to wake it: it is new, or *)
(* it has been woken.                                                      *)
LEMMA RegisteredIs ==
  ASSUME TypeInv, WakerInv, NEW t \in Threads, pc[t] \in {"r_reg", "s_reg"},
         WakerAvailable(t),
         NEW w, w = (IF own[t] = Nil THEN NewWaker(t) ELSE own[t])
  PROVE  /\ w \in Wakers /\ w[1] = t
         /\ ~Listed(w) /\ \A f \in Threads : ~Wakes(f, w)
         /\ \A u \in Threads : u # t => own[u] # w
<1>1. Side(t) \in Sides
  BY SideType
<1>2. /\ w \in Wakers /\ w[1] = t
      /\ ~Listed(w) /\ \A f \in Threads : ~Wakes(f, w)
  <2>1. CASE own[t] = Nil
    <3>1. PICK i \in Ids : ~InUse(<<t, i>>) /\ w = <<t, i>>
      BY <2>1, ZenonT(60) DEF WakerAvailable, NewWaker
    <3>2. w \in Wakers /\ w[1] = t /\ ~InUse(w)
      BY <3>1 DEF Wakers
    <3> QED BY <1>1, <3>2 DEF InUse, Alive, Listed, Wakes
  <2>2. CASE own[t] # Nil
    <3>1. w = own[t] /\ w \in Wakers /\ w[1] = t
      BY <2>2 DEF TypeInv, CallType, ControlInv, OwnInv
    <3>2. state[w] = WOKEN
      BY <3>1 DEF WakerInv, ReuseInv, Reusing
    <3> QED BY <3>1, <3>2 DEF WakerInv, WokenInv
  <2> QED BY <2>1, <2>2
<1>3. ASSUME NEW u \in Threads, own[u] = w PROVE u = t
  BY <1>2, <1>3 DEF TypeInv, ControlInv, OwnInv
<1> QED
  BY <1>2, <1>3

(* A waker with a seq above all the others of its queue goes to the end.   *)
LEMMA AppendSorted ==
  ASSUME WaitType, WaitType', NEW S \in SUBSET Wakers, NEW q \in Seq(S), Sorted(q),
         NEW w \in Wakers, \A v \in S : seq[v] < seq'[w], seq'[w] > 0,
         \A v \in Range(q) : seq'[v] = seq[v]
  PROVE  Sorted(Append(q, w))'
<1> DEFINE p == Append(q, w)
<1>1. /\ Len(p) = Len(q) + 1 /\ Len(q) \in Nat
      /\ \A i \in 1..Len(q) : p[i] = q[i] /\ q[i] \in S /\ q[i] \in Range(q)
      /\ p[Len(q) + 1] = w
  BY DEF Range
<1> HIDE DEF p
<1>2. ASSUME NEW i \in 1..Len(p), NEW j \in 1..Len(p)
      PROVE  seq'[p[i]] > 0 /\ (i < j => seq'[p[i]] < seq'[p[j]])
  <2>1. CASE i = Len(q) + 1
    BY <1>1, <2>1
  <2>2. CASE i \in 1..Len(q)
    <3>1. /\ p[i] = q[i] /\ q[i] \in Wakers /\ seq'[p[i]] = seq[q[i]] /\ seq[q[i]] > 0
          /\ seq[q[i]] < seq'[w]
      BY <1>1, <2>2 DEF Sorted
    <3>2. CASE j = Len(q) + 1
      BY <1>1, <3>1, <3>2
    <3>3. CASE j \in 1..Len(q)
      <4>1. p[j] = q[j] /\ seq'[p[j]] = seq[q[j]]
        BY <1>1, <3>3
      <4>2. i < j => seq[q[i]] < seq[q[j]]
        BY <2>2, <3>3 DEF Sorted
      <4> QED BY <3>1, <4>1, <4>2
    <3> QED BY <1>1, <3>2, <3>3
  <2> QED BY <1>1, <2>1, <2>2
<1> QED
  BY <1>2, ZenonT(60) DEF Sorted, p

(* Thread t registers waker w, and goes to label l.                        *)
Registers(t, w, l) ==
  /\ w = (IF own[t] = Nil THEN NewWaker(t) ELSE own[t])
  /\ pc[t] \in {"r_reg", "s_reg"} /\ WakerAvailable(t)
  /\ RegWaker(t, w)
  /\ own' = [own EXCEPT ![t] = w]
  /\ Goto(t, l)
  /\ UNCHANGED <<queue, count, nops, seen, firing, ret>>

(* What it changes.                                                        *)
Registered(t, w, l) ==
  /\ state'[w] = INIT /\ \A v \in Wakers : v # w => state'[v] = state[v]
  /\ \A v \in Wakers : v # w => seq'[v] = seq[v]
  /\ own'[t] = w /\ pc'[t] = l
  /\ \A u \in Threads : u # t => own'[u] = own[u] /\ pc'[u] = pc[u]
  /\ Listed(w)' /\ \A v \in Wakers : v # w => (Listed(v)' <=> Listed(v))
  /\ \A f \in Threads, v \in Wakers : Wakes(f, v)' <=> Wakes(f, v)

LEMMA RegFrame ==
  ASSUME TypeInv, WakerInv, NEW t \in Threads, NEW l \in {"r_final", "s_check"},
         NEW w, Registers(t, w, l)
  PROVE  Registered(t, w, l)
<1> DEFINE side == Side(t)
<1>1. side \in Sides /\ \A v \in Wakers : Side(v[1]) \in Sides
  BY SideType DEF Wakers
<1>0. /\ RegWaker(t, w) /\ own' = [own EXCEPT ![t] = w] /\ Goto(t, l)
      /\ UNCHANGED firing /\ pc[t] \in {"r_reg", "s_reg"}
  BY ZenonT(60) DEF Registers
<1>2. w \in Wakers /\ w[1] = t
  BY RegisteredIs, ZenonT(60) DEF Registers
<1>3. /\ reg'[side] = Append(reg[side], w)
      /\ \A d \in Sides : d # side => reg'[d] = reg[d]
  BY <1>0, <1>1 DEF RegWaker, TypeInv, WaitType
<1>4. /\ state'[w] = INIT /\ \A v \in Wakers : v # w => state'[v] = state[v]
      /\ \A v \in Wakers : v # w => seq'[v] = seq[v]
  BY <1>0, <1>2 DEF RegWaker, TypeInv, WaitType
<1>5. /\ own'[t] = w /\ pc'[t] = l /\ held' = held
      /\ \A u \in Threads : u # t => own'[u] = own[u] /\ pc'[u] = pc[u]
  BY <1>0 DEF Goto, TypeInv, CallType, firing
<1>6. Range(Append(reg[side], w)) = Range(reg[side]) \cup {w}
  <2>1. reg[side] \in Seq(Wakers)
    BY <1>1 DEF TypeInv, WaitType
  <2> QED BY <1>2, <2>1, PushedMessages
<1>7. ASSUME NEW v \in Wakers PROVE Listed(v)' <=> Listed(v) \/ v = w
  <2>1. CASE Side(v[1]) = side
    <3>1. Range(reg'[Side(v[1])]) = Range(reg[Side(v[1])]) \cup {w}
      BY <1>3, <1>6, <2>1
    <3> QED BY <3>1 DEF Listed
  <2>2. CASE Side(v[1]) # side
    BY <1>1, <1>2, <1>3, <2>2 DEF Listed
  <2> QED BY <2>1, <2>2
<1>8. \A f \in Threads, v \in Wakers : Wakes(f, v)' <=> Wakes(f, v)
  <2>1. l \notin Waking /\ pc[t] \notin Waking
    BY <1>0 DEF Waking
  <2> QED BY <1>5, <2>1, ZenonT(60) DEF Wakes
<1> QED
  BY <1>2, <1>4, <1>5, <1>7, <1>8 DEF Registered

LEMMA RegKeeps ==
  ASSUME TypeInv, TypeInv', WakerInv, NEW t \in Threads, NEW l \in {"r_final", "s_check"},
         NEW w, Registers(t, w, l)
  PROVE  WakerInv'
<1> DEFINE side == Side(t)
           n == regSeq[side] + 1
<1>0. /\ held' = held /\ seen' = seen /\ ret' = ret /\ RegWaker(t, w)
      /\ pc[t] \in {"r_reg", "s_reg"}
  BY ZenonT(60) DEF Registers, firing
<1>1. /\ side \in Sides /\ regSeq[side] \in Nat /\ n \in Nat /\ n > 0
      /\ \A v \in Wakers : Side(v[1]) \in Sides /\ seq[v] \in Nat
  BY SideType DEF TypeInv, WaitType, Wakers
<1>2. /\ w \in Wakers /\ w[1] = t
      /\ ~Listed(w) /\ \A f \in Threads : ~Wakes(f, w)
      /\ \A u \in Threads : u # t => own[u] # w
  BY RegisteredIs, ZenonT(60) DEF Registers
<1>3. /\ reg'[side] = Append(reg[side], w) /\ hasWaker'[side] = TRUE
      /\ \A d \in Sides : d # side => reg'[d] = reg[d] /\ hasWaker'[d] = hasWaker[d]
  BY <1>0, <1>1 DEF RegWaker, TypeInv, WaitType, WakerInv, OrderInv
<1>4. /\ regSeq'[side] = n /\ \A d \in Sides : d # side => regSeq'[d] = regSeq[d]
      /\ seq'[w] = n /\ \A v \in Wakers : v # w => seq'[v] = seq[v]
  BY <1>0, <1>1, <1>2 DEF RegWaker, TypeInv, WaitType
<1>5. /\ state'[w] = INIT /\ \A v \in Wakers : v # w => state'[v] = state[v]
      /\ own'[t] = w /\ pc'[t] = l
      /\ \A u \in Threads : u # t => own'[u] = own[u] /\ pc'[u] = pc[u]
      /\ Listed(w)' /\ \A v \in Wakers : v # w => (Listed(v)' <=> Listed(v))
      /\ \A f \in Threads, v \in Wakers : Wakes(f, v)' <=> Wakes(f, v)
  <2>1. Registered(t, w, l)
    BY RegFrame, ZenonT(60)
  <2> QED BY <2>1, ZenonT(60) DEF Registered
<1>6. /\ own'[t] = w /\ pc'[t] = l /\ held' = held /\ seen' = seen /\ ret' = ret
      /\ \A u \in Threads : u # t => own'[u] = own[u] /\ pc'[u] = pc[u]
  BY <1>0, <1>5
<1>7. /\ l \notin Waking /\ l \notin Reusing /\ l \notin InFire /\ l # "closed?"
      /\ l \notin {"idle", "close", "gone", "s_first"} /\ pc[t] \notin Waking
  BY <1>0 DEF Waking, Reusing, InFire
<1>8. \A v \in Wakers : Side(v[1]) = side => seq[v] < n
  BY <1>1 DEF WakerInv, SeqInv
<1> HIDE DEF n
<1>9. SeqInv'
  <2> SUFFICES ASSUME NEW v \in Wakers, NEW x \in Wakers
               PROVE  /\ seq'[v] <= regSeq'[Side(v[1])]
                      /\ Side(v[1]) = Side(x[1]) /\ seq'[v] = seq'[x] /\ seq'[v] > 0
                           => v = x
    BY ZenonT(60) DEF SeqInv
  <2>1. /\ seq[v] <= regSeq[Side(v[1])]
        /\ Side(v[1]) = Side(x[1]) /\ seq[v] = seq[x] /\ seq[v] > 0 => v = x
    BY ZenonT(60) DEF WakerInv, SeqInv
  <2>2. seq'[v] <= regSeq'[Side(v[1])]
    <3>1. CASE v = w
      BY <1>1, <1>2, <1>4, <3>1
    <3>2. CASE v # w /\ Side(v[1]) = side
      BY <1>1, <1>4, <1>8, <3>2
    <3>3. CASE v # w /\ Side(v[1]) # side
      BY <1>1, <1>4, <2>1, <3>3
    <3> QED BY <3>1, <3>2, <3>3
  <2>3. ASSUME Side(v[1]) = Side(x[1]), seq'[v] = seq'[x], seq'[v] > 0, v # x
        PROVE  FALSE
    <3>1. CASE v = w
      <4>1. seq[x] = n /\ seq[x] < n
        BY <1>2, <1>4, <1>8, <2>3, <3>1
      <4> QED BY <1>1, <4>1
    <3>2. CASE x = w
      <4>1. seq[v] = n /\ seq[v] < n
        BY <1>2, <1>4, <1>8, <2>3, <3>2
      <4> QED BY <1>1, <4>1
    <3>3. CASE v # w /\ x # w
      BY <1>4, <2>1, <2>3, <3>3
    <3> QED BY <3>1, <3>2, <3>3
  <2> QED BY <2>2, <2>3
<1>10. OrderInv'
  <2> SUFFICES ASSUME NEW d \in Sides
               PROVE  hasWaker'[d] = (reg'[d] # <<>>) /\ Sorted(reg[d])'
    BY ZenonT(60) DEF OrderInv
  <2>1. /\ reg[d] \in Seq(WakersOf(d)) /\ WakersOf(d) \in SUBSET Wakers
        /\ Sorted(reg[d]) /\ WaitType /\ Range(reg[d]) \subseteq WakersOf(d)
    BY RegIs
  <2>2. ASSUME NEW v \in Range(reg[d]) PROVE seq'[v] = seq[v]
    <3>1. v \in Wakers /\ Side(v[1]) = d
      BY <2>1 DEF WakersOf
    <3> QED BY <1>2, <1>4, <3>1 DEF Listed
  <2>3. CASE d = side
    <3>1. \A v \in WakersOf(d) : seq[v] < seq'[w]
      BY <1>4, <1>8, <2>3 DEF WakersOf
    <3>2. seq'[w] > 0 /\ WaitType'
      BY <1>1, <1>4, ZenonT(60) DEF TypeInv
    <3>3. PICK q \in Seq(WakersOf(d)) : q = reg[d]
      BY <2>1
    <3>4. Sorted(Append(q, w))'
      <4>1. PICK S \in SUBSET Wakers : S = WakersOf(d)
        BY <2>1
      <4>2. /\ q \in Seq(S) /\ Sorted(q) /\ \A v \in Range(q) : seq'[v] = seq[v]
            /\ \A v \in S : seq[v] < seq'[w]
        BY <2>1, <2>2, <3>1, <3>3, <4>1
      <4> QED BY <1>2, <2>1, <3>2, <4>2, AppendSorted, ZenonT(60)
    <3>5. Append(q, w) # <<>>
      <4>1. Append(q, w) \in Seq(Wakers) /\ Len(Append(q, w)) = Len(q) + 1
        BY <1>2, <2>1
      <4> QED BY <4>1
    <3>6. reg'[d] = Append(q, w)
      BY <1>3, <2>3, <3>3
    <3> QED BY <1>3, <2>3, <3>4, <3>5, <3>6, ZenonT(60) DEF Sorted
  <2>4. CASE d # side
    <3>1. reg'[d] = reg[d] /\ hasWaker'[d] = hasWaker[d]
      BY <1>3, <2>4
    <3>2. \A i \in 1..Len(reg[d]) : seq'[reg[d][i]] = seq[reg[d][i]]
      BY <2>1, <2>2 DEF Range
    <3>3. Sorted(reg[d])'
      BY <2>1, <3>1, <3>2, ZenonT(60) DEF Sorted
    <3> QED BY <3>1, <3>3, ZenonT(60) DEF WakerInv, OrderInv
  <2> QED BY <2>3, <2>4
<1>11. CallInv'
  <2> SUFFICES ASSUME NEW u \in Threads
               PROVE  /\ own'[u] \in Wakers => seq'[own'[u]] > 0
                      /\ pc'[u] \in {"idle", "close", "gone", "s_first"} => own'[u] = Nil
                      /\ pc'[u] \in InFire => ret'[u] # "s_try"
    BY ZenonT(60) DEF CallInv, InFire
  <2>1. CASE u = t
    BY <1>1, <1>4, <1>6, <1>7, <2>1
  <2>2. CASE u # t
    <3>1. /\ own'[u] = own[u] /\ pc'[u] = pc[u] /\ ret'[u] = ret[u]
          /\ own[u] \in Wakers => seq'[own[u]] = seq[own[u]]
      BY <1>2, <1>4, <1>6, <2>2
    <3>2. /\ own[u] \in Wakers => seq[own[u]] > 0
          /\ pc[u] \in {"idle", "close", "gone", "s_first"} => own[u] = Nil
          /\ pc[u] \in InFire => ret[u] # "s_try"
      BY ZenonT(60) DEF WakerInv, CallInv
    <3> QED BY <3>1, <3>2, ZenonT(60)
  <2> QED BY <2>1, <2>2
<1>12. /\ Listed(w)' /\ \A v \in Wakers : v # w => (Listed(v)' <=> Listed(v))
       /\ \A f \in Threads, v \in Wakers : Wakes(f, v)' <=> Wakes(f, v)
  BY <1>5
<1>13. WakesInv'
  <2> SUFFICES ASSUME NEW f \in Threads, (pc[f] \in Waking)'
               PROVE  (/\ held[f] \in Wakers /\ ~Listed(held[f])
                       /\ \A g \in Threads : g # f => ~Wakes(g, held[f]))'
    BY DEF WakesInv
  <2>1. pc[f] \in Waking /\ held'[f] = held[f]
    BY <1>6, <1>7
  <2>2. PICK v \in Wakers : v = held[f]
    BY <2>1 DEF WakerInv, WakesInv
  <2>3. ~Listed(v) /\ \A g \in Threads : g # f => ~Wakes(g, v)
    BY <2>1, <2>2 DEF WakerInv, WakesInv
  <2>4. v # w
    BY <1>2, <2>1, <2>2 DEF Wakes
  <2>5. ~Listed(v)' /\ \A g \in Threads : g # f => ~Wakes(g, v)'
    BY <1>12, <2>3, <2>4
  <2> QED BY <2>1, <2>2, <2>5 DEF Listed, Wakes
<1>14. WokenInv'
  <2> SUFFICES ASSUME NEW u \in Threads, own'[u] \in Wakers, state'[own'[u]] = WOKEN
               PROVE  ~Listed(own[u])' /\ \A f \in Threads : ~Wakes(f, own[u])'
    BY DEF WokenInv
  <2>1. u # t
    BY <1>5, <1>6 DEF INIT, WOKEN
  <2>2. PICK v \in Wakers : v = own[u] /\ v = own'[u] /\ v # w /\ state[v] = WOKEN
    BY <1>2, <1>5, <1>6, <2>1
  <2>3. ~Listed(v) /\ \A f \in Threads : ~Wakes(f, v)
    BY <2>2 DEF WakerInv, WokenInv
  <2>4. ~Listed(v)' /\ \A f \in Threads : ~Wakes(f, v)'
    BY <1>12, <2>2, <2>3
  <2> QED BY <2>2, <2>4 DEF Listed, Wakes
<1>15. ReuseInv'
  <2> SUFFICES ASSUME NEW u \in Threads
               PROVE  /\ own'[u] \in Wakers /\ pc'[u] \in Reusing
                           => state'[own'[u]] = WOKEN
                      /\ pc'[u] = "closed?" /\ seen'[u] = WOKEN
                           => state'[own'[u]] = WOKEN
    BY ZenonT(60) DEF ReuseInv, Reusing
  <2>1. CASE u = t
    BY <1>6, <1>7, <2>1
  <2>2. CASE u # t
    <3>1. pc[u] = "closed?" => own[u] \in Wakers
      BY DEF TypeInv, ControlInv, OwnInv, NeedsOwn, Holding
    <3>2. /\ own'[u] = own[u] /\ pc'[u] = pc[u] /\ seen'[u] = seen[u]
          /\ own[u] \in Wakers => state'[own[u]] = state[own[u]]
      BY <1>2, <1>5, <1>6, <2>2
    <3> QED BY <3>1, <3>2, ZenonT(60) DEF WakerInv, ReuseInv
  <2> QED BY <2>1, <2>2
<1>16. WaitInv'
  <2> SUFFICES ASSUME NEW u \in Threads, pc'[u] \in Waits, state'[own'[u]] <= WAITING
               PROVE  Listed(own[u])' \/ \E f \in Threads : Wakes(f, own[u])'
    BY ZenonT(60) DEF WaitInv, Waits
  <2>1. CASE u = t
    BY <1>6, <1>12, <2>1 DEF Listed
  <2>2. CASE u # t
    <3>1. own[u] \in Wakers
      BY <1>6, <2>2, WaiterOwns
    <3>2. PICK v \in Wakers : v = own[u] /\ v = own'[u] /\ v # w
      BY <1>2, <1>6, <2>2, <3>1
    <3>3. Listed(v) \/ \E f \in Threads : Wakes(f, v)
      BY <1>5, <1>6, <2>2, <3>2 DEF WakerInv, WaitInv
    <3>4. Listed(v)' \/ \E f \in Threads : Wakes(f, v)'
      BY <1>12, <3>2, <3>3
    <3> QED BY <3>2, <3>4 DEF Listed, Wakes
  <2> QED BY <2>1, <2>2
<1> QED
  BY <1>9, <1>10, <1>11, <1>13, <1>14, <1>15, <1>16 DEF WakerInv

LEMMA RecvRegIs ==
  ASSUME NEW r, RecvReg(r)
  PROVE  \E w : Registers(r, w, "r_final")
<1>1. PICK w : /\ w = (IF own[r] = Nil THEN NewWaker(r) ELSE own[r])
               /\ RegWaker(r, w) /\ own' = [own EXCEPT ![r] = w]
  BY ZenonT(60) DEF RecvReg
<1>2. /\ pc[r] \in {"r_reg", "s_reg"} /\ WakerAvailable(r) /\ Goto(r, "r_final")
      /\ UNCHANGED <<queue, count, nops, seen, firing, ret>>
  BY DEF RecvReg
<1> QED
  BY <1>1, <1>2, ZenonT(60) DEF Registers

LEMMA SendRegIs ==
  ASSUME NEW s, SendReg(s)
  PROVE  \E w : Registers(s, w, "s_check")
<1>1. PICK w : /\ w = (IF own[s] = Nil THEN NewWaker(s) ELSE own[s])
               /\ RegWaker(s, w) /\ own' = [own EXCEPT ![s] = w]
  BY ZenonT(60) DEF SendReg
<1>2. /\ pc[s] \in {"r_reg", "s_reg"} /\ WakerAvailable(s) /\ Goto(s, "s_check")
      /\ UNCHANGED <<queue, count, nops, seen, firing, ret>>
  BY DEF SendReg
<1> QED
  BY <1>1, <1>2, ZenonT(60) DEF Registers

-----------------------------------------------------------------------------
(* Every step *)

LEMMA WakerInit == Init => WakerInv
<1> SUFFICES ASSUME Init PROVE WakerInv
  OBVIOUS
<1>1. /\ \A side \in Sides : reg[side] = <<>> /\ regSeq[side] = 0 /\ hasWaker[side] = FALSE
      /\ \A v \in Wakers : seq[v] = 0 /\ state[v] = INIT /\ Side(v[1]) \in Sides
      /\ \A t \in Threads : pc[t] \in {"idle", "gone"} /\ own[t] = Nil
  BY SideType DEF Init, Wakers
<1>2. Nil \notin Wakers
  BY ChannelAssumption DEF Wakers, Threads
<1>3. {"idle", "gone"} \cap (InFire \cup Waking \cup Reusing \cup Waits) = {}
      /\ "closed?" \notin {"idle", "gone"}
  BY DEF InFire, Waking, Reusing, Waits
<1>4. SeqInv
  BY <1>1 DEF SeqInv
<1>5. OrderInv
  <2>1. Sorted(<<>>)
    BY DEF Sorted
  <2> QED BY <1>1, <2>1, ZenonT(60) DEF OrderInv
<1>6. ASSUME NEW t \in Threads
      PROVE  /\ own[t] = Nil /\ own[t] \notin Wakers /\ pc[t] \notin InFire
             /\ pc[t] \notin Waking /\ pc[t] \notin Reusing /\ pc[t] \notin Waits
             /\ pc[t] # "closed?"
  BY <1>1, <1>2, <1>3
<1>7. CallInv /\ WakesInv /\ WokenInv /\ ReuseInv /\ WaitInv
  BY <1>6, ZenonT(60) DEF CallInv, WakesInv, WokenInv, ReuseInv, WaitInv
<1> QED
  BY <1>4, <1>5, <1>7 DEF WakerInv

(* Every step of a thread keeps the invariant.                             *)
LEMMA WakerStep == TypeInv /\ WakerInv /\ [Next]_vars => WakerInv'
<1> SUFFICES ASSUME TypeInv, WakerInv, [Next]_vars PROVE WakerInv'
  OBVIOUS
<1>1. TypeInv'
  BY TypeStep
<1>2. CASE UNCHANGED vars
  BY <1>2, ZenonT(60) DEF vars, waits, firing, WakerInv, SeqInv, OrderInv, Sorted,
     CallInv, WakesInv, WokenInv, ReuseInv, WaitInv, Wakes, Listed
<1>3. ASSUME NEW t \in Threads, CallStep(t) \/ Timeout(t) \/ Drop(t) \/ AddHandle(t)
      PROVE  WakerInv'
  <2>1. CASE \/ ReturnOk(t) \/ ReturnTimeout(t) \/ CancelWaker(t) \/ ClosedCheck(t)
             \/ Park(t) \/ Drop(t) \/ AddHandle(t)
    <3>1. \E k : Quiet(t, k)
      BY <2>1, CallQuiet
    <3> QED BY <1>1, <3>1, QuietCalm, CalmKeeps
  <2>2. CASE WakeLoad(t) \/ WakeStore(t) \/ WakeCas(t) \/ WakeUnpark(t)
    BY <1>1, <2>2, WakeCalm, CalmKeeps
  <2>3. CASE PopFirst(t) \/ PopAgain(t)
    BY <1>1, <2>3, PopCalm, CalmKeeps
  <2>4. CASE Clear(t) \/ CommitWaiting(t) \/ Timeout(t) \/ Close(t)
    BY <1>1, <2>4, ClearCalm, CommitCalm, TimeoutCalm, CloseCalm, CalmKeeps
  <2> QED
    BY <1>3, <2>1, <2>2, <2>3, <2>4, ZenonT(60) DEF CallStep, FireStep
<1>4. ASSUME NEW r \in Receivers, RecvStart(r) \/ RecvStep(r)
      PROVE  WakerInv'
  <2>1. r \in Threads
    BY SideType
  <2>2. CASE \/ RecvStart(r) \/ RecvTry(r) \/ RecvFinal(r) \/ RecvLast(r)
             \/ TryRecvClosed(r) \/ TryRecvPop(r)
    <3>1. \E k : Quiet(r, k)
      BY <2>2, RecvQuiet
    <3> QED BY <1>1, <2>1, <3>1, QuietCalm, CalmKeeps
  <2>3. CASE RecvReg(r)
    BY <1>1, <2>1, <2>3, RecvRegIs, RegKeeps
  <2> QED BY <1>4, <2>2, <2>3 DEF RecvStep
<1>5. ASSUME NEW s \in Senders, SendStart(s) \/ SendStep(s)
      PROVE  WakerInv'
  <2>1. s \in Threads
    BY SideType
  <2>2. CASE \/ SendStart(s) \/ SendFirst(s) \/ SendTry(s) \/ SenderDoubleCheck(s)
             \/ SendClosed(s) \/ CancelReuse(s) \/ SenderSnooze(s)
    <3>1. \E k : Quiet(s, k)
      BY <2>2, SendQuiet, SnoozeQuiet
    <3> QED BY <1>1, <2>1, <3>1, QuietCalm, CalmKeeps
  <2>3. CASE SendReg(s)
    BY <1>1, <2>1, <2>3, SendRegIs, RegKeeps
  <2> QED BY <1>5, <2>2, <2>3 DEF SendStep
<1> QED
  BY <1>2, <1>3, <1>4, <1>5, ZenonT(60) DEF Next, Terminated

LEMMA WakerInvariant == Spec => []WakerInv
<1>1. Init => WakerInv
  BY WakerInit
<1>2. TypeInv /\ WakerInv /\ [Next]_vars => WakerInv'
  BY WakerStep
<1> QED
  BY <1>1, <1>2, TypeInvariant, PTL DEF Spec

(* The lock-free flag of a registry says whether its queue is empty, and   *)
(* the registered wakers are in the order of their seq, so that pop_first  *)
(* may return on the flag without the lock, and _clear_wakers may stop at  *)
(* the first newer waker.                                                  *)
THEOREM RegistryStaysOrdered == Spec => []RegistryOrdered
<1>1. WakerInv => RegistryOrdered
  BY ZenonT(60) DEF WakerInv, OrderInv, Sorted, RegistryOrdered
<1> QED
  BY <1>1, WakerInvariant, PTL

(* A thread that waits in park() can be found by whoever must wake it: its *)
(* waker is registered, or in the hands of a fire() that is going to store *)
(* Woken to it.  No fire(), close or _clear_wakers of another call throws  *)
(* the waker of a waiting thread away.                                     *)
THEOREM WaiterStaysReachable == Spec => []WaiterReachable
<1>1. TypeInv /\ WakerInv => WaiterReachable
  <2> SUFFICES ASSUME TypeInv, WakerInv, NEW t \in Threads, pc[t] = "park",
                      state[own[t]] <= WAITING
               PROVE  \/ own[t] \in Range(reg[Side(t)])
                      \/ \E f \in Threads : /\ held[f] = own[t]
                                            /\ pc[f] \in {"f_load", "f_store", "f_cas"}
    BY ZenonT(60) DEF WaiterReachable
  <2>1. pc[t] \in Waits
    BY DEF Waits
  <2>2. own[t][1] = t
    BY <2>1, WaiterOwns
  <2>3. Listed(own[t]) \/ \E f \in Threads : Wakes(f, own[t])
    BY <2>1 DEF WakerInv, WaitInv
  <2> QED BY <2>2, <2>3 DEF Listed, Wakes, Waking
<1> QED
  BY <1>1, WakerInvariant, TypeInvariant, PTL

=============================================================================
