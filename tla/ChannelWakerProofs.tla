------------------------ MODULE ChannelWakerProofs -------------------------
(***************************************************************************)
(* Proofs about the registries of Channel: the flag and the order of the   *)
(* wakers (RegistryOrdered), and that a thread which waits can be found by *)
(* whoever must wake it (WaiterReachable).                                 *)
(***************************************************************************)
EXTENDS ChannelProofs

(* The provers of a leaf that names none, in this order, with time in      *)
(* seconds that is enough on a slow machine too.                           *)
USE ZenonT(4), SMTT(60), Z3T(60), ZenonT(60)

-----------------------------------------------------------------------------
(* The inductive invariant *)

(* A fire() that has popped w and not stored its new state yet.            *)
Waking == {"f_load", "f_store", "f_cas"}
Wakes(f, w) == pc[f] \in Waking /\ held[f] = w

Listed(w) == w \in Range(reg[Side(w[1])])

(* Dead entries are in order too: a waker is registered anew only when its *)
(* old entry is gone.                                                      *)
Sorted(q) ==
  \A i \in 1..Len(q) :
    /\ seq[q[i]] > 0
    /\ \A j \in 1..Len(q) : i < j => seq[q[i]] < seq[q[j]]

(* A seq is given out once, so _clear_wakers finds its own waker by it.    *)
SeqInv ==
  \A v \in Wakers :
    /\ seq[v] <= regSeq[Side(v[1])]
    /\ \A w \in Wakers :
         Side(v[1]) = Side(w[1]) /\ seq[v] = seq[w] /\ seq[v] > 0 => v = w

OrderInv ==
  \A side \in Sides : hasWaker[side] = (reg[side] # <<>>) /\ Sorted(reg[side])

(* A call begins without a waker, and gets one by registering.             *)
CallInv ==
  \A t \in Threads :
    /\ own[t] \in Wakers => seq[own[t]] > 0
    /\ pc[t] \in {"idle", "close", "gone", "s_first"} => own[t] = Nil
    /\ pc[t] \in InFire => ret[t] # "s_try"

(* One fire() wakes a waker, after it has taken it out of the registry.    *)
WakesInv ==
  \A f \in Threads : pc[f] \in Waking =>
    /\ held[f] \in Wakers /\ ~Listed(held[f])
    /\ \A g \in Threads : g # f => ~Wakes(g, held[f])

(* A call that finds its waker woken may register it again: nobody has an  *)
(* entry of it, or is going to store to it, any more.                      *)
WokenInv ==
  \A t \in Threads : own[t] \in Wakers /\ state[own[t]] = WOKEN =>
    ~Listed(own[t]) /\ \A f \in Threads : ~Wakes(f, own[t])

(* Only a woken waker is registered again.                                 *)
Reusing == {"r_try", "r_reg", "s_try", "s_reg"}
ReuseInv ==
  \A t \in Threads :
    /\ own[t] \in Wakers /\ pc[t] \in Reusing => state[own[t]] = WOKEN
    /\ pc[t] = "closed?" /\ seen[t] = WOKEN => state[own[t]] = WOKEN

(* From registering until it stops waiting, a call can be found.           *)
Waits == {"r_final", "s_check", "commit", "closed?", "park"}
WaitInv ==
  \A t \in Threads : pc[t] \in Waits /\ state[own[t]] <= WAITING =>
    Listed(own[t]) \/ \E f \in Threads : Wakes(f, own[t])

WakerInv == /\ SeqInv /\ OrderInv /\ CallInv
            /\ WakesInv /\ WokenInv /\ ReuseInv /\ WaitInv

-----------------------------------------------------------------------------
(* What the scans of a registry leave of it *)

(* The tail of a queue is in order, and its wakers are wakers of the queue.*)
LEMMA RestSorted ==
  ASSUME WaitType, NEW S \in SUBSET Wakers, NEW q \in Seq(S), Sorted(q),
         NEW i \in 0..Len(q)
  PROVE  /\ Sorted(Rest(q, i)) /\ Range(Rest(q, i)) \subseteq Range(q)
         /\ \A j \in 1..Len(q) : j > i => q[j] \in Range(Rest(q, i))
         /\ i > 0 => q[i] \notin Range(Rest(q, i))
<1> DEFINE r == Rest(q, i)
<1>1. /\ Len(r) = Len(q) - i /\ Len(q) \in Nat /\ i \in Nat
      /\ DOMAIN r = 1..Len(r) /\ DOMAIN q = 1..Len(q)
      /\ \A k \in 1..Len(r) : r[k] = q[k + i]
  BY DEF Rest
<1> HIDE DEF r
<1>2. \A k \in 1..Len(r) : k + i \in 1..Len(q)
  BY <1>1
<1>3. Sorted(r)
  <2> SUFFICES ASSUME NEW k \in 1..Len(r), NEW m \in 1..Len(r)
               PROVE  seq[r[k]] > 0 /\ (k < m => seq[r[k]] < seq[r[m]])
    BY DEF Sorted
  <2>1. k + i \in 1..Len(q) /\ m + i \in 1..Len(q) /\ (k < m => k + i < m + i)
    BY <1>1, <1>2
  <2>2. r[k] = q[k + i] /\ r[m] = q[m + i]
    BY <1>1
  <2> QED BY <2>1, <2>2, ZenonT(60) DEF Sorted
<1>4. Range(r) \subseteq Range(q)
  BY <1>1, <1>2 DEF Range
<1>5. ASSUME NEW j \in 1..Len(q), j > i
      PROVE  q[j] \in Range(r)
  <2>1. j - i \in 1..Len(r) /\ r[j - i] = q[j]
    BY <1>1, <1>5
  <2> QED BY <1>1, <2>1 DEF Range
<1>6. ASSUME i > 0, q[i] \in Range(r)
      PROVE  FALSE
  <2>1. PICK k \in 1..Len(r) : r[k] = q[i]
    BY <1>1, <1>6 DEF Range
  <2>2. k + i \in 1..Len(q) /\ i \in 1..Len(q) /\ i < k + i /\ q[k + i] = q[i]
    BY <1>1, <1>2, <1>6, <2>1
  <2>3. seq[q[i]] < seq[q[k + i]]
    BY <2>2 DEF Sorted
  <2>4. seq[q[i]] \in Nat
    BY <2>2 DEF WaitType
  <2> QED BY <2>2, <2>3, <2>4
<1> QED
  BY <1>3, <1>4, <1>5, <1>6 DEF r

(* The scan for an entry that upgrades stops at the first one.             *)
LEMMA FirstAliveIs ==
  ASSUME NEW S, NEW q \in Seq(S), NEW i, i = FirstAlive(q)
  PROVE  /\ i \in 1..(Len(q) + 1)
         /\ \A j \in 1..Len(q) : j < i => ~Alive(q[j])
         /\ i <= Len(q) => Alive(q[i])
<1> DEFINE T == {j \in 1..Len(q) : Alive(q[j])} \cup {Len(q) + 1}
<1>1. T \in SUBSET Nat /\ T # {} /\ T \subseteq 1..(Len(q) + 1)
  OBVIOUS
<1>2. i = Min(T)
  BY ZenonT(60) DEF FirstAlive
<1>3. i \in T /\ \A j \in T : i =< j
  BY <1>1, <1>2, MinIsLeast, ZenonT(60)
<1>4. i \in 1..(Len(q) + 1) /\ Len(q) \in Nat
  BY <1>1, <1>3
<1>5. ASSUME NEW j \in 1..Len(q), j < i, Alive(q[j]) PROVE FALSE
  <2>1. j \in T
    BY <1>5
  <2> QED BY <1>3, <1>4, <1>5, <2>1
<1>6. i <= Len(q) => Alive(q[i])
  <2>1. i <= Len(q) => i # Len(q) + 1
    BY <1>4
  <2> QED BY <1>3, <2>1
<1> QED
  BY <1>4, <1>5, <1>6

(* _clear_wakers drops no waker that waits, except the one it is given.    *)
LEMMA ClearedIs ==
  ASSUME WaitType, NEW S \in SUBSET Wakers, NEW q \in Seq(S), Sorted(q),
         NEW old, NEW oneshot \in BOOLEAN, NEW p, p = Cleared(q, old, oneshot)
  PROVE  /\ Sorted(p) /\ Range(p) \subseteq Range(q)
         /\ \A w \in Range(q) : w \in Range(p) \/ ~Alive(w)
               \/ state[w] >= WOKEN \/ seq[w] = seq[old]
<1> DEFINE T == {i \in 1..Len(q) : ~ScanPast(q[i], old, oneshot)}
                \cup {Len(q) + 1}
           stop == Min(T)
           Goes(w) == ~Alive(w) \/ state[w] >= WOKEN \/ seq[w] = seq[old]
<1>1. T \in SUBSET Nat /\ T # {} /\ T \subseteq 1..(Len(q) + 1)
  OBVIOUS
<1>2. stop \in T /\ \A j \in T : stop =< j
  BY <1>1, MinIsLeast, ZenonT(60)
<1>3. stop \in 1..(Len(q) + 1) /\ Len(q) \in Nat
  BY <1>1, <1>2
<1>4. ASSUME NEW j \in 1..Len(q), j < stop PROVE Goes(q[j])
  <2>1. j \notin T
    BY <1>2, <1>3, <1>4
  <2>2. ScanPast(q[j], old, oneshot)
    BY <2>1
  <2> QED BY <2>2, ZenonT(60) DEF ScanPast
<1>5. ASSUME NEW w \in Range(q) PROVE \E j \in 1..Len(q) : w = q[j]
  BY <1>5 DEF Range
<1>6. CASE stop > Len(q)
  <2>1. p = <<>>
    BY <1>6 DEF Cleared
  <2>2. \A j \in 1..Len(q) : Goes(q[j])
    BY <1>3, <1>4, <1>6
  <2>3. Sorted(p) /\ Range(p) = {}
    BY <2>1 DEF Sorted, Range
  <2> HIDE DEF Goes
  <2>4. \A w \in Range(q) : Goes(w)
    BY <1>5, <2>2
  <2> QED BY <2>3, <2>4, ZenonT(60) DEF Goes
<1>7. CASE stop <= Len(q) /\ ScanDrops(q[stop], old, oneshot)
  <2>1. p = Rest(q, stop)
    BY <1>3, <1>7 DEF Cleared
  <2>2. stop \in 0..Len(q)
    BY <1>3, <1>7
  <2>3. Goes(q[stop])
    BY <1>7, ZenonT(60) DEF ScanDrops
  <2>4. ASSUME NEW j \in 1..Len(q) PROVE Goes(q[j]) \/ q[j] \in Range(p)
    <3>1. j < stop \/ j = stop \/ j > stop
      BY <1>3
    <3> HIDE DEF stop, Goes
    <3> QED BY <1>4, <2>1, <2>2, <2>3, <3>1, RestSorted
  <2>5. Sorted(p) /\ Range(p) \subseteq Range(q)
    <3> HIDE DEF stop
    <3> QED BY <2>1, <2>2, RestSorted, ZenonT(60)
  <2> QED BY <1>5, <2>4, <2>5, ZenonT(60)
<1>8. CASE stop <= Len(q) /\ ~ScanDrops(q[stop], old, oneshot)
  <2>1. p = Rest(q, stop - 1)
    BY <1>3, <1>8 DEF Cleared
  <2>2. stop - 1 \in 0..Len(q)
    BY <1>3, <1>8
  <2>4. ASSUME NEW j \in 1..Len(q) PROVE Goes(q[j]) \/ q[j] \in Range(p)
    <3>1. j < stop \/ j > stop - 1
      BY <1>3
    <3> HIDE DEF stop, Goes
    <3> QED BY <1>4, <2>1, <2>2, <3>1, RestSorted
  <2>5. Sorted(p) /\ Range(p) \subseteq Range(q)
    <3> HIDE DEF stop
    <3> QED BY <2>1, <2>2, RestSorted, ZenonT(60)
  <2> QED BY <1>5, <2>4, <2>5, ZenonT(60)
<1> QED
  BY <1>3, <1>6, <1>7, <1>8

-----------------------------------------------------------------------------
(* What every step but a registration does to the registries, the states   *)
(* of the wakers and the threads, and that this keeps the invariant        *)

(* No thread but t goes on.                                                *)
Alone(t) ==
  \A u \in Threads : u # t =>
    /\ pc'[u] = pc[u] /\ own'[u] = own[u] /\ held'[u] = held[u]
    /\ seen'[u] = seen[u] /\ ret'[u] = ret[u]

(* A registry loses entries only.                                          *)
Shrinks ==
  /\ UNCHANGED <<regSeq, seq>>
  /\ \A side \in Sides :
       /\ hasWaker'[side] = (reg'[side] # <<>>)
       /\ Sorted(reg'[side]) /\ Range(reg'[side]) \subseteq Range(reg[side])

(* A waker gets woken only by the fire() that wakes it, stays woken, and   *)
(* does not get back to waiting.                                           *)
StateMoves(t) ==
  \A w \in Wakers :
    /\ state'[w] = WOKEN => state[w] = WOKEN \/ (Wakes(t, w) /\ pc'[t] \notin Waking)
    /\ state[w] = WOKEN => state'[w] = WOKEN
    /\ state'[w] <= WAITING => state[w] <= WAITING

(* The waker of a fire() is the one it had, or was in a registry before.   *)
WakesMove(t) ==
  pc'[t] \in Waking =>
    \/ pc[t] \in Waking /\ held'[t] = held[t]
    \/ /\ held'[t] \in Wakers /\ Listed(held'[t])
       /\ held'[t] \notin Range(reg'[Side(held'[t][1])])

CallMove(t) ==
  /\ own'[t] = own[t] \/ own'[t] = Nil
  /\ pc'[t] \in Waits => pc[t] \in Waits /\ own'[t] = own[t]
  /\ pc'[t] \in Reusing /\ own'[t] \in Wakers => state'[own'[t]] = WOKEN
  /\ pc'[t] = "closed?" /\ seen'[t] = WOKEN => state'[own'[t]] = WOKEN
  /\ pc'[t] \in {"idle", "close", "gone", "s_first"} => own'[t] = Nil
  /\ pc'[t] \in InFire => ret'[t] # "s_try"

(* A call that goes on waiting can still be found.                         *)
Finds(t) ==
  \A u \in Threads :
    pc[u] \in Waits /\ pc'[u] \in Waits /\ state'[own[u]] <= WAITING =>
      /\ Listed(own[u]) => \/ own[u] \in Range(reg'[Side(own[u][1])])
                           \/ pc'[t] \in Waking /\ held'[t] = own[u]
      /\ Wakes(t, own[u]) => pc'[t] \in Waking /\ held'[t] = own[u]

Calm(t) == /\ Alone(t) /\ Shrinks /\ StateMoves(t)
           /\ WakesMove(t) /\ CallMove(t) /\ Finds(t)

LEMMA CalmKeeps ==
  ASSUME TypeInv, TypeInv', WakerInv, NEW t \in Threads, Calm(t)
  PROVE  WakerInv'
<1> USE DEF WakerInv, Calm
<1>1. SeqInv' /\ OrderInv'
  BY ZenonT(60) DEF Shrinks, SeqInv, OrderInv, Sorted
<1>2. CallInv'
  <2> SUFFICES ASSUME NEW u \in Threads
               PROVE  /\ own'[u] \in Wakers => seq'[own'[u]] > 0
                      /\ pc'[u] \in {"idle", "close", "gone", "s_first"} => own'[u] = Nil
                      /\ pc'[u] \in InFire => ret'[u] # "s_try"
    BY ZenonT(60) DEF CallInv, InFire
  <2>1. Nil \notin Wakers
    BY ChannelAssumption DEF Wakers, Threads
  <2>2. CASE u = t
    BY <2>1, <2>2, ZenonT(60) DEF Shrinks, CallMove, CallInv
  <2>3. CASE u # t
    BY <2>3, ZenonT(60) DEF Shrinks, Alone, CallInv
  <2> QED BY <2>2, <2>3
<1>3. \A w \in Wakers : Listed(w)' => Listed(w)
  BY SideType DEF Shrinks, Listed, Wakers
<1>4. ASSUME NEW f \in Threads, f # t PROVE \A w : Wakes(f, w)' <=> Wakes(f, w)
  BY <1>4 DEF Alone, Wakes
<1>5. \A w \in Wakers : Wakes(t, w)' => Wakes(t, w) \/ (Listed(w) /\ ~Listed(w)')
  BY DEF WakesMove, Wakes, Listed
<1>6. WakesInv'
  <2> SUFFICES ASSUME NEW f \in Threads, (pc[f] \in Waking)'
               PROVE  (/\ held[f] \in Wakers /\ ~Listed(held[f])
                       /\ \A g \in Threads : g # f => ~Wakes(g, held[f]))'
    BY DEF WakesInv
  <2>1. held'[f] \in Wakers
    BY DEF Alone, WakesMove, WakesInv
  <2>2. PICK w \in Wakers : w = held'[f]
    BY <2>1
  <2>0. Wakes(f, w)'
    BY <2>2 DEF Wakes
  <2>3. ~Listed(w)'
    <3>1. CASE Wakes(f, w)
      BY <1>3, <3>1 DEF Wakes, WakesInv
    <3>2. CASE ~Wakes(f, w)
      BY <1>4, <1>5, <2>0, <3>2
    <3> QED BY <3>1, <3>2
  <2>4. ASSUME NEW g \in Threads, g # f, Wakes(g, w)' PROVE FALSE
    <3>1. CASE Wakes(f, w) /\ Wakes(g, w)
      BY <2>4, <3>1 DEF Wakes, WakesInv
    <3>2. CASE ~Wakes(f, w)
      <4>1. f = t /\ Listed(w)
        BY <1>4, <1>5, <2>0, <3>2
      <4>2. Wakes(g, w)
        BY <1>4, <2>4, <4>1
      <4> QED BY <4>1, <4>2 DEF Wakes, WakesInv
    <3>3. CASE ~Wakes(g, w)
      <4>1. g = t /\ Listed(w)
        BY <1>4, <1>5, <2>4, <3>3
      <4>2. Wakes(f, w)
        BY <1>4, <2>0, <2>4, <4>1
      <4> QED BY <4>1, <4>2 DEF Wakes, WakesInv
    <3> QED BY <3>1, <3>2, <3>3
  <2> QED BY <2>1, <2>2, <2>3, <2>4 DEF Listed, Wakes
<1>7. ASSUME NEW u \in Threads, own'[u] \in Wakers
      PROVE  own'[u] = own[u]
  <2>1. Nil \notin Wakers
    BY ChannelAssumption DEF Wakers, Threads
  <2> QED BY <1>7, <2>1 DEF Alone, CallMove
<1>8. WokenInv'
  <2> SUFFICES ASSUME NEW u \in Threads, own'[u] \in Wakers, state'[own'[u]] = WOKEN
               PROVE  ~Listed(own[u])' /\ \A f \in Threads : ~Wakes(f, own[u])'
    BY DEF WokenInv
  <2>1. PICK w \in Wakers : own[u] = w /\ own'[u] = w /\ state'[w] = WOKEN
    BY <1>7
  <2>2. CASE state[w] = WOKEN
    <3>1. ~Listed(w) /\ \A f \in Threads : ~Wakes(f, w)
      BY <2>1, <2>2 DEF WokenInv
    <3>2. ~Listed(w)' /\ \A f \in Threads : ~Wakes(f, w)'
      BY <1>3, <1>4, <1>5, <3>1
    <3> QED BY <2>1, <3>2 DEF Listed, Wakes
  <2>3. CASE state[w] # WOKEN
    <3>1. Wakes(t, w) /\ pc'[t] \notin Waking
      BY <2>1, <2>3 DEF StateMoves
    <3>2. ~Listed(w) /\ \A g \in Threads : g # t => ~Wakes(g, w)
      BY <3>1 DEF Wakes, WakesInv
    <3>3. ~Wakes(t, w)'
      BY <3>1 DEF Wakes
    <3>4. ~Listed(w)' /\ \A f \in Threads : ~Wakes(f, w)'
      BY <1>3, <1>4, <3>2, <3>3
    <3> QED BY <2>1, <3>4 DEF Listed, Wakes
  <2> QED BY <2>2, <2>3
<1>9. ReuseInv'
  <2> SUFFICES ASSUME NEW u \in Threads
               PROVE  /\ own'[u] \in Wakers /\ pc'[u] \in Reusing
                           => state'[own'[u]] = WOKEN
                      /\ pc'[u] = "closed?" /\ seen'[u] = WOKEN
                           => state'[own'[u]] = WOKEN
    BY ZenonT(60) DEF ReuseInv, Reusing
  <2>1. CASE u = t
    BY <2>1 DEF CallMove
  <2>2. CASE u # t
    <3>1. pc[u] = "closed?" => own[u] \in Wakers
      BY DEF TypeInv, ControlInv, OwnInv, NeedsOwn, Holding
    <3> QED BY <2>2, <3>1 DEF Alone, ReuseInv, StateMoves
  <2> QED BY <2>1, <2>2
<1>10. WaitInv'
  <2> SUFFICES ASSUME NEW u \in Threads, pc'[u] \in Waits, state'[own'[u]] <= WAITING
               PROVE  Listed(own[u])' \/ \E f \in Threads : Wakes(f, own[u])'
    BY ZenonT(60) DEF WaitInv, Waits
  <2>1. pc[u] \in Waits /\ own'[u] = own[u]
    BY DEF Alone, CallMove
  <2>0. own[u] \in Wakers
    BY <2>1 DEF TypeInv, ControlInv, OwnInv, NeedsOwn, Holding, Waits
  <2>2. PICK w \in Wakers : w = own[u]
    BY <2>0
  <2>3. Listed(w) \/ \E f \in Threads : Wakes(f, w)
    BY <2>1, <2>2 DEF StateMoves, WaitInv
  <2>4. Listed(w) => Listed(w)' \/ Wakes(t, w)'
    BY <2>1, <2>2 DEF Finds, Listed, Wakes
  <2>5. Wakes(t, w) => Wakes(t, w)'
    BY <2>1, <2>2 DEF Finds, Wakes
  <2>6. Listed(w)' \/ \E f \in Threads : Wakes(f, w)'
    BY <1>4, <2>3, <2>4, <2>5
  <2> QED BY <2>1, <2>2, <2>6 DEF Listed, Wakes
<1> QED
  BY <1>1, <1>2, <1>6, <1>8, <1>9, <1>10

-----------------------------------------------------------------------------
(* The steps that leave the registries and the states of the wakers alone  *)

Others(t) ==
  \A u \in Threads : u # t => /\ own'[u] = own[u] /\ held'[u] = held[u]
                              /\ seen'[u] = seen[u] /\ ret'[u] = ret[u]

(* Thread t goes to label k, and what that needs.                          *)
Quiet(t, k) ==
  /\ pc' = [pc EXCEPT ![t] = k]
  /\ Others(t)
  /\ UNCHANGED <<reg, regSeq, hasWaker, state, seq>>
  /\ k \in Waking => pc[t] \in Waking /\ held'[t] = held[t]
  /\ pc[t] \in Waking /\ k \notin Waking => state[held[t]] >= WOKEN
  /\ own'[t] = own[t] \/ own'[t] = Nil
  /\ k \in Waits => pc[t] \in Waits /\ own'[t] = own[t] /\ k # "closed?"
  /\ k \in Reusing /\ own'[t] \in Wakers => state[own[t]] = WOKEN
  /\ k \in {"idle", "close", "gone", "s_first"} => own'[t] = Nil
  /\ k \in InFire => ret'[t] # "s_try"

LEMMA QuietCalm ==
  ASSUME TypeInv, WakerInv, NEW t \in Threads, NEW k, Quiet(t, k)
  PROVE  Calm(t)
<1>1. pc'[t] = k /\ \A u \in Threads : u # t => pc'[u] = pc[u]
  BY DEF Quiet, TypeInv, CallType
<1>2. Alone(t)
  BY <1>1, ZenonT(60) DEF Alone, Quiet, Others
<1>3. Shrinks
  BY ZenonT(60) DEF Shrinks, Quiet, WakerInv, OrderInv
<1>4. StateMoves(t)
  BY ZenonT(60) DEF StateMoves, Quiet
<1>5. WakesMove(t)
  BY <1>1, ZenonT(60) DEF WakesMove, Quiet
<1>6. CallMove(t)
  <2>1. "closed?" \in Waits
    BY DEF Waits
  <2>2. Nil \notin Wakers
    BY ChannelAssumption DEF Wakers, Threads
  <2> QED BY <1>1, <2>1, <2>2, ZenonT(60) DEF CallMove, Quiet
<1>7. Finds(t)
  <2> SUFFICES ASSUME NEW u \in Threads, pc[u] \in Waits, state'[own[u]] <= WAITING
               PROVE  /\ Listed(own[u]) => own[u] \in Range(reg'[Side(own[u][1])])
                      /\ Wakes(t, own[u]) => pc'[t] \in Waking /\ held'[t] = own[u]
    BY ZenonT(60) DEF Finds
  <2>1. own[u] \in Wakers
    BY DEF TypeInv, ControlInv, OwnInv, NeedsOwn, Holding, Waits
  <2>2. state[own[u]] \in WakerStates
    BY <2>1, ZenonT(60) DEF TypeInv, WaitType
  <2>3. state[own[u]] <= WAITING
    BY ZenonT(60) DEF Quiet
  <2>6. ~(state[own[u]] >= WOKEN)
    BY <2>2, <2>3 DEF WakerStates, INIT, WAITING, WOKEN, CLOSED
  <2>4. Listed(own[u]) => own[u] \in Range(reg'[Side(own[u][1])])
    BY ZenonT(60) DEF Quiet, Listed
  <2>5. ASSUME Wakes(t, own[u]) PROVE pc'[t] \in Waking /\ held'[t] = own[u]
    BY <1>1, <2>6, <2>5, ZenonT(60) DEF Quiet, Wakes
  <2> QED BY <2>4, <2>5
<1> QED
  BY <1>2, <1>3, <1>4, <1>5, <1>6, <1>7 DEF Calm

(* A fire() that begins or ends leads to no point at which a call waits.   *)
LEMMA StartFireQuiet ==
  ASSUME TypeInv, NEW t \in Threads, NEW side, NEW then \in {"ok", "cancel", "timeout"},
         StartFire(t, side, then), pc[t] \notin Waking,
         UNCHANGED <<reg, regSeq, hasWaker, state, seq, own, seen>>
  PROVE  Quiet(t, "f_first")
<1>1. /\ "f_first" \notin Waking /\ "f_first" \notin Waits /\ "f_first" \notin Reusing
      /\ "f_first" \notin {"idle", "close", "gone", "s_first"}
  BY DEF Waking, Waits, Reusing
<1>2. pc' = [pc EXCEPT ![t] = "f_first"]
  BY DEF StartFire, Goto
<1>3. ret'[t] # "s_try" /\ Others(t)
  BY DEF StartFire, Others, TypeInv, CallType, FireType
<1> QED
  BY <1>1, <1>2, <1>3, ZenonT(60) DEF Quiet

LEMMA EndFireQuiet ==
  ASSUME TypeInv, WakerInv, NEW t \in Threads, EndFire(t), pc[t] \in InFire,
         pc[t] \in Waking => state[held[t]] >= WOKEN,
         UNCHANGED <<reg, regSeq, hasWaker, state, seq, own, seen, ret>>
  PROVE  Quiet(t, ret[t])
<1>1. ret[t] \in {"ok", "cancel", "timeout"}
  BY DEF TypeInv, CallType, WakerInv, CallInv
<1>2. /\ ret[t] \notin Waking /\ ret[t] \notin Waits /\ ret[t] \notin Reusing
      /\ ret[t] \notin {"idle", "close", "gone", "s_first"} /\ ret[t] \notin InFire
  BY <1>1 DEF Waking, Waits, Reusing, InFire
<1>3. Others(t) /\ pc' = [pc EXCEPT ![t] = ret[t]]
  BY DEF EndFire, Goto, Others, TypeInv, FireType
<1> QED
  BY <1>2, <1>3, ZenonT(60) DEF Quiet

LEMMA NotDoneQuiet ==
  ASSUME TypeInv, WakerInv, NEW t \in Threads, NotDone(t), pc[t] \in InFire,
         pc[t] \in Waking => state[held[t]] >= WOKEN,
         UNCHANGED <<reg, regSeq, hasWaker, state, seq, own, seen, ret>>
  PROVE  \E k : Quiet(t, k)
<1>1. CASE EndFire(t)
  BY <1>1, EndFireQuiet
<1>2. CASE ~EndFire(t)
  <2>1. Goto(t, "f_again") /\ held' = [held EXCEPT ![t] = Nil]
    BY <1>2 DEF NotDone
  <2>2. /\ "f_again" \notin Waking /\ "f_again" \notin Waits /\ "f_again" \notin Reusing
        /\ "f_again" \notin {"idle", "close", "gone", "s_first"}
    BY DEF Waking, Waits, Reusing
  <2>3. ret'[t] # "s_try" /\ Others(t) /\ pc' = [pc EXCEPT ![t] = "f_again"]
    BY <2>1 DEF Goto, Others, TypeInv, FireType, WakerInv, CallInv
  <2>4. Quiet(t, "f_again")
    BY <2>2, <2>3, ZenonT(60) DEF Quiet
  <2> QED BY <2>4
<1> QED
  BY <1>1, <1>2

(* A call goes back to its loop on a woken waker only.                     *)
LEMMA OnStateGoes ==
  ASSUME NEW t, NEW s \in WakerStates, OnState(t, s)
  PROVE  \E k \in {"park", "s_try", "r_try", "s_closed", "r_last"} :
           /\ pc' = [pc EXCEPT ![t] = k]
           /\ k \in Reusing => s = WOKEN
           /\ k = "park" => s < WOKEN
<1>1. s < WOKEN \/ s = WOKEN \/ s > WOKEN
  BY DEF WakerStates, INIT, WAITING, WOKEN, CLOSED
<1>2. CASE s < WOKEN
  BY <1>2 DEF OnState, Goto, Reusing
<1>3. CASE s = WOKEN
  BY ZenonT(60), <1>3 DEF OnState, Goto, WOKEN
<1>4. CASE s > WOKEN
  BY ZenonT(60), <1>4 DEF OnState, Goto, Reusing, WakerStates, INIT, WAITING, WOKEN, CLOSED
<1> QED
  BY <1>1, <1>2, <1>3, <1>4

(* A thread that goes from one point of its call to another.               *)
LEMMA StepQuiet ==
  ASSUME TypeInv, WakerInv, NEW t \in Threads, NEW k, pc' = [pc EXCEPT ![t] = k],
         pc[t] \notin InFire, k \notin InFire, k # "closed?",
         k \in Waits => pc[t] \in Waits,
         k \in Reusing /\ own[t] \in Wakers => state[own[t]] = WOKEN,
         k \in {"idle", "close", "gone", "s_first"} => own[t] = Nil,
         UNCHANGED <<reg, regSeq, hasWaker, state, seq, own, held>>,
         \A u \in Threads : u # t => seen'[u] = seen[u] /\ ret'[u] = ret[u]
  PROVE  Quiet(t, k)
<1>1. Waking \subseteq InFire
  BY DEF Waking, InFire
<1> QED
  BY <1>1, ZenonT(60) DEF Quiet, Others

LEMMA ReturnQuiet ==
  ASSUME TypeInv, NEW t \in Threads, Return(t), pc[t] \notin InFire,
         UNCHANGED <<waits, seen, firing, ret>>
  PROVE  Quiet(t, "idle")
<1>1. /\ "idle" \notin Waking /\ "idle" \notin Waits /\ "idle" \notin Reusing
      /\ "idle" \notin InFire /\ pc[t] \notin Waking
  BY DEF Waking, Waits, Reusing, InFire
<1>2. own'[t] = Nil /\ \A u \in Threads : u # t => own'[u] = own[u]
  BY DEF Return, TypeInv, CallType
<1>3. pc' = [pc EXCEPT ![t] = "idle"]
  BY DEF Return, Goto
<1> QED
  BY <1>1, <1>2, <1>3, ZenonT(60) DEF Quiet, Others, waits, firing

(* The calls of both sides.                                                *)
LEMMA CallQuiet ==
  ASSUME TypeInv, WakerInv, NEW t \in Threads,
         \/ ReturnOk(t) \/ ReturnTimeout(t) \/ CancelWaker(t) \/ ClosedCheck(t)
         \/ Park(t) \/ Drop(t) \/ AddHandle(t)
  PROVE  \E k : Quiet(t, k)
<1>1. CASE ReturnOk(t) \/ ReturnTimeout(t)
  <2>1. Return(t) /\ pc[t] \notin InFire /\ UNCHANGED <<waits, seen, firing, ret>>
    BY <1>1 DEF ReturnOk, ReturnTimeout, InFire
  <2> QED BY <2>1, ReturnQuiet
<1>2. CASE CancelWaker(t)
  <2>1. PICK k \in {"ok", "clear_one"} : pc' = [pc EXCEPT ![t] = k]
    BY <1>2 DEF CancelWaker, Goto
  <2>2. /\ k \notin InFire /\ k # "closed?" /\ k \notin Waits /\ k \notin Reusing
        /\ k \notin {"idle", "close", "gone", "s_first"} /\ pc[t] \notin InFire
    BY <1>2, <2>1 DEF CancelWaker, InFire, Waits, Reusing
  <2>3. /\ UNCHANGED <<reg, regSeq, hasWaker, state, seq, own, held>>
        /\ \A u \in Threads : u # t => seen'[u] = seen[u] /\ ret'[u] = ret[u]
    BY <1>2 DEF CancelWaker, waits, firing, TypeInv, CallType
  <2> QED BY ZenonT(60), <2>1, <2>2, <2>3, StepQuiet
<1>3. CASE ClosedCheck(t) \/ Park(t)
  <2>1. own[t] \in Wakers /\ pc[t] \in Waits /\ pc[t] \notin InFire
    BY <1>3 DEF ClosedCheck, Park, TypeInv, ControlInv, OwnInv, NeedsOwn, Holding,
       Waits, InFire
  <2>2. state[own[t]] \in WakerStates /\ seen[t] \in WakerStates
    BY <2>1, ZenonT(60) DEF TypeInv, WaitType, CallType
  <2>3. PICK k \in {"park", "s_try", "r_try", "s_closed", "r_last"} :
          /\ pc' = [pc EXCEPT ![t] = k]
          /\ k \in Reusing => state[own[t]] = WOKEN
    <3>1. CASE Park(t)
      BY <2>2, <3>1, OnStateGoes DEF Park
    <3>2. CASE ClosedCheck(t) /\ OnState(t, seen[t])
      <4>1. seen[t] = WOKEN => state[own[t]] = WOKEN
        BY <3>2 DEF ClosedCheck, WakerInv, ReuseInv
      <4> QED BY <2>2, <3>2, <4>1, OnStateGoes
    <3>3. CASE ClosedCheck(t) /\ ~OnState(t, seen[t])
      BY <3>3 DEF ClosedCheck, Goto, Reusing
    <3> QED BY <1>3, <3>1, <3>2, <3>3
  <2>4. /\ k \notin InFire /\ k # "closed?"
        /\ k \notin {"idle", "close", "gone", "s_first"}
    BY DEF InFire
  <2>5. /\ UNCHANGED <<reg, regSeq, hasWaker, state, seq, own, held>>
        /\ \A u \in Threads : u # t => seen'[u] = seen[u] /\ ret'[u] = ret[u]
    BY <1>3 DEF ClosedCheck, Park, Local, Continues, waits, firing, TypeInv, CallType
  <2> QED BY ZenonT(60), <2>1, <2>3, <2>4, <2>5, StepQuiet
<1>4. CASE Drop(t) \/ AddHandle(t)
  <2>1. PICK k \in {"close", "gone", "idle"} : pc' = [pc EXCEPT ![t] = k]
    BY <1>4, ZenonT(60) DEF Drop, AddHandle, Goto
  <2>2. k \notin InFire /\ k # "closed?" /\ k \notin Waits /\ k \notin Reusing
    BY <2>1 DEF InFire, Waits, Reusing
  <2>3. own[t] = Nil /\ pc[t] \notin InFire
    BY <1>4 DEF Drop, AddHandle, WakerInv, CallInv, InFire
  <2>4. UNCHANGED <<reg, regSeq, hasWaker, state, seq, own, held, seen, ret>>
    BY <1>4, ZenonT(60) DEF Drop, AddHandle, waits, firing
  <2> QED BY ZenonT(60), <2>1, <2>2, <2>3, <2>4, StepQuiet
<1> QED
  BY <1>1, <1>2, <1>3, <1>4

(* The receivers.                                                          *)
LEMMA TakeQuiet ==
  ASSUME TypeInv, NEW t \in Threads, NEW then \in {"ok", "cancel"}, Take(t, then),
         pc[t] \notin InFire
  PROVE  Quiet(t, "f_first")
<1>1. StartFire(t, "tx", then) /\ then \in {"ok", "cancel", "timeout"}
  BY DEF Take
<1>2. UNCHANGED <<reg, regSeq, hasWaker, state, seq, own, seen>> /\ pc[t] \notin Waking
  BY ZenonT(60) DEF Take, waits, InFire, Waking
<1> QED
  BY <1>1, <1>2, StartFireQuiet

LEMMA RecvQuiet ==
  ASSUME TypeInv, WakerInv, NEW r \in Receivers,
         \/ RecvStart(r) \/ RecvTry(r) \/ RecvFinal(r) \/ RecvLast(r)
         \/ TryRecvClosed(r) \/ TryRecvPop(r)
  PROVE  \E k : Quiet(r, k)
<1>1. r \in Threads /\ pc[r] \notin InFire
  BY SideType
     DEF RecvStart, RecvTry, RecvFinal, RecvLast, TryRecvClosed, TryRecvPop, InFire
<1>2. CASE Take(r, "ok") \/ Take(r, "cancel")
  BY <1>1, <1>2, TakeQuiet
<1>3. CASE Return(r) /\ UNCHANGED <<waits, seen, firing, ret>>
  BY <1>1, <1>3, ReturnQuiet
<1>4. CASE /\ ~Take(r, "ok") /\ ~Take(r, "cancel")
           /\ ~(Return(r) /\ UNCHANGED <<waits, seen, firing, ret>>)
  <2>1. PICK k \in {"r_try", "t_closed", "r_reg", "commit", "r_last", "t_pop"} :
          /\ pc' = [pc EXCEPT ![r] = k]
          /\ k = "r_try" => pc[r] = "idle"
          /\ k = "r_reg" => pc[r] = "r_try"
          /\ k = "commit" => pc[r] = "r_final"
    BY <1>4, ZenonT(60) DEF RecvStart, RecvTry, RecvFinal, RecvLast, TryRecvClosed,
       TryRecvPop, Goto, Local
  <2>2. /\ k \notin InFire /\ k # "closed?" /\ (k \in Waits => pc[r] \in Waits)
        /\ k \notin {"idle", "close", "gone", "s_first"}
        /\ k \in Reusing => k = "r_try" \/ k = "r_reg"
    BY <2>1 DEF InFire, Waits, Reusing
  <2>3. k \in Reusing /\ own[r] \in Wakers => state[own[r]] = WOKEN
    <3>1. pc[r] = "idle" => own[r] \notin Wakers
      BY <1>1, ChannelAssumption DEF WakerInv, CallInv, Wakers, Threads
    <3>2. pc[r] = "r_try" /\ own[r] \in Wakers => state[own[r]] = WOKEN
      BY <1>1 DEF WakerInv, ReuseInv, Reusing
    <3> QED BY <2>1, <2>2, <3>1, <3>2
  <2>4. UNCHANGED <<reg, regSeq, hasWaker, state, seq, own, held, seen, ret>>
    BY <1>4, ZenonT(60) DEF RecvStart, RecvTry, RecvFinal, RecvLast, TryRecvClosed,
       TryRecvPop, Local, Continues, waits, firing
  <2> QED BY ZenonT(60), <1>1, <2>1, <2>2, <2>3, <2>4, StepQuiet
<1> QED
  BY <1>2, <1>3, <1>4

(* The senders.                                                            *)
LEMMA PushQuiet ==
  ASSUME TypeInv, NEW t \in Threads, NEW then \in {"ok", "cancel"}, Push(t, then),
         pc[t] \notin InFire
  PROVE  Quiet(t, "f_first")
<1>1. StartFire(t, "rx", then) /\ then \in {"ok", "cancel", "timeout"}
  BY DEF Push
<1>2. UNCHANGED <<reg, regSeq, hasWaker, state, seq, own, seen>> /\ pc[t] \notin Waking
  BY ZenonT(60) DEF Push, waits, InFire, Waking
<1> QED
  BY <1>1, <1>2, StartFireQuiet

LEMMA SendQuiet ==
  ASSUME TypeInv, WakerInv, NEW s \in Senders,
         \/ SendStart(s) \/ SendFirst(s) \/ SendTry(s) \/ SenderDoubleCheck(s)
         \/ SendClosed(s)
  PROVE  \E k : Quiet(s, k)
<1>1. s \in Threads /\ pc[s] \notin InFire
  BY SideType DEF SendStart, SendFirst, SendTry, SenderDoubleCheck, SendClosed, InFire
<1>2. CASE Push(s, "ok") \/ Push(s, "cancel")
  BY <1>1, <1>2, PushQuiet
<1>3. CASE SendClosed(s)
  BY <1>1, <1>3, ReturnQuiet DEF SendClosed
<1>4. CASE ~Push(s, "ok") /\ ~Push(s, "cancel") /\ ~SendClosed(s)
  <2>1. PICK k \in {"s_closed", "s_first", "s_try", "timeout", "s_reg", "commit",
                    "s_uncertain"} :
          /\ pc' = [pc EXCEPT ![s] = k]
          /\ k = "s_first" => pc[s] = "idle"
          /\ k = "s_try" => pc[s] = "s_first"
          /\ k = "s_reg" => pc[s] = "s_try"
          /\ k = "commit" => pc[s] = "s_check"
    BY <1>4, ZenonT(60) DEF SendStart, SendFirst, SendTry, SenderDoubleCheck, Goto
  <2>2. /\ k \notin InFire /\ k # "closed?" /\ (k \in Waits => pc[s] \in Waits)
        /\ k \in Reusing => k = "s_try" \/ k = "s_reg"
        /\ k \in {"idle", "close", "gone", "s_first"} => pc[s] = "idle"
    BY <2>1 DEF InFire, Waits, Reusing
  <2>3. pc[s] \in {"idle", "s_first"} => own[s] = Nil /\ own[s] \notin Wakers
    BY <1>1, ChannelAssumption DEF WakerInv, CallInv, Wakers, Threads
  <2>4. k \in Reusing /\ own[s] \in Wakers => state[own[s]] = WOKEN
    <3>1. pc[s] = "s_try" /\ own[s] \in Wakers => state[own[s]] = WOKEN
      BY <1>1 DEF WakerInv, ReuseInv, Reusing
    <3> QED BY <2>1, <2>2, <2>3, <3>1
  <2>5. UNCHANGED <<reg, regSeq, hasWaker, state, seq, own, held, seen, ret>>
    BY <1>4, ZenonT(60) DEF SendStart, SendFirst, SendTry, SenderDoubleCheck, Local,
       Continues, waits, firing
  <2> QED BY ZenonT(60), <1>1, <2>1, <2>2, <2>3, <2>4, <2>5, StepQuiet
<1> QED
  BY <1>2, <1>3, <1>4

(* A sender looks at its waker.                                            *)
LEMMA SnoozeQuiet ==
  ASSUME TypeInv, WakerInv, NEW s \in Senders, CancelReuse(s) \/ SenderSnooze(s)
  PROVE  \E k : Quiet(s, k)
<1>1. s \in Threads /\ pc[s] \notin InFire
  BY SideType DEF CancelReuse, SenderSnooze, InFire
<1>2. state[own[s]] \in WakerStates
  <2>1. own[s] \in Wakers
    BY <1>1 DEF CancelReuse, SenderSnooze, TypeInv, ControlInv, OwnInv, NeedsOwn, Holding
  <2> QED BY <2>1, ZenonT(60) DEF TypeInv, WaitType
<1>3. /\ UNCHANGED <<reg, regSeq, hasWaker, state, seq, own, held>>
      /\ \A u \in Threads : u # s => seen'[u] = seen[u] /\ ret'[u] = ret[u]
  BY DEF CancelReuse, SenderSnooze, Local, Continues, waits, firing, TypeInv, CallType
<1>4. PICK k \in {"s_try", "r_try", "s_closed", "r_last", "clear_one"} :
        pc' = [pc EXCEPT ![s] = k] /\ (k \in Reusing => state[own[s]] = WOKEN)
  <2>1. CASE state[own[s]] >= WOKEN
    <3>1. OnState(s, state[own[s]])
      BY <2>1, ZenonT(60) DEF CancelReuse, SenderSnooze
    <3>2. ~(state[own[s]] < WOKEN)
      BY <1>2, <2>1 DEF WakerStates, INIT, WAITING, WOKEN, CLOSED
    <3> QED BY <1>2, <3>1, <3>2, OnStateGoes, ZenonT(60)
  <2>2. CASE ~(state[own[s]] >= WOKEN)
    BY <2>2, ZenonT(60) DEF CancelReuse, SenderSnooze, Goto, Reusing
  <2> QED BY <2>1, <2>2
<1>5. /\ k \notin InFire /\ k # "closed?" /\ k \notin Waits
      /\ k \notin {"idle", "close", "gone", "s_first"}
  BY <1>4 DEF InFire, Waits
<1> QED
  BY ZenonT(60), <1>1, <1>3, <1>4, <1>5, StepQuiet

=============================================================================
