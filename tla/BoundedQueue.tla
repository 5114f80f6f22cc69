---------------------------- MODULE BoundedQueue ----------------------------
(***************************************************************************)
(* The six bounded queues a channel can be built on.  They are one ring    *)
(* with two positions, and differ in what is shared and who waits on what: *)
(*                                                                         *)
(*   flavor      claims a push by  a write waits  a push shows by          *)
(*   one         CAS of pos        for the stamp  the stamp                *)
(*   one_mpsc    CAS of pos        -              the stamp                *)
(*   one_spsc    -                 -              a store of pos           *)
(*   array       CAS of tail       -              the stamp                *)
(*   array_mpsc  CAS of sender     -              the stamp                *)
(*   array_spsc  -                 -              a store of sender        *)
(*                                                                         *)
(*   flavor      claims a pop by   a read waits   a pop frees by           *)
(*   one         CAS of pos        for the stamp  the stamp                *)
(*   one_mpsc    a store of pos    for the stamp  -                        *)
(*   one_spsc    a store of pos    -              -                        *)
(*   array       CAS of head       -              the stamp                *)
(*   array_mpsc  -                 for the stamp  a store of recv          *)
(*   array_spsc  -                 -              a store of recv          *)
(*                                                                         *)
(* Every access to a shared word is one step, in the order of the program  *)
(* and sequentially consistent.  A compare_exchange_weak that fails for no *)
(* reason is a reload at a later time in the loops, and a step of its own  *)
(* (Spurious) in try_push_oneshot, which does not loop.  A value is moved  *)
(* out of its slot by the read, so a second read would find Nil.           *)
(***************************************************************************)
EXTENDS Naturals, Sequences, FiniteSets, TLC

CONSTANTS Threads,    \* producers and consumers
          Calls,      \* [Flavors -> [Threads -> Nat]]: bound on the calls
          Menu,       \* [Flavors -> [Threads -> set of operations]]: who calls what
          Producers,  \* the threads that push; the others pop
          RingCap,    \* capacity of the array flavours
          OneWrap,    \* u16 and u32 positions of the one-slot flavours wrap here
          RingWrap,   \* positions of the array flavours wrap here
          Starts,     \* where the positions stand: 0 for a new queue
          Flavors,    \* the flavours the instance looks at
          Nil

VARIABLES flavor,     \* the queue looked at, never changes
          head, tail, \* the two positions: one word in the one-slot flavours
          hcache,     \* head_cached, in the word of tail (sender)
          tcache,     \* tail_cached, in the word of head (recv)
          stamp,      \* stamp of each slot
          slot,       \* value of each slot, Nil when uninitialised
          pc, op,     \* where each thread is, in which call
          nops,       \* calls made
          l,          \* what the call has loaded
          msg,        \* message being pushed, or the one just read
          ret,        \* answer of the last call
          dropped     \* history: what dropping the queue has dropped

ring   == <<head, tail, hcache, tcache>>
buffer == <<stamp, slot>>
local  == <<pc, l, msg, ret>>
calls  == <<flavor, op, nops>>
vars   == <<ring, buffer, local, calls, dropped>>

AllFlavors == {"one", "one_mpsc", "one_spsc",
               "array", "array_mpsc", "array_spsc"}
IsOne      == flavor \in {"one", "one_mpsc", "one_spsc"}
IsCached   == flavor \in {"array_mpsc", "array_spsc"}
PushClaims == flavor \notin {"one_spsc", "array_spsc"}
PopClaims  == ~IsCached

ASSUME BoundedQueueAssumption ==
  /\ Flavors \subseteq AllFlavors /\ Producers \subseteq Threads
  /\ RingCap \in Nat \ {0} /\ OneWrap \in Nat \ {0} /\ RingWrap \in Nat \ {0}
  /\ Calls \in [Flavors -> [Threads -> Nat]]
  /\ \A f \in Flavors, t, u \in Threads :      \* single sides stay single
       (t # u /\ Calls[f][t] > 0 /\ Calls[f][u] > 0) =>
         /\ f \in {"one_spsc", "array_spsc"}
              => {t, u} \cap Producers # {} /\ {t, u} \ Producers # {}
         /\ f \in {"one_mpsc", "array_mpsc"} => {t, u} \cap Producers # {}

-----------------------------------------------------------------------------
(* Positions.  An array position holds a lap above the index of a slot; a  *)
(* lap is the smallest power of two above the capacity.                    *)

Cap    == IF IsOne THEN 1 ELSE RingCap
Slots  == IF IsOne THEN {0, 1} ELSE 0 .. RingCap - 1
OneLap == CHOOSE n \in {1, 2, 4, 8, 16, 32} :
            n > RingCap /\ \A k \in {1, 2, 4, 8, 16, 32} : k > RingCap => n <= k
Wrap   == IF IsOne THEN OneWrap ELSE RingWrap

Add(p, n) == (p + n) % Wrap

\* The next position: the lap goes forward when the index wraps.
Succ(p) ==
  IF IsOne THEN Add(p, 1)
  ELSE LET index == p % OneLap
       IN  IF index + 1 < RingCap THEN p + 1 ELSE Add(p - index, OneLap)

\* The slot of a position: one_spsc writes to the slot of the new tail.
Index(p) == CASE flavor = "one_spsc" -> Add(p, 1) % 2
              [] IsOne               -> p % 2
              [] OTHER               -> p % OneLap

\* ArrayQueue::len and the computation Drop repeats.
LenOf(h, t) == LET hix == h % OneLap
                   tix == t % OneLap
               IN  IF hix < tix THEN tix - hix
                   ELSE IF hix > tix THEN RingCap - hix + tix
                   ELSE IF t = h THEN 0 ELSE RingCap

-----------------------------------------------------------------------------
(* What the queue holds, seen as a sequence.                               *)

\* The position n places ahead of p.
Ahead(p, n) ==
  IF IsOne THEN Add(p, n)
  ELSE LET index == p % OneLap
           far   == index + n
       IN  Add(p - index, OneLap * (far \div RingCap) + (far % RingCap))

\* The number of positions from head to tail.
Size == IF \E n \in 0 .. Cap : Ahead(head, n) = tail
        THEN CHOOSE n \in 0 .. Cap : Ahead(head, n) = tail
        ELSE Cap + 1

\* The message of a position: still with the producer that has claimed the
\* position, already with the consumer that has not yet freed it, or in the slot.
MsgAt(p) ==
  LET writers == {t \in Threads : PushClaims /\ pc[t] = "write" /\ l[t].tail = p}
      readers == {t \in Threads : ~PopClaims /\ pc[t] = "release" /\ l[t].head = p}
  IN  IF writers # {} THEN msg[CHOOSE t \in writers : TRUE]
      ELSE IF readers # {} THEN msg[CHOOSE t \in readers : TRUE]
      ELSE slot[Index(p)]

Items == [i \in 1 .. Size |-> MsgAt(Ahead(head, i - 1))]

-----------------------------------------------------------------------------
(* Calls and answers.                                                      *)

Goto(t, label) == pc' = [pc EXCEPT ![t] = label]

Load(t, loaded) == l' = [l EXCEPT ![t] = loaded @@ l[t]]

Blank == [head |-> 0, tail |-> 0, cached |-> 0, word |-> 0, size |-> 0]

Return(t, answer) == /\ ret' = [ret EXCEPT ![t] = answer]
                     /\ l' = [l EXCEPT ![t] = Blank]
                     /\ Goto(t, "idle")

\* The operations a flavour has of its own: elsewhere try_send_oneshot is the
\* same as try_send, and try_recv_cached the same as try_recv.
OneOps       == {"push", "pop", "is_full", "is_empty", "len"}
ArrayOps     == OneOps \cup {"oneshot"}
ArrayMpscOps == OneOps \cup {"oneshot", "pop_cached"}
ArraySpscOps == OneOps \cup {"pop_cached"}
Offered == CASE IsOne                 -> OneOps
             [] flavor = "array"      -> ArrayOps
             [] flavor = "array_mpsc" -> ArrayMpscOps
             [] flavor = "array_spsc" -> ArraySpscOps

\* A thread calls an operation of its side.
Start(t) ==
  /\ pc[t] = "idle" /\ dropped = Nil
  /\ nops[t] < Calls[flavor][t]
  /\ \E o \in Menu[flavor][t] \cap Offered :
       /\ op' = [op EXCEPT ![t] = o]
       /\ Goto(t, CASE o \in {"push", "oneshot"}   -> "push_load"
                    [] o \in {"pop", "pop_cached"} -> "pop_load"
                    [] OTHER                       -> "query")
  /\ nops' = [nops EXCEPT ![t] = @ + 1]
  /\ msg' = [msg EXCEPT ![t] = IF t \in Producers THEN <<t, nops'[t]>> ELSE Nil]
  /\ ret' = [ret EXCEPT ![t] = Nil]
  /\ UNCHANGED <<flavor, ring, buffer, l, dropped>>

\* Where a push goes once it knows that there is room.
Room(t) == Goto(t, IF PushClaims THEN "claim" ELSE "write")

-----------------------------------------------------------------------------
(* Push: One::_try_push, OneMpsc::_try_push, OneSp::try_push,              *)
(* ArrayQueue::push_with_ptr and try_push_oneshot with _try_push, and the  *)
(* same of ArrayQueueMpsc and ArrayQueueSpsc.                              *)

\* The words a push looks at first, when it begins and after a lost CAS.
PushLookOne(t) ==
  IF head # tail THEN Return(t, <<"full">>)
  ELSE Load(t, [head |-> head, tail |-> tail]) /\ Room(t) /\ UNCHANGED ret

\* try_push_oneshot looks at the head first, push_with_ptr at the stamp.
PushLookArray(t) ==
  /\ Load(t, [tail |-> tail])
  /\ Goto(t, IF op[t] = "oneshot" /\ pc[t] = "push_load" THEN "full" ELSE "stamp")
  /\ UNCHANGED ret

PushLookCached(t) ==
  /\ Load(t, [tail |-> tail, cached |-> hcache, word |-> hcache])
  /\ IF Add(hcache, OneLap) = tail THEN Goto(t, "full") ELSE Room(t)
  /\ UNCHANGED ret

PushLook(t) == CASE IsOne            -> PushLookOne(t)
                 [] flavor = "array" -> PushLookArray(t)
                 [] IsCached         -> PushLookCached(t)

PushLoad(t) ==
  /\ pc[t] = "push_load"
  /\ PushLook(t)
  /\ UNCHANGED <<ring, buffer, calls, msg, dropped>>

\* Mutant: a head cached in an earlier lap is believed.
CheckFullStale(t) ==
  /\ pc[t] = "full"
  /\ Return(t, <<"full">>)
  /\ UNCHANGED <<ring, buffer, calls, msg, dropped>>
\* check_full!, and the look at recv of the queues that cache the head.
FullArray(t) ==
  IF Add(head, OneLap) = l[t].tail THEN Return(t, <<"full">>)
  ELSE /\ Goto(t, IF op[t] = "oneshot" THEN "stamp" ELSE "push_load")
       /\ UNCHANGED <<l, ret>>

FullCached(t) ==
  IF head = l[t].cached THEN Return(t, <<"full">>)
  ELSE Load(t, [cached |-> head]) /\ Room(t) /\ UNCHANGED ret

CheckFull(t) ==
  /\ pc[t] = "full"
  /\ IF flavor = "array" THEN FullArray(t) ELSE FullCached(t)
  /\ UNCHANGED <<ring, buffer, calls, msg, dropped>>

\* ArrayQueue only: the stamp tells whether the slot is free for this tail.
CheckStamp(t) ==
  LET tl == l[t].tail
      st == stamp[Index(tl)]
  IN
  /\ pc[t] = "stamp"
  /\ IF op[t] = "oneshot" /\ st # tl THEN Return(t, <<"unsure">>)
     ELSE /\ Goto(t, CASE st = tl                        -> "claim"
                       [] st # tl /\ Add(st, OneLap) = Add(tl, 1) -> "full"
                       [] OTHER                          -> "push_load")
          /\ UNCHANGED <<l, ret>>
  /\ UNCHANGED <<ring, buffer, calls, msg, dropped>>

\* compare_exchange_weak of pos, tail or sender.
Claimable(t) == CASE IsOne    -> head = l[t].head /\ tail = l[t].tail
                  [] IsCached -> hcache = l[t].word /\ tail = l[t].tail
                  [] OTHER    -> tail = l[t].tail

Claim(t) ==
  /\ pc[t] = "claim"
  /\ IF Claimable(t)
     THEN /\ tail' = Succ(l[t].tail)
          /\ hcache' = IF IsCached THEN l[t].cached ELSE hcache
          /\ Goto(t, "write")
          /\ UNCHANGED <<head, tcache, l, ret>>
     ELSE /\ IF op[t] = "oneshot" /\ ~IsOne
             THEN Return(t, <<"unsure">>)
             ELSE PushLook(t)
          /\ UNCHANGED ring
  /\ UNCHANGED <<buffer, calls, msg, dropped>>

Spurious(t) ==
  /\ pc[t] = "claim" /\ op[t] = "oneshot" /\ ~IsOne
  /\ Return(t, <<"unsure">>)
  /\ UNCHANGED <<ring, buffer, calls, msg, dropped>>

\* The value goes into the slot; Slot::write of One waits for its turn.
MayWrite(t) == /\ pc[t] = "write"
               /\ flavor = "one" => stamp[Index(l[t].tail)] = l[t].tail

Write(t) ==
  /\ MayWrite(t)
  /\ slot' = [slot EXCEPT ![Index(l[t].tail)] = msg[t]]
  /\ Goto(t, "publish")
  /\ UNCHANGED <<ring, stamp, calls, l, msg, ret, dropped>>

\* The stamp, or the word of the single producer, lets consumers see the value.
PublishStamp(t) ==
  /\ stamp' = [stamp EXCEPT ![Index(l[t].tail)] = Add(l[t].tail, 1)]
  /\ UNCHANGED ring

PublishWord(t) ==
  /\ tail' = Succ(l[t].tail)
  /\ IF IsOne THEN head' = l[t].head /\ UNCHANGED hcache
     ELSE hcache' = l[t].cached /\ UNCHANGED head
  /\ UNCHANGED <<tcache, stamp>>

Publish(t) ==
  /\ pc[t] = "publish"
  /\ IF PushClaims THEN PublishStamp(t) ELSE PublishWord(t)
  /\ Return(t, <<"pushed", msg[t]>>)
  /\ UNCHANGED <<slot, calls, msg, dropped>>

-----------------------------------------------------------------------------
(* Pop: _pop, start_read and read_with_token of the one-slot flavours, pop *)
(* and pop_cached of the arrays.  A select does the same in two calls: it  *)
(* stops between the claim and the read, and holds the token meanwhile.    *)

PopLookOne(t) ==
  IF head = tail THEN Return(t, <<"empty">>)
  ELSE Load(t, [head |-> head, tail |-> tail])
       /\ Goto(t, "pop_claim") /\ UNCHANGED ret

PopLookArray(t) ==
  Load(t, [head |-> head]) /\ Goto(t, "pop_stamp") /\ UNCHANGED ret

PopLookCached(t) ==
  IF tcache = head /\ op[t] = "pop_cached" THEN Return(t, <<"unsure">>)
  ELSE /\ Load(t, [head |-> head, cached |-> tcache])
       /\ Goto(t, IF tcache = head THEN "empty" ELSE "read")
       /\ UNCHANGED ret

PopLook(t) == CASE IsOne            -> PopLookOne(t)
                [] flavor = "array" -> PopLookArray(t)
                [] IsCached         -> PopLookCached(t)

PopLoad(t) ==
  /\ pc[t] = "pop_load"
  /\ PopLook(t)
  /\ UNCHANGED <<ring, buffer, calls, msg, dropped>>

\* The look at tail once nothing seems to be there.
CheckEmpty(t) ==
  /\ pc[t] = "empty"
  /\ IF tail = l[t].head THEN Return(t, <<"empty">>)
     ELSE IF flavor = "array" THEN Goto(t, "pop_load") /\ UNCHANGED <<l, ret>>
     ELSE Load(t, [cached |-> tail]) /\ Goto(t, "read") /\ UNCHANGED ret
  /\ UNCHANGED <<ring, buffer, calls, msg, dropped>>

\* ArrayQueue only: the stamp tells whether the slot is written for this head.
PopStamp(t) ==
  LET hd == l[t].head
      st == stamp[Index(hd)]
  IN
  /\ pc[t] = "pop_stamp"
  /\ Goto(t, CASE st = Add(hd, 1)            -> "pop_claim"
               [] st = hd /\ st # Add(hd, 1) -> "empty"
               [] OTHER                      -> "pop_load")
  /\ UNCHANGED <<ring, buffer, calls, l, msg, ret, dropped>>

\* compare_exchange_weak of pos or head.
ClaimPos(t) ==
  IF Claimable(t)
  THEN /\ head' = l[t].tail /\ tail' = l[t].tail
       /\ Goto(t, "read") /\ UNCHANGED <<l, ret>>
  ELSE PopLook(t) /\ UNCHANGED <<head, tail>>

\* A single consumer stores pos, and does so before it reads, since the
\* producer goes on to the other slot.
StorePos(t) ==
  /\ head' = l[t].tail /\ tail' = l[t].tail
  /\ Goto(t, "read") /\ UNCHANGED <<l, ret>>

ClaimHead(t) ==
  IF head = l[t].head
  THEN /\ head' = Succ(head)
       /\ Goto(t, "read") /\ UNCHANGED <<tail, l, ret>>
  ELSE PopLook(t) /\ UNCHANGED <<head, tail>>

PopClaim(t) ==
  /\ pc[t] = "pop_claim"
  /\ CASE flavor = "one"   -> ClaimPos(t)
       [] flavor = "array" -> ClaimHead(t)
       [] OTHER            -> StorePos(t)
  /\ UNCHANGED <<hcache, tcache, buffer, calls, msg, dropped>>

\* Mutant: nobody waits for the stamp.
MayReadEarly(t) == pc[t] = "read"
\* The value comes out of the slot, once the stamp says that it is there.
MayRead(t) ==
  /\ pc[t] = "read"
  /\ flavor \in {"one", "one_mpsc", "array_mpsc"}
       => stamp[Index(l[t].head)] = Add(l[t].head, 1)

Read(t) ==
  LET i == Index(l[t].head)
  IN
  /\ MayRead(t)
  /\ msg' = [msg EXCEPT ![t] = slot[i]]
  /\ slot' = [slot EXCEPT ![i] = Nil]
  /\ IF flavor \in {"one_mpsc", "one_spsc"} THEN Return(t, <<"popped", slot[i]>>)
     ELSE Goto(t, "release") /\ UNCHANGED <<l, ret>>
  /\ UNCHANGED <<ring, stamp, calls, dropped>>

\* Mutant: the stamp stays in the lap of the value that was read.
ReleaseStampSameLap(t) ==
  /\ stamp' = [stamp EXCEPT ![Index(l[t].head)] = Add(l[t].head, IF IsOne THEN 2 ELSE 1)]
  /\ UNCHANGED ring
\* The slot is free for a producer: of the next lap by the stamp, or by recv.
ReleaseStamp(t) ==
  /\ stamp' = [stamp EXCEPT ![Index(l[t].head)] =
                 Add(l[t].head, IF IsOne THEN 2 ELSE OneLap)]
  /\ UNCHANGED ring

ReleaseWord(t) ==
  /\ head' = Succ(l[t].head) /\ tcache' = l[t].cached
  /\ UNCHANGED <<tail, hcache, stamp>>

Release(t) ==
  /\ pc[t] = "release"
  /\ IF IsCached THEN ReleaseWord(t) ELSE ReleaseStamp(t)
  /\ Return(t, <<"popped", msg[t]>>)
  /\ UNCHANGED <<slot, calls, msg, dropped>>

-----------------------------------------------------------------------------
(* is_full, is_empty and len load one word after the other.  size is a     *)
(* history of what the queue held when len loaded the head.                *)

QueryOne(t) ==
  Return(t, CASE op[t] = "len" -> <<"len", IF head = tail THEN 0 ELSE 1, Size>>
              [] op[t] = "is_full" /\ head # tail -> <<"full">>
              [] op[t] = "is_empty" /\ head = tail -> <<"empty">>
              [] OTHER -> <<"unsure">>)

Query(t) ==
  /\ pc[t] = "query"
  /\ IF IsOne THEN QueryOne(t)
     ELSE /\ Load(t, IF op[t] = "is_empty" THEN [head |-> head] ELSE [tail |-> tail])
          /\ Goto(t, "query_other") /\ UNCHANGED ret
  /\ UNCHANGED <<ring, buffer, calls, msg, dropped>>

QueryOther(t) ==
  /\ pc[t] = "query_other"
  /\ CASE op[t] = "is_empty" ->
            Return(t, IF tail = l[t].head THEN <<"empty">> ELSE <<"unsure">>)
       [] op[t] = "is_full" ->
            Return(t, IF Add(head, OneLap) = l[t].tail
                      THEN <<"full">> ELSE <<"unsure">>)
       [] op[t] = "len" ->
            /\ Load(t, [head |-> head, size |-> Size])
            /\ Goto(t, "query_again") /\ UNCHANGED ret
  /\ UNCHANGED <<ring, buffer, calls, msg, dropped>>

\* Mutant: the tail is not looked at again.
QueryAgainBlind(t) ==
  /\ pc[t] = "query_again"
  /\ Return(t, <<"len", LenOf(l[t].head, l[t].tail), l[t].size>>)
  /\ UNCHANGED <<ring, buffer, calls, msg, dropped>>
\* len believes what it has loaded when the tail has not moved meanwhile.
QueryAgain(t) ==
  /\ pc[t] = "query_again"
  /\ IF tail = l[t].tail THEN Return(t, <<"len", LenOf(l[t].head, tail), l[t].size>>)
     ELSE Goto(t, "query") /\ UNCHANGED <<l, ret>>
  /\ UNCHANGED <<ring, buffer, calls, msg, dropped>>

-----------------------------------------------------------------------------
\* The slot of the i-th value that Drop drops.
DropIndex(i) ==
  LET hix == Index(head)
  IN  IF hix + i < RingCap THEN hix + i ELSE hix + i - RingCap

\* one and one_mpsc drop the slot of the head, one_spsc the slot of the tail.
DropOne == IF head = tail THEN {} ELSE {(IF flavor = "one_spsc" THEN tail ELSE head) % 2}

DropArray == {DropIndex(i) : i \in 0 .. LenOf(head, tail) - 1}

\* Drop drops what lies between head and tail; no call is running any more.
DropQueue ==
  LET held == IF IsOne THEN DropOne ELSE DropArray
  IN
  /\ dropped = Nil
  /\ \A t \in Threads : pc[t] = "idle"
  /\ dropped' = {slot[i] : i \in held}
  /\ slot' = [i \in Slots |-> IF i \in held THEN Nil ELSE slot[i]]
  /\ UNCHANGED <<ring, stamp, calls, local>>

Terminated == dropped # Nil /\ UNCHANGED <<ring, buffer, local, calls, dropped>>

Step(t) == \/ Start(t)
           \/ PushLoad(t) \/ CheckFull(t) \/ CheckStamp(t) \/ Claim(t)
           \/ Spurious(t) \/ Write(t) \/ Publish(t)
           \/ PopLoad(t) \/ CheckEmpty(t) \/ PopStamp(t) \/ PopClaim(t)
           \/ Read(t) \/ Release(t)
           \/ Query(t) \/ QueryOther(t) \/ QueryAgain(t)

Next == (\E t \in Threads : Step(t)) \/ DropQueue \/ Terminated

\* A new queue, or an array that has been filled and drained up to a position
\* of index 0: the stamps then belong to the next lap, or still to the last
\* one where only producers set them, and the producers have not looked at
\* the head since the last lap began.
RingAt(s) == /\ head = s /\ tail = s /\ tcache = s
             /\ hcache = IF s = 0 THEN 0 ELSE s - OneLap
StampsAt(s) == stamp = [i \in Slots |-> IF flavor = "array_mpsc" /\ s > 0
                                        THEN s - OneLap + i + 1 ELSE s + i]
Init ==
  /\ flavor \in Flavors
  /\ \E s \in IF IsOne THEN {0} ELSE Starts : RingAt(s) /\ StampsAt(s)
  /\ slot = [i \in Slots |-> Nil]
  /\ pc = [t \in Threads |-> "idle"] /\ op = [t \in Threads |-> Nil]
  /\ nops = [t \in Threads |-> 0] /\ l = [t \in Threads |-> Blank]
  /\ msg = [t \in Threads |-> Nil] /\ ret = [t \in Threads |-> Nil]
  /\ dropped = Nil

\* A thread inside a call goes on: nothing in the queues blocks.
Fairness == \A t \in Threads : WF_vars(pc[t] # "idle" /\ Step(t))

Spec == Init /\ [][Next]_vars /\ Fairness

-----------------------------------------------------------------------------
(* Properties.                                                             *)

Msgs == UNION {{<<p, n>> : n \in 1 .. Calls[f][p]} : f \in Flavors, p \in Producers}

\* The slots are plain memory: no two threads are about to access the same
\* one, a producer about to write never finds a message there, and a consumer
\* about to read never finds an uninitialised or an already moved out value
\* (UnsafeCell<MaybeUninit<T>> behind the stamps and the positions).
SlotExclusive ==
  LET access(t) == CASE MayWrite(t) -> Index(l[t].tail)
                     [] MayRead(t)  -> Index(l[t].head)
                     [] OTHER       -> Nil
  IN  \A t \in Threads : access(t) # Nil =>
        /\ (slot[access(t)] = Nil) <=> MayWrite(t)
        /\ \A u \in Threads \ {t} : access(u) # access(t)

\* The length that len returns is the one the queue had when the head was
\* loaded, although the tail is loaded at other times while both move.
LenHonest == \A t \in Threads :
  ret[t] # Nil /\ ret[t][1] = "len" => ret[t][2] = ret[t][3]

\* Every call of a queue ends: a thread that waits for a stamp waits for a
\* thread that is going to store it.  The calls are bounded, so a thread that
\* never gets out of one keeps the queue from coming to rest.
CallsEnd == []<>(\A t \in Threads : pc[t] = "idle")

\* The effect of a call, as soon as it has one: a push that has claimed its
\* position has happened, and so has a pop that has claimed one, whose message
\* may still be on its way into the slot.
Effect(t) ==
  CASE PushClaims /\ pc[t] \in {"write", "publish"} -> <<"pushed", msg[t]>>
    [] PopClaims /\ pc[t] = "read"    -> <<"popped", MsgAt(l[t].head)>>
    [] PopClaims /\ pc[t] = "release" -> <<"popped", msg[t]>>
    [] pc[t] = "idle" /\ ret[t] # Nil /\ ret[t][1] # "len" -> ret[t]
    [] OTHER -> Nil

Abstract == INSTANCE Fifo WITH
  items <- IF dropped = Nil THEN Items ELSE <<>>, answer <- [t \in Threads |-> Effect(t)],
  cap <- Cap, None <- Nil

\* Each of the six queues is a first in first out queue whose calls take effect
\* at once, with "full" answered only when it is full and "empty" only when it
\* is empty: what the channel relies on when it puts a caller to sleep.
ImplementsFifo == Abstract!Spec
=============================================================================
