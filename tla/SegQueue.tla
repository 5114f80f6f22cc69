------------------------------ MODULE SegQueue ------------------------------
(***************************************************************************)
(* The unbounded queue (src/crossbeam/seg_queue.rs behind flavor/list.rs): *)
(* a linked list of blocks.  An index counts Lap positions per block, the  *)
(* last of which holds no value: while an index stands there, the thread   *)
(* that filled or emptied the block is moving it on to the next one.       *)
(*                                                                         *)
(* A block is freed by whoever finds that nobody reads from it any more:   *)
(* the reader of the last value walks over the slots and hands the rest of *)
(* the walk to the first reader it finds still busy.                       *)
(*                                                                         *)
(* Every access to a shared word is one step.  The lower bit of the head   *)
(* index (HAS_NEXT) is a field of its own; the code's >> SHIFT drops it.   *)
(***************************************************************************)
EXTENDS Naturals, Sequences, FiniteSets, TLC

CONSTANTS Threads,    \* producers and consumers
          Calls,      \* [Threads -> Nat]: bound on the calls of each
          Starts,     \* scenarios: the calls each one has made at the start
          Menu,       \* [Threads -> set of operations]: what each one calls
          Lap,        \* positions per block (32 in the code)
          MaxBlocks,  \* bound on the allocations, not reached
          Iter,       \* the owner that iterates over the queue in the end
          Nil

VARIABLES head,       \* [i, next, block]: index, HAS_NEXT bit, block
          tail,       \* [i, block]
          made,       \* blocks allocated so far, numbered from 1
          live,       \* those that are not freed
          next,       \* next pointer of each block
          slot,       \* value of each slot of each block
          flags,      \* WRITE, READ, DESTROY of each slot of each block
          pc, op,     \* where each thread is, in which call
          nops,       \* calls made
          l,          \* what the call has loaded and allocated
          msg,        \* message being pushed, or the one just read
          ret,        \* answer of the last call
          chain,      \* history: the blocks in the order of the list
          dropped     \* history: what dropping the queue has dropped

list   == <<head, tail, chain>>
heap   == <<made, live, next, slot, flags>>
calls  == <<op, nops>>
vars   == <<list, heap, calls, pc, l, msg, ret, dropped>>

Blocks   == 1 .. MaxBlocks
BlockCap == Lap - 1
Offset(i) == i % Lap

ASSUME SegQueueAssumption ==
  /\ Lap \in Nat /\ Lap > 2 /\ Iter \notin Threads
  /\ Calls \in [Threads -> Nat] /\ Starts \subseteq [Threads -> Nat]

-----------------------------------------------------------------------------
Goto(t, label) == pc' = [pc EXCEPT ![t] = label]

Load(t, loaded) == l' = [l EXCEPT ![t] = loaded @@ l[t]]

Blank == [i |-> 0, more |-> FALSE, block |-> Nil, spare |-> Nil,
          after |-> Nil, at |-> 0, tail |-> 0, size |-> 0]

\* The call returns; a block that was allocated in advance and not used goes.
Return(t, answer) == /\ ret' = [ret EXCEPT ![t] = answer]
                     /\ l' = [l EXCEPT ![t] = Blank]
                     /\ Goto(t, "idle")

\* Block::new: an address nobody had before, zeroed.
NewBlock == made + 1

Start(t) ==
  /\ pc[t] = "idle" /\ dropped = Nil /\ ret[Iter] = Nil
  /\ nops[t] < Calls[t]
  /\ \E o \in Menu[t] :
       /\ op' = [op EXCEPT ![t] = o]
       /\ Goto(t, CASE o = "push" -> "push_index"
                    [] o = "pop_final" -> "pop_head"
                    [] o = "pop" -> "pop_index"
                    [] OTHER -> "query")
       /\ msg' = [msg EXCEPT ![t] = IF o = "push" THEN <<t, nops[t] + 1>> ELSE Nil]
  /\ nops' = [nops EXCEPT ![t] = @ + 1]
  /\ ret' = [ret EXCEPT ![t] = Nil]
  /\ UNCHANGED <<list, heap, l, dropped>>

-----------------------------------------------------------------------------
(* push.                                                                   *)

PushIndex(t) ==
  /\ pc[t] = "push_index"
  /\ Load(t, [i |-> tail.i]) /\ Goto(t, "push_block")
  /\ UNCHANGED <<list, heap, calls, msg, ret, dropped>>

\* The top of the loop: wait for the next block, allocate it in advance, or
\* allocate the first one.
PushBlock(t) ==
  LET last  == Offset(l[t].i) + 1 = BlockCap /\ l[t].spare = Nil
      first == tail.block = Nil
  IN
  /\ pc[t] = "push_block"
  /\ IF Offset(l[t].i) = BlockCap
     THEN Goto(t, "push_index") /\ UNCHANGED <<l, heap>>
     ELSE /\ IF last \/ first
             THEN made' = NewBlock /\ live' = live \cup {NewBlock}
             ELSE UNCHANGED <<made, live>>
          /\ Load(t, [block |-> tail.block,
                      spare |-> IF last THEN NewBlock ELSE l[t].spare,
                      after |-> IF first THEN NewBlock ELSE Nil])
          /\ Goto(t, IF first THEN "push_first" ELSE "push_cas")
          /\ UNCHANGED <<next, slot, flags>>
  /\ UNCHANGED <<list, calls, msg, ret, dropped>>

\* compare_exchange of the null tail.block; the loser keeps its block as the
\* one allocated in advance, in place of another it may have had.
PushFirst(t) ==
  /\ pc[t] = "push_first"
  /\ IF tail.block = Nil
     THEN /\ tail' = [tail EXCEPT !.block = l[t].after]
          /\ chain' = Append(chain, l[t].after)
          /\ Load(t, [block |-> l[t].after, after |-> Nil])
          /\ Goto(t, "push_head")
          /\ UNCHANGED <<head, live>>
     ELSE /\ Load(t, [spare |-> l[t].after, after |-> Nil])
          /\ live' = live \ {l[t].spare}
          /\ Goto(t, "push_index")
          /\ UNCHANGED list
  /\ UNCHANGED <<made, next, slot, flags, calls, msg, ret, dropped>>

PushHead(t) ==
  /\ pc[t] = "push_head"
  /\ head' = [head EXCEPT !.block = l[t].block]
  /\ Goto(t, "push_cas")
  /\ UNCHANGED <<tail, chain, heap, calls, l, msg, ret, dropped>>

PushCas(t) ==
  /\ pc[t] = "push_cas"
  /\ IF tail.i = l[t].i
     THEN /\ tail' = [tail EXCEPT !.i = @ + 1]
          /\ IF Offset(l[t].i) + 1 = BlockCap
             THEN chain' = Append(chain, l[t].spare) /\ Goto(t, "install_block")
             ELSE Goto(t, "write") /\ UNCHANGED chain
          /\ UNCHANGED l
     ELSE /\ Load(t, [i |-> tail.i]) /\ Goto(t, "push_block")
          /\ UNCHANGED <<tail, chain>>
  /\ UNCHANGED <<head, heap, calls, msg, ret, dropped>>

\* The push that took the last slot installs the next block in three stores.
InstallBlock(t) ==
  /\ pc[t] = "install_block"
  /\ tail' = [tail EXCEPT !.block = l[t].spare]
  /\ Goto(t, "install_index")
  /\ UNCHANGED <<head, chain, heap, calls, l, msg, ret, dropped>>

InstallIndex(t) ==
  /\ pc[t] = "install_index"
  /\ tail' = [tail EXCEPT !.i = l[t].i + 2]
  /\ Goto(t, "install_next")
  /\ UNCHANGED <<head, chain, heap, calls, l, msg, ret, dropped>>

InstallNext(t) ==
  /\ pc[t] = "install_next"
  /\ next' = [next EXCEPT ![l[t].block] = l[t].spare]
  /\ Load(t, [spare |-> Nil]) /\ Goto(t, "write")
  /\ UNCHANGED <<made, list, live, slot, flags, calls, msg, ret, dropped>>

Write(t) ==
  /\ pc[t] = "write"
  /\ slot' = [slot EXCEPT ![l[t].block][Offset(l[t].i)] = msg[t]]
  /\ Goto(t, "set_write")
  /\ UNCHANGED <<made, list, live, next, flags, calls, l, msg, ret, dropped>>

\* Mutant: a block allocated in advance and not used is forgotten.
SetWriteLeaks(t) ==
  /\ pc[t] = "set_write"
  /\ flags' = [flags EXCEPT ![l[t].block][Offset(l[t].i)] = @ \cup {"write"}]
  /\ Return(t, <<"pushed", msg[t]>>)
  /\ UNCHANGED <<made, list, live, next, slot, calls, msg, dropped>>
SetWrite(t) ==
  /\ pc[t] = "set_write"
  /\ flags' = [flags EXCEPT ![l[t].block][Offset(l[t].i)] = @ \cup {"write"}]
  /\ live' = live \ {l[t].spare}
  /\ Return(t, <<"pushed", msg[t]>>)
  /\ UNCHANGED <<made, list, next, slot, calls, msg, dropped>>

-----------------------------------------------------------------------------
(* _pop, _read and destroy.  start_read and read do the same in two calls. *)

\* pop::<true> looks whether the queue is empty before anything else.
PopHead(t) ==
  /\ pc[t] = "pop_head"
  /\ Load(t, [i |-> head.i, more |-> head.next]) /\ Goto(t, "pop_final")
  /\ UNCHANGED <<list, heap, calls, msg, ret, dropped>>

PopFinal(t) ==
  /\ pc[t] = "pop_final"
  /\ IF tail.i = l[t].i THEN Return(t, <<"empty">>)
     ELSE Goto(t, "pop_block") /\ UNCHANGED <<l, ret>>
  /\ UNCHANGED <<list, heap, calls, msg, dropped>>

PopIndex(t) ==
  /\ pc[t] = "pop_index"
  /\ Load(t, [i |-> head.i, more |-> head.next]) /\ Goto(t, "pop_block")
  /\ UNCHANGED <<list, heap, calls, msg, ret, dropped>>

\* What follows the look at tail, which a known next block makes unnecessary:
\* the block is null while the first push is on its way.
Try(block) == IF block = Nil THEN "pop_index" ELSE "pop_cas"

PopBlock(t) ==
  /\ pc[t] = "pop_block"
  /\ Load(t, [block |-> head.block, at |-> IF l[t].more THEN 1 ELSE 0])
  /\ Goto(t, IF Offset(l[t].i) = BlockCap THEN "pop_index"
             ELSE IF l[t].more THEN Try(head.block) ELSE "pop_tail")
  /\ UNCHANGED <<list, heap, calls, msg, ret, dropped>>

\* Mutant: one value too few is seen.
PopTailShort(t) ==
  /\ pc[t] = "pop_tail"
  /\ IF tail.i <= l[t].i + 1 THEN Return(t, <<"empty">>)
     ELSE /\ Load(t, [at |-> IF tail.i \div Lap # l[t].i \div Lap THEN 1 ELSE 0])
          /\ Goto(t, Try(l[t].block)) /\ UNCHANGED ret
  /\ UNCHANGED <<list, heap, calls, msg, dropped>>
\* at holds the HAS_NEXT bit of the new head.
PopTail(t) ==
  /\ pc[t] = "pop_tail"
  /\ IF tail.i = l[t].i THEN Return(t, <<"empty">>)
     ELSE /\ Load(t, [at |-> IF tail.i \div Lap # l[t].i \div Lap THEN 1 ELSE 0])
          /\ Goto(t, Try(l[t].block)) /\ UNCHANGED ret
  /\ UNCHANGED <<list, heap, calls, msg, dropped>>

\* Mutant: a lost compare_exchange does not take the new head.
PopCasStale(t) ==
  /\ pc[t] = "pop_cas"
  /\ IF head.i = l[t].i /\ head.next = l[t].more
     THEN /\ head' = [head EXCEPT !.i = @ + 1, !.next = (l[t].at = 1)]
          /\ Goto(t, IF Offset(l[t].i) + 1 = BlockCap THEN "wait_next" ELSE "read")
     ELSE Goto(t, "pop_block") /\ UNCHANGED head
  /\ UNCHANGED <<tail, chain, heap, calls, l, msg, ret, dropped>>
PopCas(t) ==
  /\ pc[t] = "pop_cas"
  /\ IF head.i = l[t].i /\ head.next = l[t].more
     THEN /\ head' = [head EXCEPT !.i = @ + 1, !.next = (l[t].at = 1)]
          /\ Goto(t, IF Offset(l[t].i) + 1 = BlockCap THEN "wait_next" ELSE "read")
          /\ UNCHANGED l
     ELSE /\ Load(t, [i |-> head.i, more |-> head.next])
          /\ Goto(t, "pop_block") /\ UNCHANGED head
  /\ UNCHANGED <<tail, chain, heap, calls, msg, ret, dropped>>

\* The pop that took the last slot moves the head on to the next block.
WaitNext(t) ==
  /\ pc[t] = "wait_next" /\ next[l[t].block] # Nil
  /\ Load(t, [after |-> next[l[t].block]]) /\ Goto(t, "look_next")
  /\ UNCHANGED <<list, heap, calls, msg, ret, dropped>>

LookNext(t) ==
  /\ pc[t] = "look_next"
  /\ Load(t, [at |-> IF next[l[t].after] # Nil THEN 1 ELSE 0])
  /\ Goto(t, "move_block")
  /\ UNCHANGED <<list, heap, calls, msg, ret, dropped>>

MoveBlock(t) ==
  /\ pc[t] = "move_block"
  /\ head' = [head EXCEPT !.block = l[t].after]
  /\ Goto(t, "move_index")
  /\ UNCHANGED <<tail, chain, heap, calls, l, msg, ret, dropped>>

MoveIndex(t) ==
  /\ pc[t] = "move_index"
  /\ head' = [head EXCEPT !.i = l[t].i + 2, !.next = (l[t].at = 1)]
  /\ Goto(t, "read")
  /\ UNCHANGED <<tail, chain, heap, calls, l, msg, ret, dropped>>

\* wait_write, ...
MayRead(t) == pc[t] = "read" /\ "write" \in flags[l[t].block][Offset(l[t].i)]

\* ... and the read of the value.
Read(t) ==
  LET o == Offset(l[t].i)
  IN
  /\ MayRead(t)
  /\ msg' = [msg EXCEPT ![t] = slot[l[t].block][o]]
  /\ slot' = [slot EXCEPT ![l[t].block][o] = Nil]
  /\ Goto(t, IF o + 1 = BlockCap THEN "destroy" ELSE "set_read")
  /\ Load(t, [at |-> 0])
  /\ UNCHANGED <<made, list, live, next, flags, calls, ret, dropped>>

SetRead(t) ==
  LET o == Offset(l[t].i)
  IN
  /\ pc[t] = "set_read"
  /\ flags' = [flags EXCEPT ![l[t].block][o] = @ \cup {"read"}]
  /\ IF "destroy" \in flags[l[t].block][o]
     THEN Load(t, [at |-> o + 1]) /\ Goto(t, "destroy") /\ UNCHANGED ret
     ELSE Return(t, <<"popped", msg[t]>>)
  /\ UNCHANGED <<made, list, live, next, slot, calls, msg, dropped>>

\* Block::destroy at slot "at": the block goes when no slot is left to look at.
Destroy(t) ==
  /\ pc[t] = "destroy"
  /\ IF l[t].at >= BlockCap - 1
     THEN live' = live \ {l[t].block} /\ Return(t, <<"popped", msg[t]>>)
     ELSE /\ IF "read" \in flags[l[t].block][l[t].at]
             THEN Load(t, [at |-> l[t].at + 1]) /\ UNCHANGED pc
             ELSE Goto(t, "set_destroy") /\ UNCHANGED l
          /\ UNCHANGED <<live, ret>>
  /\ UNCHANGED <<made, list, next, slot, flags, calls, msg, dropped>>

\* Mutant: the walk goes past a reader that is still busy.
SetDestroyGoesOn(t) ==
  /\ pc[t] = "set_destroy"
  /\ flags' = [flags EXCEPT ![l[t].block][l[t].at] = @ \cup {"destroy"}]
  /\ Load(t, [at |-> l[t].at + 1]) /\ Goto(t, "destroy")
  /\ UNCHANGED <<made, list, live, next, slot, calls, msg, ret, dropped>>
SetDestroy(t) ==
  /\ pc[t] = "set_destroy"
  /\ flags' = [flags EXCEPT ![l[t].block][l[t].at] = @ \cup {"destroy"}]
  /\ IF "read" \in flags[l[t].block][l[t].at]
     THEN Load(t, [at |-> l[t].at + 1]) /\ Goto(t, "destroy") /\ UNCHANGED ret
     ELSE Return(t, <<"popped", msg[t]>>)
  /\ UNCHANGED <<made, list, live, next, slot, calls, msg, dropped>>

-----------------------------------------------------------------------------
(* What the queue holds, seen as a sequence.                               *)

\* Pushes that have claimed an index and not yet written the value.
Claimed == {"install_block", "install_index", "install_next", "write"}

MsgAt(i) ==
  LET writers == {t \in Threads : pc[t] \in Claimed /\ l[t].i = i}
  IN  IF writers # {} THEN msg[CHOOSE t \in writers : TRUE]
      ELSE slot[chain[(i \div Lap) + 1]][Offset(i)]

\* The indices of the values that are claimed by a push and by no pop.
Held == SelectSeq([k \in 1 .. tail.i - head.i |-> head.i + k - 1],
                  LAMBDA i : Offset(i) # BlockCap)

Items == [k \in 1 .. Len(Held) |-> MsgAt(Held[k])]

-----------------------------------------------------------------------------
(* is_empty and len.  size is a history of what the queue held when len    *)
(* loaded the head.                                                        *)

Query(t) ==
  /\ pc[t] = "query"
  /\ Load(t, IF op[t] = "is_empty" THEN [i |-> head.i] ELSE [tail |-> tail.i])
  /\ Goto(t, "query_other")
  /\ UNCHANGED <<list, heap, calls, msg, ret, dropped>>

QueryOther(t) ==
  /\ pc[t] = "query_other"
  /\ IF op[t] = "is_empty"
     THEN Return(t, IF tail.i = l[t].i THEN <<"empty">> ELSE <<"unsure">>)
     ELSE /\ Load(t, [i |-> head.i, size |-> Len(Held)])
          /\ Goto(t, "query_again") /\ UNCHANGED ret
  /\ UNCHANGED <<list, heap, calls, msg, dropped>>

\* An index at the end of a block counts as the start of the next one; the
\* difference less the blocks between them is the length.
LenOf(hi, ti) ==
  LET fix(i) == IF Offset(i) = BlockCap THEN i + 1 ELSE i
      base   == (fix(hi) \div Lap) * Lap
      tl     == fix(ti) - base
  IN  tl - (fix(hi) - base) - tl \div Lap

\* Mutant: the tail is not looked at again.
QueryAgainBlind(t) ==
  /\ pc[t] = "query_again"
  /\ Return(t, <<"len", LenOf(l[t].i, l[t].tail), l[t].size>>)
  /\ UNCHANGED <<list, heap, calls, msg, dropped>>
QueryAgain(t) ==
  /\ pc[t] = "query_again"
  /\ IF tail.i = l[t].tail THEN Return(t, <<"len", LenOf(l[t].i, tail.i), l[t].size>>)
     ELSE Goto(t, "query") /\ UNCHANGED <<l, ret>>
  /\ UNCHANGED <<list, heap, calls, msg, dropped>>

-----------------------------------------------------------------------------
(* The owner: no call is running any more, and none begins.                *)

Quiet == dropped = Nil /\ \A t \in Threads : pc[t] = "idle"

\* IntoIter::next.
IterNext ==
  LET o == Offset(head.i)
  IN
  /\ Quiet /\ head.i # tail.i
  /\ ret' = [ret EXCEPT ![Iter] = <<"popped", slot[head.block][o]>>]
  /\ slot' = [slot EXCEPT ![head.block][o] = Nil]
  /\ IF o + 1 = BlockCap
     THEN /\ live' = live \ {head.block}
          /\ head' = [head EXCEPT !.i = @ + 2, !.block = next[head.block]]
     ELSE head' = [head EXCEPT !.i = @ + 1] /\ UNCHANGED live
  /\ UNCHANGED <<tail, chain, made, next, flags, calls, pc, l, msg, dropped>>

\* The block n steps down the list from the head.
Hop[n \in Nat] == IF n = 0 THEN head.block ELSE next[Hop[n - 1]]

\* Drop walks from head to tail, and frees each block it leaves and the last.
DropQueue ==
  LET blocks == (tail.i \div Lap) - (head.i \div Lap)
      block(i) == Hop[(i \div Lap) - (head.i \div Lap)]
  IN
  /\ Quiet
  /\ dropped' = {slot[block(i)][Offset(i)] :
                   i \in {j \in head.i .. tail.i - 1 : Offset(j) < BlockCap}}
  /\ live' = live \ {Hop[n] : n \in 0 .. blocks}
  /\ UNCHANGED <<list, made, next, slot, flags, calls, pc, l, msg, ret>>

Terminated ==
  dropped # Nil /\ UNCHANGED <<list, heap, calls, pc, l, msg, ret, dropped>>

Step(t) == \/ Start(t)
           \/ PushIndex(t) \/ PushBlock(t) \/ PushFirst(t) \/ PushHead(t)
           \/ PushCas(t) \/ InstallBlock(t) \/ InstallIndex(t) \/ InstallNext(t)
           \/ Write(t) \/ SetWrite(t)
           \/ PopHead(t) \/ PopFinal(t) \/ PopIndex(t) \/ PopBlock(t)
           \/ PopTail(t) \/ PopCas(t) \/ WaitNext(t) \/ LookNext(t)
           \/ MoveBlock(t) \/ MoveIndex(t) \/ Read(t) \/ SetRead(t)
           \/ Destroy(t) \/ SetDestroy(t)
           \/ Query(t) \/ QueryOther(t) \/ QueryAgain(t)

Next == (\E t \in Threads : Step(t)) \/ IterNext \/ DropQueue \/ Terminated

Init ==
  /\ head = [i |-> 0, next |-> FALSE, block |-> Nil]
  /\ tail = [i |-> 0, block |-> Nil]
  /\ made = 0 /\ live = {} /\ next = [b \in Blocks |-> Nil] /\ chain = <<>>
  /\ slot = [b \in Blocks |-> [o \in 0 .. BlockCap - 1 |-> Nil]]
  /\ flags = [b \in Blocks |-> [o \in 0 .. BlockCap - 1 |-> {}]]
  /\ pc = [t \in Threads |-> "idle"] /\ op = [t \in Threads |-> Nil]
  /\ nops \in Starts /\ l = [t \in Threads |-> Blank]
  /\ msg = [t \in Threads |-> Nil] /\ ret = [t \in Threads \cup {Iter} |-> Nil]
  /\ dropped = Nil

\* A thread inside a call goes on: nothing in the queue blocks.
Fairness == \A t \in Threads : WF_vars(pc[t] # "idle" /\ Step(t))

Spec == Init /\ [][Next]_vars /\ Fairness

-----------------------------------------------------------------------------
(* Properties.                                                             *)

\* No thread follows a pointer into a block that has been freed, or frees one
\* a second time: a block outlives every push that has claimed a slot of it
\* and every reader of a slot (Block::destroy and its hand-over by DESTROY).
NoUseAfterFree ==
  /\ \A t \in Threads :
       /\ pc[t] \in {"install_next", "write", "set_write", "wait_next", "read",
                     "set_read", "destroy", "set_destroy"} => l[t].block \in live
       /\ pc[t] = "look_next" => l[t].after \in live
       /\ l[t].spare # Nil => l[t].spare \in live
  /\ dropped = Nil /\ tail.block # Nil => tail.block \in live
  /\ dropped = Nil /\ head.block # Nil /\ Offset(head.i) # BlockCap
       => head.block \in live

\* Once the queue is dropped nothing is left: every block is freed, the ones
\* allocated in advance included, and exactly the values nobody has popped are
\* dropped.
DropExact ==
  dropped # Nil =>
    /\ live = {} /\ Nil \notin dropped
    /\ dropped = UNION {{slot[b][o] : o \in 0 .. BlockCap - 1} : b \in Blocks} \ {Nil}

\* The length that len returns is the one the queue had when the head was
\* loaded, also while an index stands at the end of a block.
LenHonest == \A t \in Threads :
  ret[t] # Nil /\ ret[t][1] = "len" => ret[t][2] = ret[t][3]

\* Every call ends: the waits for the next block, for the first block and for
\* a value are waits for a thread that is about to provide it.  The calls are
\* bounded, so a thread stuck in one keeps the queue from coming to rest.
CallsEnd == []<>(\A t \in Threads : pc[t] = "idle")

\* The effect of a call, as soon as it has one.
Effect(t) ==
  IF t = Iter THEN ret[Iter]
  ELSE CASE pc[t] \in Claimed \cup {"set_write"} -> <<"pushed", msg[t]>>
         [] pc[t] \in {"wait_next", "look_next", "move_block", "move_index",
                       "read"} -> <<"popped", MsgAt(l[t].i)>>
         [] pc[t] \in {"set_read", "destroy", "set_destroy"} -> <<"popped", msg[t]>>
         [] pc[t] = "idle" /\ ret[t] # Nil /\ ret[t][1] # "len" -> ret[t]
         [] OTHER -> Nil

Abstract == INSTANCE Fifo WITH
  Threads <- Threads \cup {Iter}, Msgs <- Threads \X (1 .. 9), None <- Nil,
  cap <- 99, items <- IF dropped = Nil THEN Items ELSE <<>>,
  answer <- [t \in Threads \cup {Iter} |-> Effect(t)]

\* The list of blocks is a first in first out queue whose calls take effect at
\* once, with "empty" answered only when it is empty.
ImplementsFifo == Abstract!Spec
=============================================================================
