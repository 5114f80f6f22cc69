----------------------------- MODULE WaitGroup -----------------------------
(***************************************************************************)
(* WaitGroup: one owner that waits for its guards, on a shared allocation  *)
(* with a word of a reference count and a waker flag.  Guards are cloned   *)
(* and dropped by other threads; the waker cell is a plain cell protected  *)
(* by the flag; whoever drops the last reference frees the allocation.     *)
(* One step is one access to shared memory.  WaitGroupZero is the case     *)
(* Thresholds = {0}.                                                       *)
(*                                                                         *)
(* WaitGroupInline is the same word inside a parent structure: nobody owns *)
(* a reference but the work that add() and add_many() count, nothing is    *)
(* freed, and the threshold is a constant.                                 *)
(***************************************************************************)
EXTENDS Naturals, FiniteSets, FiniteSetsExt

CONSTANTS
  Guards,      \* guards alive at once (bound)
  Thresholds,  \* the thresholds new() and set_threshold() are called with
  Tasks,       \* the task contexts the owner's future is polled from
  Thread,      \* the waker of the owner's thread in wait(), wait_timeout()
  OwnerOps,    \* which of the optional calls the owner makes
  Kinds,       \* which of "owned" and "inline" the instance looks at
  Weights,     \* the counts add_many() is called with
  Nil

ASSUME WaitGroupAssumption ==
  /\ IsFiniteSet(Guards)
  /\ Thresholds \subseteq Nat /\ Thresholds # {}
  /\ Kinds \subseteq {"owned", "inline"} /\ Weights \subseteq Nat \ {0}
  /\ Thread \notin Tasks /\ Nil \notin Tasks \cup {Thread}
  /\ OwnerOps \subseteq {"wait", "wait_timeout", "poll", "set_threshold",
                         "try_into_inner"}

FlagsSet == {"none", "set", "lock"}      \* 0, WAKER_FLAG_SET, WAKER_FLAG_LOCK

VARIABLES
  kind,             \* "owned" or "inline", never changes
  count, flag,      \* WaitGroupInner.state: COUNT_MASK and WAKER_FLAG_MASK
  o_waker,          \* WaitGroupInner.o_waker, Nil for None
  frees,            \* how often the allocation was given back
  notified,         \* wakers woken and not yet consumed
  owner,            \* control point of the owner
  threshold,        \* WaitGroup.threshold, own reference included
  word,             \* the owner's local copy of the word
  ctx,              \* the waker the owner is installing
  timed, skip,      \* wait_blocking: has a deadline; local set_waker
  pending,          \* the waker in the owner's future after Pending, or Nil
  guard,            \* control point of each guard
  gthreshold,       \* WaitGroupGuard.threshold
  gcount,           \* how much of the count the guard stands for
  gword, gwaker,    \* each guard's local copy of the word, and the waker taken
  floor             \* history: the smallest threshold a guard was given

waiting == <<ctx, timed, skip, pending>>
mem == <<count, flag, o_waker, frees>>
ownerVars == <<owner, threshold, word, waiting>>
guardVars == <<guard, gthreshold, gcount, gword, gwaker>>
vars == <<kind, mem, notified, ownerVars, guardVars, floor>>

Word == <<count, flag>>
NoWord == <<0, "none">>           \* a local copy that is not in use
GuardGoto(g, l) == guard' = [guard EXCEPT ![g] = l]

-----------------------------------------------------------------------------
(* The owner: add_guard, set_threshold, drop and try_into_inner            *)

(* n more references, for g to give up.  A call may come from another      *)
(* thread through a Sync parent structure, so also while the owner waits.  *)
AddRefs(g, n) ==
  /\ owner \notin {"destroy", "gone", "unwrapped"} /\ guard[g] = "none"
  /\ count' = count + n
  /\ gcount' = [gcount EXCEPT ![g] = n]
  /\ GuardGoto(g, "held")
  /\ gthreshold' = [gthreshold EXCEPT ![g] = threshold]
  /\ floor' = Min({floor, threshold})
  /\ UNCHANGED <<kind, flag, o_waker, frees, notified, ownerVars, gword, gwaker>>

AddGuard(g) == kind = "owned" /\ AddRefs(g, 1)

(* add and add_many of a WaitGroupInline, paired with one done_many.       *)
AddMany(g) == kind = "inline" /\ \E n \in Weights : AddRefs(g, n)

SetThreshold ==
  /\ "set_threshold" \in OwnerOps /\ kind = "owned"
  /\ owner = "idle" /\ pending = Nil
  /\ \E k \in Thresholds : threshold' = k + 1
  /\ UNCHANGED <<kind, mem, notified, owner, word, waiting, guardVars, floor>>

(* destroy(): the load, ...                                                *)
Drop ==
  /\ owner = "idle" /\ pending = Nil /\ kind = "owned"
  /\ owner' = "destroy" /\ word' = Word
  /\ UNCHANGED <<kind, mem, notified, threshold, waiting, guardVars, floor>>

(* ... and its loop: give up one reference, or free.                       *)
Destroy ==
  /\ owner = "destroy"
  /\ LET shared == word[2] = "lock" \/ word[1] > 1 IN
     \/ /\ shared /\ Word = word
        /\ count' = count - 1
        /\ owner' = "gone" /\ word' = NoWord
        /\ UNCHANGED frees
     \/ /\ shared /\ Word # word
        /\ word' = Word
        /\ UNCHANGED <<count, owner, frees>>
     \/ /\ ~shared
        /\ frees' = frees + 1
        /\ owner' = "gone" /\ word' = NoWord
        /\ UNCHANGED count
  /\ UNCHANGED <<kind, flag, o_waker, notified, threshold, waiting, guardVars, floor>>

TryIntoInner ==
  /\ "try_into_inner" \in OwnerOps /\ kind = "owned"
  /\ owner = "idle" /\ pending = Nil
  /\ count - 1 = 0
  /\ frees' = frees + 1
  /\ owner' = "unwrapped"
  /\ UNCHANGED <<kind, count, flag, o_waker, notified, threshold, word, waiting,
                 guardVars, floor>>

-----------------------------------------------------------------------------
(* The owner: wait_blocking and poll_async                                 *)

Reached(n) == n <= threshold

(* The call is over, with the future remembering waker p, or finished.     *)
Ends(p) == /\ owner' = "idle" /\ pending' = p
           /\ ctx' = Nil /\ timed' = FALSE /\ skip' = FALSE
GoesOn(l) == owner' = l /\ UNCHANGED waiting

Wait ==
  /\ owner = "idle" /\ pending = Nil
  /\ \/ "wait" \in OwnerOps /\ timed' = FALSE
     \/ "wait_timeout" \in OwnerOps /\ timed' = TRUE
  /\ ctx' = Thread
  /\ owner' = "check"
  /\ UNCHANGED <<kind, mem, notified, threshold, word, skip, pending, guardVars, floor>>

CheckCount ==
  /\ owner = "check"
  /\ IF Reached(count) THEN Ends(Nil) ELSE GoesOn("load")
  /\ UNCHANGED <<kind, mem, notified, threshold, word, guardVars, floor>>

(* poll_async from task c.                                                 *)
Poll(c) ==
  /\ "poll" \in OwnerOps
  /\ owner = "idle"
  /\ notified' = notified \ {c}
  /\ \/ Reached(count) /\ Ends(Nil)
     \/ /\ ~Reached(count)
        /\ owner' = IF flag = "set" /\ pending = c THEN "recheck" ELSE "load"
        /\ ctx' = c
        /\ UNCHANGED <<timed, skip, pending>>
  /\ UNCHANGED <<kind, mem, threshold, word, guardVars, floor>>

(* The future's waker is the one that is set: one more look, then Pending. *)
Recheck ==
  /\ owner = "recheck"
  /\ Ends(IF Reached(count) THEN Nil ELSE pending)
  /\ UNCHANGED <<kind, mem, notified, threshold, word, guardVars, floor>>

(* The future is dropped while Pending, or its timer fires.                *)
DropFuture ==
  /\ owner = "idle" /\ pending # Nil
  /\ Ends(Nil)
  /\ UNCHANGED <<kind, mem, notified, threshold, word, guardVars, floor>>

(* try_set_waker answers Ok: sleep, or answer Pending.                     *)
WakerIsSet ==
  IF ctx = Thread THEN /\ owner' = "park" /\ skip' = TRUE
                       /\ UNCHANGED <<ctx, timed, pending>>
  ELSE Ends(ctx)

(* try_set_waker: look at the word, spinning while a done() holds the lock *)
LoadWord ==
  /\ owner = "load"
  /\ \/ Reached(count) /\ Ends(Nil) /\ UNCHANGED word
     \/ /\ ~Reached(count) /\ flag = "set" /\ skip
        /\ WakerIsSet /\ UNCHANGED word
     \/ /\ ~Reached(count) /\ flag = "set" /\ ~skip
        /\ word' = Word /\ GoesOn("lock")
     \/ /\ ~Reached(count) /\ flag = "none"
        /\ GoesOn("put") /\ UNCHANGED word
  /\ UNCHANGED <<kind, mem, notified, threshold, guardVars, floor>>

(* Mutant: the cell is replaced without the lock.                          *)
LockWakerUnlocked ==
  /\ owner = "lock"
  /\ GoesOn("put") /\ word' = NoWord
  /\ UNCHANGED <<kind, mem, notified, threshold, guardVars, floor>>
(* Mutant: the lock is tried again with the word read before.              *)
LockWakerStale ==
  /\ owner = "lock"
  /\ IF Word = word THEN flag' = "lock" /\ GoesOn("replace") /\ word' = NoWord
     ELSE UNCHANGED <<flag, owner, waiting, word>>
  /\ UNCHANGED <<kind, count, o_waker, frees, notified, threshold, guardVars, floor>>
(* A waker is there: lock it, or judge the word again.                     *)
LockWaker ==
  /\ owner = "lock"
  /\ IF Word = word THEN flag' = "lock" /\ GoesOn("replace")
     ELSE GoesOn("load") /\ UNCHANGED flag
  /\ word' = NoWord
  /\ UNCHANGED <<kind, count, o_waker, frees, notified, threshold, guardVars, floor>>

PutWaker ==
  /\ owner \in {"replace", "put"}
  /\ o_waker' = ctx
  /\ GoesOn(IF owner = "replace" THEN "xor" ELSE "or")
  /\ UNCHANGED <<kind, count, flag, frees, notified, threshold, word, guardVars, floor>>

(* fetch_xor(WAKER_FLAG_MASK), or fetch_or(WAKER_FLAG_SET), which returns  *)
(* the count as it was then.                                               *)
Xor(f) == IF f = "lock" THEN "set" ELSE "lock"
(* Mutant: the count that comes back is not looked at.                     *)
PublishWakerBlind ==
  /\ owner \in {"xor", "or"}
  /\ flag' = IF owner = "xor" THEN Xor(flag) ELSE "set"
  /\ WakerIsSet
  /\ UNCHANGED <<kind, count, o_waker, frees, notified, threshold, word, guardVars,
                 floor>>
PublishWaker ==
  /\ owner \in {"xor", "or"}
  /\ flag' = IF owner = "xor" THEN Xor(flag) ELSE "set"
  /\ IF Reached(count) THEN Ends(Nil) ELSE WakerIsSet
  /\ UNCHANGED <<kind, count, o_waker, frees, notified, threshold, word, guardVars,
                 floor>>

(* park() returns on the token, park_timeout() also when time is up, ...    *)
Unpark ==
  /\ owner = "park"
  /\ Thread \in notified \/ timed
  /\ notified' = notified \ {Thread}
  /\ GoesOn("check")
  /\ UNCHANGED <<kind, mem, threshold, word, guardVars, floor>>

(* ... or check_timeout fails first, leaving the waker where it is.         *)
Expire ==
  /\ owner = "park" /\ timed
  /\ Ends(Nil)
  /\ UNCHANGED <<kind, mem, notified, threshold, word, guardVars, floor>>

-----------------------------------------------------------------------------
(* A guard: clone, and drop, which is done()                               *)

(* Mutant: the clone is not counted.                                       *)
CloneUncounted(g, h) ==
  /\ guard[g] = "held" /\ guard[h] = "none" /\ kind = "owned"
  /\ GuardGoto(h, "held")
  /\ gthreshold' = [gthreshold EXCEPT ![h] = gthreshold[g]]
  /\ gcount' = [gcount EXCEPT ![h] = 1]
  /\ UNCHANGED <<kind, mem, notified, ownerVars, gword, gwaker, floor>>
Clone(g, h) ==
  /\ guard[g] = "held" /\ guard[h] = "none" /\ kind = "owned"
  /\ count' = count + 1
  /\ GuardGoto(h, "held")
  /\ gthreshold' = [gthreshold EXCEPT ![h] = gthreshold[g]]
  /\ gcount' = [gcount EXCEPT ![h] = 1]
  /\ UNCHANGED <<kind, flag, o_waker, frees, notified, ownerVars, gword, gwaker,
                 floor>>

Done(g) ==
  /\ guard[g] = "held"
  /\ gword' = [gword EXCEPT ![g] = Word]
  /\ GuardGoto(g, "done")
  /\ UNCHANGED <<kind, mem, notified, ownerVars, gthreshold, gcount, gwaker, floor>>

(* State::is_last and State::try_done on the local copy of the word        *)
IsLast(g) == gword[g][2] # "lock" /\ gword[g][1] = gcount[g]
TakesLock(g) == /\ gword[g][1] - gcount[g] <= gthreshold[g]
                /\ gword[g][2] = "set"

(* The guard's locals are not used after its reference is given up.        *)
ForgetLocals(g) == /\ gword' = [gword EXCEPT ![g] = NoWord]
                   /\ gthreshold' = [gthreshold EXCEPT ![g] = 1]
                   /\ gcount' = [gcount EXCEPT ![g] = 0]

(* The only reference, seen by a Relaxed load: look again, and free.       *)
DoneLast(g) ==
  /\ guard[g] = "done" /\ kind = "owned" /\ IsLast(g)
  /\ IF Word = gword[g] THEN GuardGoto(g, "last") /\ ForgetLocals(g)
     ELSE gword' = [gword EXCEPT ![g] = Word] /\ UNCHANGED <<guard, gthreshold, gcount>>
  /\ UNCHANGED <<kind, mem, notified, ownerVars, gwaker, floor>>

(* Fewer references, and the lock on the waker if the wait may be over.    *)
DoneCas(g) ==
  /\ guard[g] = "done" /\ (kind = "owned" => ~IsLast(g))
  /\ \/ /\ Word = gword[g]
        /\ count' = count - gcount[g]
        /\ flag' = IF TakesLock(g) THEN "lock" ELSE flag
        /\ GuardGoto(g, IF TakesLock(g) THEN "take" ELSE "none")
        /\ ForgetLocals(g)
     \/ /\ Word # gword[g]
        /\ gword' = [gword EXCEPT ![g] = Word]
        /\ UNCHANGED <<count, flag, guard, gthreshold, gcount>>
  /\ UNCHANGED <<kind, o_waker, frees, notified, ownerVars, gwaker, floor>>

TakeWaker(g) ==
  /\ guard[g] = "take"
  /\ gwaker' = [gwaker EXCEPT ![g] = o_waker]
  /\ o_waker' = Nil
  /\ GuardGoto(g, "unlock")
  /\ UNCHANGED <<kind, count, flag, frees, notified, ownerVars, gthreshold, gcount,
                 gword, floor>>

(* Mutant: the count is not looked at when the lock is given up.           *)
UnlockBlind(g) ==
  /\ guard[g] = "unlock"
  /\ flag' = "none"
  /\ GuardGoto(g, "wake")
  /\ UNCHANGED <<kind, count, o_waker, frees, notified, ownerVars, gthreshold, gcount,
                 gword, gwaker, floor>>
(* fetch_and(!WAKER_FLAG_MASK): the last reference may have gone meanwhile *)
Unlock(g) ==
  /\ guard[g] = "unlock"
  /\ flag' = "none"
  /\ GuardGoto(g, IF kind = "owned" /\ count = 0 THEN "free" ELSE "wake")
  /\ UNCHANGED <<kind, count, o_waker, frees, notified, ownerVars, gthreshold, gcount,
                 gword, gwaker, floor>>

Wake(g) ==
  /\ guard[g] = "wake"
  /\ notified' = notified \cup ({gwaker[g]} \ {Nil})
  /\ gwaker' = [gwaker EXCEPT ![g] = Nil]
  /\ GuardGoto(g, "none")
  /\ UNCHANGED <<kind, mem, ownerVars, gthreshold, gcount, gword, floor>>

Free(g) ==
  /\ guard[g] \in {"last", "free"}
  /\ frees' = frees + 1
  /\ gwaker' = [gwaker EXCEPT ![g] = Nil]
  /\ GuardGoto(g, "none")
  /\ UNCHANGED <<kind, count, flag, o_waker, notified, ownerVars, gthreshold, gcount,
                 gword, floor>>

-----------------------------------------------------------------------------
(* The state when new() returns, for a threshold the words are compared to *)
Start(k, t) ==
  /\ kind = k
  /\ count = (IF k = "owned" THEN 1 ELSE 0) /\ flag = "none" /\ o_waker = Nil /\ frees = 0
  /\ notified = {}
  /\ owner = "idle" /\ threshold = t
  /\ word = NoWord /\ ctx = Nil /\ timed = FALSE /\ skip = FALSE
  /\ pending = Nil
  /\ guard = [g \in Guards |-> "none"]
  /\ gthreshold = [g \in Guards |-> 1]
  /\ gcount = [g \in Guards |-> 0]
  /\ gword = [g \in Guards |-> NoWord]
  /\ gwaker = [g \in Guards |-> Nil]
  /\ floor = threshold

Init == \E k \in Kinds, n \in Thresholds :
          Start(k, IF k = "owned" THEN n + 1 ELSE n)

WaitStep == \/ CheckCount \/ Recheck \/ LoadWord \/ LockWaker \/ PutWaker
            \/ PublishWaker \/ Unpark

DoneStep(g) == \/ DoneLast(g) \/ DoneCas(g) \/ TakeWaker(g) \/ Unlock(g)
               \/ Wake(g) \/ Free(g)

Terminated == /\ owner \in {"gone", "unwrapped"} /\ \A g \in Guards : guard[g] = "none"
              /\ UNCHANGED vars

Next == \/ SetThreshold \/ Drop \/ Destroy \/ TryIntoInner
        \/ Wait \/ Expire \/ DropFuture \/ WaitStep
        \/ \E c \in Tasks : Poll(c)
        \/ \E g \in Guards : AddGuard(g) \/ AddMany(g) \/ Done(g) \/ DoneStep(g)
        \/ \E g, h \in Guards : Clone(g, h)
        \/ Terminated

Spec == Init /\ [][Next]_vars

(* A thread inside a call runs on, and an executor polls a woken task.     *)
(* Nobody relies on the time of a wait_timeout() being up: until then it   *)
(* is a wait().                                                            *)
Fairness ==
  /\ WF_vars((owner = "park" => Thread \in notified) /\ WaitStep)
  /\ WF_vars(\E c \in notified \cap Tasks : Poll(c))
  /\ \A g \in Guards : WF_vars(DoneStep(g))
FairSpec == Spec /\ Fairness

-----------------------------------------------------------------------------
(* Properties *)

(* The threads that may still touch the allocation: a guard that only has  *)
(* its waker left to wake does not.                                        *)
OwnerIn == owner \notin {"gone", "unwrapped"}
GuardsIn == {g \in Guards : guard[g] \notin {"none", "wake"}}

(* The allocation is freed once, after the last access of every other      *)
(* thread ("when WAKER_FLAG_LOCK is set, not allow to free the memory"),   *)
(* and it is freed once nobody refers to it any more.                      *)
FreedOnce ==
  frees = (IF ~OwnerIn /\ GuardsIn = {} THEN 1 ELSE 0)

(* The same as long as the allocation is not given up by try_into_inner.   *)
FreedByDrop == owner # "unwrapped" => FreedOnce

(* The reference count is the number of references: the owner's, and what  *)
(* each guard stands for whose done() has not decremented it.              *)
CountIsRefs ==
  frees = 0 =>
    count = MapThenSumSet(LAMBDA g : gcount[g], Guards)
            + Cardinality({g \in Guards : guard[g] = "last"})
            + (IF OwnerIn /\ kind = "owned" THEN 1 ELSE 0)

(* The plain waker cell is in the hands of one thread at a time: the owner *)
(* in set_waker, or the guard that holds WAKER_FLAG_LOCK.                  *)
CellExclusive ==
  LET takers == {g \in Guards : guard[g] = "take"} IN
  /\ Cardinality(takers) <= 1
  /\ owner \in {"replace", "put"} => takers = {}

(* No call is in progress except a wait that sleeps.                       *)
Asleep == \/ owner = "park" /\ Thread \notin notified
          \/ owner = "idle" /\ pending # Nil /\ pending \notin notified
Quiescent == /\ \A g \in Guards : guard[g] \in {"none", "held"}
             /\ owner \in {"idle", "park"}

(* No lost wakeup: when no done() is running, an owner that sleeps in      *)
(* wait(), wait_timeout() or a future is still short of the threshold its  *)
(* guards carry (set_threshold to a larger value is documented to wake     *)
(* late, hence the smallest one).                                          *)
NoLostWakeup ==
  Quiescent /\ Asleep => count > Min({floor, threshold})

(* A wait() or a future that sleeps when the count has come down to every  *)
(* threshold its guards carry ends, or a guard is added.                   *)
WaitEnds ==
  (owner = "park" \/ pending # Nil) /\ count <= Min({floor, threshold})
    ~> (owner # "park" /\ pending = Nil) \/ count > Min({floor, threshold})

=============================================================================
