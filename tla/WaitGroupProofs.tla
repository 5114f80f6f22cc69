-------------------------- MODULE WaitGroupProofs --------------------------
(***************************************************************************)
(* Proofs about WaitGroup, for any finite set of guards, any thresholds    *)
(* and any tasks: who may touch the waker cell, who frees the allocation   *)
(* and when, and that no wakeup is lost.                                   *)
(***************************************************************************)
EXTENDS WaitGroup, Integers, FiniteSetTheorems, TLAPS

(* The provers of a leaf that names none, in this order, with time in      *)
(* seconds that is enough on a slow machine too.                           *)
USE ZenonT(4), SMTT(60), Z3T(60), ZenonT(60)

-----------------------------------------------------------------------------
(* The waker cell.  CellExclusive needs LockInv, which relates the flag to *)
(* the control points that hold the lock, and LockInv rests on the types   *)
(* of the words.                                                           *)

Words == Int \X FlagsSet
ThinWaker == Tasks \cup {Thread}

OwnerLabels == {"idle", "destroy", "gone", "unwrapped", "check", "load", "recheck",
                "lock", "replace", "put", "xor", "or", "park"}
GuardLabels == {"none", "held", "done", "last", "take", "unlock", "wake", "free"}

(* The type of every variable.  That the count of a WaitGroupInline stays  *)
(* above zero is a fact about sums, which is left to TLC (CountIsRefs).    *)
MemType == /\ kind \in {"owned", "inline"} /\ count \in Int /\ flag \in FlagsSet
           /\ o_waker \in ThinWaker \cup {Nil} /\ frees \in Nat
           /\ notified \subseteq ThinWaker /\ floor \in Nat
OwnerType == /\ owner \in OwnerLabels /\ threshold \in Nat /\ word \in Words
             /\ ctx \in ThinWaker \cup {Nil} /\ timed \in BOOLEAN /\ skip \in BOOLEAN
             /\ pending \in ThinWaker \cup {Nil}
GuardType == /\ guard \in [Guards -> GuardLabels]
             /\ gthreshold \in [Guards -> Nat] /\ gcount \in [Guards -> Nat]
             /\ gword \in [Guards -> Words]
             /\ gwaker \in [Guards -> ThinWaker \cup {Nil}]
TypeInv == MemType /\ OwnerType /\ GuardType

(* Who holds WAKER_FLAG_LOCK.                                              *)
Holder(g) == guard[g] \in {"take", "unlock"}
OwnerHolds == owner \in {"replace", "xor"}

LockInv ==
  /\ \A g, h \in Guards : Holder(g) /\ Holder(h) => g = h
  /\ \A g \in Guards : Holder(g) => flag = "lock" /\ ~OwnerHolds
  /\ OwnerHolds => flag = "lock"
  /\ owner \in {"put", "or"} => flag = "none"
  /\ owner = "lock" => word[2] = "set"
  /\ flag = "lock" => OwnerHolds \/ \E g \in Guards : Holder(g)

-----------------------------------------------------------------------------
(* Lemmas *)

(* The smaller of two thresholds.                                          *)
LEMMA MinOfTwo ==
  ASSUME NEW x \in Nat, NEW y \in Nat
  PROVE  Min({x, y}) \in Nat /\ Min({x, y}) <= x /\ Min({x, y}) <= y
<1>1. \E z \in {x, y} : \A w \in {x, y} : z <= w
  <2>1. CASE x <= y BY <2>1
  <2>2. CASE y <= x BY <2>2
  <2>. QED BY <2>1, <2>2
<1>. QED BY <1>1 DEF Min

(* Every step keeps the type of the words and of the locals.               *)
LEMMA TypeInit == Init => TypeInv
<1>. SUFFICES ASSUME NEW k \in Kinds, NEW n \in Thresholds,
                     Start(k, IF k = "owned" THEN n + 1 ELSE n)
              PROVE  TypeInv
  BY DEF Init
<1>1. NoWord \in Words BY DEF NoWord, Words, FlagsSet
<1>2. n \in Nat /\ k \in {"owned", "inline"} BY WaitGroupAssumption
<1>3. MemType BY <1>2 DEF Start, MemType, FlagsSet, ThinWaker
<1>4. threshold \in Nat BY <1>2 DEF Start
<1>5. OwnerType BY ZenonT(60), <1>1, <1>4 DEF Start, OwnerType, OwnerLabels, ThinWaker
<1>6. GuardType BY <1>1 DEF Start, GuardType, GuardLabels, ThinWaker
<1>. QED BY <1>3, <1>5, <1>6 DEF TypeInv

(* The words a thread may have a copy of.                                  *)
LEMMA WordTypes == TypeInv => Word \in Words /\ NoWord \in Words
BY DEF TypeInv, MemType, Word, NoWord, Words, FlagsSet

LEMMA TypeOwner ==
  ASSUME TypeInv, SetThreshold \/ Drop \/ Destroy \/ TryIntoInner \/ Wait \/ Expire
                  \/ DropFuture \/ CheckCount \/ Recheck \/ Unpark
  PROVE  TypeInv'
<1>. USE WaitGroupAssumption
     DEF TypeInv, MemType, OwnerType, GuardType, NoWord, Words, FlagsSet, OwnerLabels,
         ThinWaker, mem, ownerVars, guardVars, waiting, Word, Ends, GoesOn
<1>1. CASE SetThreshold BY <1>1 DEF SetThreshold
<1>2. CASE Drop BY <1>2 DEF Drop
<1>3. CASE Destroy BY <1>3 DEF Destroy
<1>4. CASE TryIntoInner BY <1>4 DEF TryIntoInner
<1>5. CASE Wait BY ZenonT(60), <1>5 DEF Wait
<1>6. CASE Expire BY ZenonT(60), <1>6 DEF Expire
<1>7. CASE DropFuture BY ZenonT(60), <1>7 DEF DropFuture
<1>8. CASE CheckCount BY ZenonT(60), <1>8 DEF CheckCount
<1>9. CASE Recheck BY ZenonT(60), <1>9 DEF Recheck
<1>10. CASE Unpark BY <1>10 DEF Unpark
<1>. QED BY ZenonT(60), <1>1, <1>2, <1>3, <1>4, <1>5, <1>6, <1>7, <1>8, <1>9, <1>10

LEMMA TypeWaker ==
  ASSUME TypeInv, LoadWord \/ LockWaker \/ PutWaker \/ PublishWaker
                  \/ \E c \in Tasks : Poll(c)
  PROVE  TypeInv'
<1>. USE WaitGroupAssumption, WordTypes
     DEF TypeInv, MemType, OwnerType, GuardType, FlagsSet, OwnerLabels,
         ThinWaker, mem, ownerVars, guardVars, waiting, Ends, GoesOn, WakerIsSet
<1>1. CASE LoadWord BY ZenonT(60), <1>1 DEF LoadWord
<1>2. CASE LockWaker BY <1>2 DEF LockWaker
<1>3. CASE PutWaker BY <1>3 DEF PutWaker
<1>4. CASE PublishWaker BY ZenonT(60), <1>4 DEF PublishWaker, Xor
<1>5. ASSUME NEW c \in Tasks, Poll(c) PROVE TypeInv' BY ZenonT(60), <1>5 DEF Poll
<1>. QED BY <1>1, <1>2, <1>3, <1>4, <1>5

LEMMA TypeGuard ==
  ASSUME TypeInv, NEW g \in Guards, NEW h \in Guards,
         AddGuard(g) \/ AddMany(g) \/ Done(g) \/ DoneStep(g) \/ Clone(g, h)
  PROVE  TypeInv'
<1>. USE WaitGroupAssumption, WordTypes
     DEF TypeInv, MemType, OwnerType, GuardType, FlagsSet, GuardLabels,
         ThinWaker, mem, ownerVars, guardVars, waiting, GuardGoto, ForgetLocals
<1>1. ASSUME NEW n \in Nat, AddRefs(g, n) PROVE TypeInv'
  BY <1>1, MinOfTwo DEF AddRefs
<1>2. CASE AddGuard(g) \/ AddMany(g) BY <1>1, <1>2 DEF AddGuard, AddMany
<1>3. CASE Done(g) BY <1>3 DEF Done
<1>4. CASE DoneLast(g) BY <1>4 DEF DoneLast
<1>5. CASE DoneCas(g) BY <1>5 DEF DoneCas
<1>6. CASE TakeWaker(g) BY <1>6 DEF TakeWaker
<1>7. CASE Unlock(g) BY <1>7 DEF Unlock
<1>8. CASE Wake(g) BY <1>8 DEF Wake
<1>9. CASE Free(g) BY <1>9 DEF Free
<1>10. CASE Clone(g, h) BY <1>10 DEF Clone
<1>. QED BY ZenonT(60), <1>2, <1>3, <1>4, <1>5, <1>6, <1>7, <1>8, <1>9, <1>10 DEF DoneStep

LEMMA TypeStep == TypeInv /\ [Next]_vars => TypeInv'
<1>. SUFFICES ASSUME TypeInv, [Next]_vars PROVE TypeInv' OBVIOUS
<1>1. CASE UNCHANGED vars
  BY <1>1 DEF vars, mem, ownerVars, guardVars, waiting, TypeInv, MemType, OwnerType,
              GuardType
<1>2. CASE Next
  BY <1>1, <1>2, TypeOwner, TypeWaker, TypeGuard DEF Next, WaitStep, Terminated
<1>. QED BY <1>1, <1>2

-----------------------------------------------------------------------------
(* The waker lock *)

(* LockInv looks at nothing but the flag and the control points.           *)
LEMMA LockKept ==
  ASSUME LockInv, UNCHANGED <<flag, guard>>,
         owner' \in {"replace", "xor"} <=> OwnerHolds,
         owner' \in {"put", "or"} => owner \in {"put", "or"} \/ flag = "none",
         owner' = "lock" => word'[2] = "set"
  PROVE  LockInv'
BY DEF LockInv, Holder, OwnerHolds

(* The calls of the owner, and the steps of its waits, keep the lock with  *)
(* whoever has it.                                                         *)
LEMMA LockOwner ==
  ASSUME TypeInv, LockInv,
         SetThreshold \/ Drop \/ Destroy \/ TryIntoInner \/ Wait \/ Expire
         \/ DropFuture \/ WaitStep \/ \E c \in Tasks : Poll(c)
  PROVE  LockInv'
<1>. USE DEF mem, ownerVars, guardVars, waiting, Ends, GoesOn, OwnerHolds
<1>1. CASE SetThreshold \/ Drop \/ Destroy \/ TryIntoInner \/ Wait \/ Expire \/ DropFuture
  BY ZenonT(60), <1>1, LockKept
     DEF SetThreshold, Drop, Destroy, TryIntoInner, Wait, Expire, DropFuture
<1>2. CASE CheckCount \/ Recheck \/ Unpark \/ \E c \in Tasks : Poll(c)
  BY <1>2, LockKept DEF CheckCount, Recheck, Unpark, Poll
<1>3. CASE LoadWord BY <1>3, LockKept DEF LoadWord, WakerIsSet, Word
<1>4. CASE LockWaker
  BY <1>4 DEF LockWaker, LockInv, Holder, Word
<1>5. CASE PutWaker BY <1>5 DEF PutWaker, LockInv, Holder
<1>6. CASE PublishWaker
  BY <1>6 DEF PublishWaker, LockInv, Holder, WakerIsSet, Xor
<1>. QED BY <1>1, <1>2, <1>3, <1>4, <1>5, <1>6 DEF WaitStep

(* A guard gets the lock when nobody has it, and gives it up itself.       *)
LEMMA LockGuard ==
  ASSUME TypeInv, LockInv, NEW g \in Guards, NEW h \in Guards,
         AddGuard(g) \/ AddMany(g) \/ Done(g) \/ DoneStep(g) \/ Clone(g, h)
  PROVE  LockInv'
<1>. USE DEF TypeInv, GuardType, mem, ownerVars, GuardGoto, LockInv, Holder, OwnerHolds
<1>1. CASE AddGuard(g) \/ AddMany(g) BY <1>1 DEF AddGuard, AddMany, AddRefs
<1>2. CASE Done(g) BY <1>2 DEF Done
<1>3. CASE DoneLast(g) BY <1>3 DEF DoneLast
<1>4. CASE DoneCas(g)
  <2>1. CASE Word = gword[g] /\ TakesLock(g)
    BY <1>4, <2>1 DEF DoneCas, TakesLock, Word
  <2>2. CASE Word = gword[g] /\ ~TakesLock(g) BY <1>4, <2>2 DEF DoneCas
  <2>3. CASE Word # gword[g] BY <1>4, <2>3 DEF DoneCas
  <2>. QED BY <2>1, <2>2, <2>3
<1>5. CASE TakeWaker(g) BY <1>5 DEF TakeWaker
<1>6. CASE Unlock(g) BY <1>6 DEF Unlock
<1>7. CASE Wake(g) BY <1>7 DEF Wake
<1>8. CASE Free(g) BY <1>8 DEF Free
<1>9. CASE Clone(g, h) BY <1>9 DEF Clone
<1>. QED BY <1>1, <1>2, <1>3, <1>4, <1>5, <1>6, <1>7, <1>8, <1>9 DEF DoneStep

LEMMA LockStep == TypeInv /\ LockInv /\ [Next]_vars => LockInv'
<1>. SUFFICES ASSUME TypeInv, LockInv, [Next]_vars PROVE LockInv' OBVIOUS
<1>1. CASE UNCHANGED vars
  BY <1>1 DEF vars, mem, ownerVars, guardVars, LockInv, Holder, OwnerHolds
<1>2. CASE Next BY <1>1, <1>2, LockOwner, LockGuard DEF Next, Terminated
<1>. QED BY <1>1, <1>2

LEMMA LockInit == Init => LockInv
BY DEF Init, Start, LockInv, Holder, OwnerHolds

LEMMA LockAlways == Spec => [](TypeInv /\ LockInv)
BY TypeInit, TypeStep, LockInit, LockStep, PTL DEF Spec

(* The waker cell of a wait group, a plain cell, is in the hands of one    *)
(* thread at a time: set_waker of the owner, or the done() that holds      *)
(* WAKER_FLAG_LOCK, however many guards are dropped at the same time.      *)
THEOREM CellIsExclusive == Spec => []CellExclusive
<1>1. ASSUME LockInv PROVE CellExclusive
  <2>. DEFINE takers == {g \in Guards : guard[g] = "take"}
  <2>1. Cardinality(takers) <= 1
    <3>1. CASE takers = {} BY <3>1, FS_EmptySet
    <3>2. ASSUME NEW g \in takers PROVE Cardinality(takers) <= 1
      <4>1. takers = {g} BY <1>1 DEF LockInv, Holder
      <4>. QED BY <4>1, FS_Singleton
    <3>. QED BY <3>1, <3>2
  <2>2. owner \in {"replace", "put"} => takers = {}
    BY <1>1 DEF LockInv, Holder, OwnerHolds
  <2>. QED BY <2>1, <2>2 DEF CellExclusive
<1>. QED BY <1>1, LockAlways, PTL

-----------------------------------------------------------------------------
(* The allocation.  RefInv counts the guards that hold a reference, and    *)
(* says who is alone when the allocation is about to be freed.             *)

(* The guards whose reference is counted, and the guards at rest.          *)
Refs == {g \in Guards : guard[g] \in {"held", "done", "last"}}
Out(g) == guard[g] \in {"none", "wake"}

RefInv ==
  /\ kind = "inline" =>
       /\ frees = 0 /\ owner \notin {"destroy", "gone", "unwrapped"}
       /\ \A g \in Guards : guard[g] \notin {"last", "free"}
  /\ kind = "owned" /\ owner # "unwrapped" =>
       /\ FreedOnce
       /\ frees = 0 => count = Cardinality(Refs) + (IF OwnerIn THEN 1 ELSE 0)
       /\ \A g \in Guards : guard[g] \in {"held", "done"} => gcount[g] = 1
       /\ \A g \in Guards : guard[g] \in {"last", "free"} =>
            owner = "gone" /\ \A h \in Guards \ {g} : Out(h)
       /\ owner = "destroy" /\ word[2] # "lock" /\ word[1] <= 1 =>
            \A g \in Guards : Out(g)

-----------------------------------------------------------------------------
(* References *)

(* The number of references is a natural number, zero for no reference.    *)
LEMMA RefsCount ==
  /\ IsFiniteSet(Refs) /\ Cardinality(Refs) \in Nat
  /\ Cardinality(Refs) = 0 <=> Refs = {}
<1>1. IsFiniteSet(Refs) BY WaitGroupAssumption, FS_Subset DEF Refs
<1>. QED BY <1>1, FS_CardinalityType, FS_EmptySet

(* One more reference, and one less.                                       *)
LEMMA RefsAdd ==
  ASSUME NEW g \in Guards, g \notin Refs, Refs' = Refs \cup {g}
  PROVE  Cardinality(Refs') = Cardinality(Refs) + 1
BY RefsCount, FS_AddElement

LEMMA RefsRemove ==
  ASSUME NEW g \in Refs, Refs' = Refs \ {g}
  PROVE  Cardinality(Refs') = Cardinality(Refs) - 1
BY RefsCount, FS_RemoveElement

(* A single reference is that of the guard that has one.                   *)
LEMMA RefsSingle ==
  ASSUME NEW g \in Refs
  PROVE  /\ Cardinality(Refs) >= 1
         /\ Cardinality(Refs) = 1 => Refs = {g}
<1>1. IsFiniteSet(Refs \ {g}) /\ Cardinality(Refs \ {g}) = Cardinality(Refs) - 1
  BY RefsCount, FS_RemoveElement
<1>2. Cardinality(Refs \ {g}) \in Nat BY <1>1, FS_CardinalityType
<1>3. Cardinality(Refs) = 1 => Refs \ {g} = {} BY <1>1, FS_EmptySet
<1>. QED BY <1>1, <1>2, <1>3, RefsCount

(* What the invariant says of a wait group with an owned allocation.       *)
Owned == kind = "owned" /\ owner # "unwrapped"
Held == IF OwnerIn THEN 1 ELSE 0

(* Whoever is in keeps the allocation.                                     *)
LEMMA NotFreed ==
  ASSUME RefInv, Owned, OwnerIn \/ \E g \in Guards : ~Out(g)
  PROVE  frees = 0 /\ count = Cardinality(Refs) + Held
BY DEF RefInv, Owned, FreedOnce, GuardsIn, Out, Held

LEMMA RefInit == Init => RefInv
<1>. SUFFICES ASSUME NEW k \in Kinds, NEW n \in Thresholds,
                     Start(k, IF k = "owned" THEN n + 1 ELSE n)
              PROVE  RefInv
  BY DEF Init
<1>1. Refs = {} BY DEF Start, Refs
<1>2. Cardinality(Refs) = 0 BY <1>1, RefsCount
<1>3. OwnerIn BY DEF Start, OwnerIn
<1>. QED BY <1>2, <1>3 DEF Start, RefInv, FreedOnce

(* A step that moves no reference and nobody in or out.                    *)
LEMMA RefKept ==
  ASSUME RefInv, UNCHANGED <<kind, count, frees, guard, gcount>>,
         owner \notin {"destroy", "gone", "unwrapped"},
         owner' \notin {"destroy", "gone", "unwrapped"}
  PROVE  RefInv'
<1>1. OwnerIn /\ OwnerIn' BY DEF OwnerIn
<1>2. Refs' = Refs /\ GuardsIn' = GuardsIn BY DEF Refs, GuardsIn
<1>. QED BY <1>1, <1>2 DEF RefInv, FreedOnce, Out

(* The waits of the owner.                                                 *)
LEMMA RefWait ==
  ASSUME RefInv, SetThreshold \/ Wait \/ Expire \/ DropFuture \/ WaitStep
                 \/ \E c \in Tasks : Poll(c)
  PROVE  RefInv'
<1>. USE RefKept DEF mem, ownerVars, guardVars, waiting, Ends, GoesOn, WakerIsSet
<1>1. CASE SetThreshold \/ Wait \/ Expire \/ DropFuture
  BY <1>1 DEF SetThreshold, Wait, Expire, DropFuture
<1>2. CASE CheckCount \/ Recheck \/ Unpark \/ \E c \in Tasks : Poll(c)
  BY <1>2 DEF CheckCount, Recheck, Unpark, Poll
<1>3. CASE LoadWord BY <1>3 DEF LoadWord
<1>4. CASE LockWaker \/ PutWaker \/ PublishWaker
  BY <1>4 DEF LockWaker, PutWaker, PublishWaker
<1>. QED BY <1>1, <1>2, <1>3, <1>4 DEF WaitStep

(* A word without a lock and with the owner's reference only is one of a   *)
(* group whose guards are all out.                                         *)
LEMMA AllOut ==
  ASSUME TypeInv, LockInv, RefInv, Owned, OwnerIn, ~OwnerHolds,
         flag # "lock", count <= 1
  PROVE  \A g \in Guards : Out(g)
<1>1. count = Cardinality(Refs) + 1 BY NotFreed DEF Held
<1>2. Refs = {} BY <1>1, RefsCount
<1>3. ASSUME NEW g \in Guards PROVE Out(g)
  <2>1. guard[g] \notin {"held", "done", "last"} BY <1>2 DEF Refs
  <2>2. ~Holder(g) BY DEF LockInv
  <2>3. guard[g] # "free" BY DEF RefInv, Owned, OwnerIn
  <2>. QED BY <2>1, <2>2, <2>3 DEF TypeInv, GuardType, GuardLabels, Holder, Out
<1>. QED BY <1>3

(* The drop of the owner: the last one in frees.                           *)
LEMMA RefDrop ==
  ASSUME TypeInv, LockInv, RefInv, Drop
  PROVE  RefInv'
<1>1. Owned /\ OwnerIn /\ ~OwnerHolds /\ Owned' /\ OwnerIn'
  BY DEF Drop, Owned, OwnerIn, OwnerHolds
<1>2. UNCHANGED <<kind, count, frees, guard, gcount>> /\ owner' = "destroy"
  BY DEF Drop, mem, guardVars
<1>3. Refs' = Refs /\ GuardsIn' = GuardsIn BY <1>2 DEF Refs, GuardsIn
<1>4. word' = <<count, flag>> BY DEF Drop, Word
<1>5. word'[2] # "lock" /\ word'[1] <= 1 => \A g \in Guards : Out(g)'
  BY <1>1, <1>2, <1>4, AllOut DEF Out
<1>6. \A g \in Guards : guard[g] \notin {"last", "free"}
  BY <1>1 DEF RefInv, Owned, OwnerIn
<1>7. frees = 0 /\ count = Cardinality(Refs) + 1 BY <1>1, NotFreed DEF Held
<1>8. \A g \in Guards : guard[g] \in {"held", "done"} => gcount[g] = 1
  BY <1>1 DEF RefInv, Owned
<1>9. FreedOnce' BY <1>1, <1>2, <1>7 DEF FreedOnce
<1>. QED BY <1>1, <1>2, <1>3, <1>5, <1>6, <1>7, <1>8, <1>9 DEF RefInv, Owned

LEMMA RefDestroy ==
  ASSUME TypeInv, LockInv, RefInv, Destroy
  PROVE  RefInv'
<1>0. kind = "owned" BY DEF Destroy, RefInv, TypeInv, MemType
<1>1. Owned /\ OwnerIn /\ ~OwnerHolds
  BY <1>0 DEF Destroy, Owned, OwnerIn, OwnerHolds
<1>2. UNCHANGED <<kind, flag, guard, gcount>> BY DEF Destroy, guardVars
<1>3. Refs' = Refs /\ GuardsIn' = GuardsIn BY <1>2 DEF Refs, GuardsIn
<1>4. frees = 0 /\ count = Cardinality(Refs) + 1 BY <1>1, NotFreed DEF Held
<1>5. \A g \in Guards : guard[g] \notin {"last", "free"}
  BY <1>1 DEF RefInv, Owned, OwnerIn
<1>6. \A g \in Guards : guard[g] \in {"held", "done"} => gcount[g] = 1
  BY <1>1 DEF RefInv, Owned
<1>. DEFINE shared == word[2] = "lock" \/ word[1] > 1
<1>7. CASE shared /\ Word = word
  <2>1. count' = count - 1 /\ owner' = "gone" /\ frees' = 0
    BY <1>4, <1>7 DEF Destroy
  <2>2. ~OwnerIn' /\ Owned' BY <1>1, <1>2, <2>1 DEF OwnerIn, Owned
  <2>3. \E g \in Guards : ~Out(g)
    <3>1. CASE count > 1
      BY <1>4, <3>1, RefsCount DEF Refs, Out
    <3>2. CASE flag = "lock"
      BY <1>1, <3>2 DEF LockInv, Holder, Out
    <3>. QED BY <1>7, <3>1, <3>2 DEF Word
  <2>4. GuardsIn' # {} BY <1>3, <2>3 DEF GuardsIn, Out
  <2>5. FreedOnce' BY <2>1, <2>2, <2>4 DEF FreedOnce
  <2>6. count' = Cardinality(Refs') + (IF OwnerIn' THEN 1 ELSE 0)
    BY <1>3, <1>4, <2>1, <2>2, RefsCount
  <2>. QED BY <1>0, <1>2, <1>5, <1>6, <2>1, <2>5, <2>6 DEF RefInv
<1>8. CASE shared /\ Word # word
  <2>1. UNCHANGED <<count, owner, frees>> /\ word' = <<count, flag>>
    BY <1>8 DEF Destroy, Word
  <2>2. OwnerIn' /\ Owned' BY <1>1, <1>2, <2>1 DEF OwnerIn, Owned
  <2>3. FreedOnce' BY <1>4, <2>1, <2>2 DEF FreedOnce
  <2>4. word'[2] # "lock" /\ word'[1] <= 1 => \A g \in Guards : Out(g)'
    BY <1>1, <1>2, <2>1, AllOut DEF Out
  <2>. QED BY <1>0, <1>2, <1>3, <1>4, <1>5, <1>6, <2>1, <2>2, <2>3, <2>4
           DEF RefInv, Owned
<1>9. CASE ~shared
  <2>1. UNCHANGED count /\ owner' = "gone" /\ frees' = 1
    BY <1>4, <1>9 DEF Destroy
  <2>2. word[2] # "lock" /\ word[1] <= 1
    BY <1>9 DEF TypeInv, OwnerType, Words
  <2>3. \A g \in Guards : Out(g) BY <1>1, <2>2 DEF RefInv, Owned, Destroy
  <2>4. ~OwnerIn' /\ GuardsIn' = {} BY <1>3, <2>1, <2>3 DEF OwnerIn, GuardsIn, Out
  <2>5. FreedOnce' BY <2>1, <2>4 DEF FreedOnce
  <2>. QED BY <1>0, <1>2, <1>5, <1>6, <2>1, <2>5 DEF RefInv
<1>. QED BY <1>7, <1>8, <1>9

LEMMA RefOwner ==
  ASSUME TypeInv, LockInv, RefInv, Drop \/ Destroy \/ TryIntoInner
  PROVE  RefInv'
BY RefDrop, RefDestroy DEF TryIntoInner, RefInv

(* A new reference, which only somebody gives who has one.                 *)
LEMMA RefNew ==
  ASSUME TypeInv, RefInv, NEW g \in Guards, guard[g] = "none",
         UNCHANGED <<kind, frees, owner, word>>,
         guard' = [guard EXCEPT ![g] = "held"],
         kind = "owned" => /\ count' = count + 1
                           /\ gcount' = [gcount EXCEPT ![g] = 1],
         owner \notin {"destroy", "gone", "unwrapped"}
           \/ \E h \in Guards : guard[h] = "held"
  PROVE  RefInv'
<1>. USE DEF TypeInv, GuardType
<1>1. CASE kind = "inline" \/ owner = "unwrapped" BY <1>1 DEF RefInv, MemType
<1>2. CASE Owned
  <2>1. Owned' /\ OwnerIn' = OwnerIn BY <1>2 DEF Owned, OwnerIn
  <2>2. OwnerIn \/ \E h \in Guards : ~Out(h) BY DEF OwnerIn, Out
  <2>3. frees = 0 /\ count = Cardinality(Refs) + Held BY <1>2, <2>2, NotFreed
  <2>4. Refs' = Refs \cup {g} /\ g \notin Refs BY DEF Refs
  <2>5. count' = Cardinality(Refs') + Held
    <3>1. Cardinality(Refs') = Cardinality(Refs) + 1 BY <2>4, RefsAdd
    <3>2. Held \in Nat BY DEF Held
    <3>. QED BY <1>2, <2>3, <3>1, <3>2, RefsCount DEF Owned
  <2>6. FreedOnce' BY <2>3 DEF FreedOnce, GuardsIn
  <2>7. \A h \in Guards : guard[h] \notin {"last", "free"}
    BY <1>2 DEF RefInv, Owned, Out
  <2>8. ~(owner = "destroy" /\ word[2] # "lock" /\ word[1] <= 1)
    BY <1>2 DEF RefInv, Owned, Out
  <2>9. \A h \in Guards : guard'[h] \in {"held", "done"} => gcount'[h] = 1
    BY <1>2 DEF RefInv, Owned
  <2>. QED BY <1>2, <2>1, <2>3, <2>5, <2>6, <2>7, <2>8, <2>9 DEF RefInv, Owned, Held
<1>. QED BY <1>1, <1>2 DEF MemType, Owned

(* A guard that moves without giving up its reference, or without having   *)
(* one, and stays in.                                                      *)
LEMMA RefMove ==
  ASSUME TypeInv, RefInv, NEW g \in Guards,
         UNCHANGED <<kind, count, frees, owner, word, gcount>>,
         \/ guard[g] = "held" /\ guard' = [guard EXCEPT ![g] = "done"]
         \/ guard[g] = "take" /\ guard' = [guard EXCEPT ![g] = "unlock"]
  PROVE  RefInv'
<1>. USE DEF TypeInv, GuardType
<1>1. CASE kind = "inline" \/ owner = "unwrapped" BY <1>1 DEF RefInv, MemType
<1>2. CASE Owned
  <2>1. Refs' = Refs /\ GuardsIn' = GuardsIn /\ OwnerIn' = OwnerIn
    BY DEF Refs, GuardsIn, OwnerIn
  <2>2. \A h \in Guards : guard[h] \notin {"last", "free"}
    BY <1>2 DEF RefInv, Owned, Out
  <2>3. ~(owner = "destroy" /\ word[2] # "lock" /\ word[1] <= 1)
    BY <1>2 DEF RefInv, Owned, Out
  <2>. QED BY <1>2, <2>1, <2>2, <2>3 DEF RefInv, Owned, FreedOnce
<1>. QED BY <1>1, <1>2 DEF MemType, Owned

(* done() that gives up a reference and is not the last one in: somebody   *)
(* else is, or this one has taken the lock.                                *)
LEMMA RefDone ==
  ASSUME TypeInv, LockInv, RefInv, NEW g \in Guards, DoneCas(g)
  PROVE  RefInv'
<1>. USE DEF TypeInv, GuardType
<1>0. UNCHANGED <<kind, frees, owner, word>> /\ guard[g] = "done"
  BY DEF DoneCas, ownerVars
<1>1. CASE Word # gword[g]
  <2>1. UNCHANGED <<count, guard, gcount>> BY <1>1 DEF DoneCas
  <2>2. UNCHANGED <<Refs, GuardsIn, OwnerIn>> BY <1>0, <2>1 DEF Refs, GuardsIn, OwnerIn
  <2>. QED BY <1>0, <2>1, <2>2 DEF RefInv, FreedOnce, Out
<1>. SUFFICES ASSUME Word = gword[g] PROVE RefInv'
  BY <1>1
<1>2. PICK l \in {"take", "none"} : guard' = [guard EXCEPT ![g] = l]
  BY DEF DoneCas, GuardGoto
<1>3. TakesLock(g) <=> l = "take"
  BY <1>2 DEF DoneCas, GuardGoto
<1>4. count' = count - gcount[g] /\ gcount' = [gcount EXCEPT ![g] = 0]
  BY DEF DoneCas, ForgetLocals
<1>5. CASE kind = "inline" \/ owner = "unwrapped"
  BY <1>0, <1>2, <1>5 DEF RefInv, MemType
<1>6. CASE Owned
  <2>1. frees = 0 /\ count = Cardinality(Refs) + Held
    BY <1>0, <1>6, NotFreed DEF Out
  <2>2. g \in Refs /\ Refs' = Refs \ {g} BY <1>0, <1>2 DEF Refs
  <2>3. gcount[g] = 1 BY <1>0, <1>6 DEF RefInv, Owned
  <2>4. Held \in Nat /\ Held' = Held /\ OwnerIn' = OwnerIn
    BY <1>0 DEF Held, OwnerIn
  <2>5. count' = Cardinality(Refs') + Held
    <3>1. Cardinality(Refs') = Cardinality(Refs) - 1 BY <2>2, RefsRemove
    <3>. QED BY <1>4, <2>1, <2>3, <2>4, <3>1, RefsCount
  <2>6. \A h \in Guards : guard[h] \notin {"last", "free"}
    BY <1>0, <1>6 DEF RefInv, Owned, Out
  <2>7. ~(owner = "destroy" /\ word[2] # "lock" /\ word[1] <= 1)
    BY <1>0, <1>6 DEF RefInv, Owned, Out
  <2>8. \A h \in Guards : guard'[h] \in {"held", "done"} => gcount'[h] = 1
    BY <1>2, <1>4, <1>6 DEF RefInv, Owned
  <2>9. OwnerIn \/ GuardsIn' # {}
    <3>. SUFFICES ASSUME ~OwnerIn, GuardsIn' = {} PROVE FALSE OBVIOUS
    <3>1. \A h \in Guards : h # g => Out(h) BY <1>2 DEF GuardsIn, Out
    <3>2. Refs = {g} BY <2>2, <3>1 DEF Refs, Out
    <3>3. Cardinality(Refs) = 1 BY ZenonT(60), <3>2, FS_Singleton
    <3>4. count = 1 BY <2>1, <3>3 DEF Held
    <3>5. ~OwnerHolds BY DEF OwnerHolds, OwnerIn
    <3>6. flag # "lock" BY <1>0, <3>1, <3>5 DEF LockInv, Holder, Out
    <3>7. IsLast(g) BY <2>3, <3>4, <3>6 DEF IsLast, Word
    <3>. QED BY <1>6, <3>7 DEF DoneCas, Owned
  <2>10. FreedOnce' BY <1>0, <2>1, <2>4, <2>9 DEF FreedOnce
  <2>. QED BY <1>0, <1>2, <1>6, <2>4, <2>5, <2>6, <2>7, <2>8, <2>10
           DEF RefInv, Owned, Held
<1>. QED BY <1>5, <1>6 DEF MemType, Owned

(* done() that sees the only reference is alone with the allocation.       *)
LEMMA RefLast ==
  ASSUME TypeInv, LockInv, RefInv, NEW g \in Guards, DoneLast(g)
  PROVE  RefInv'
<1>. USE DEF TypeInv, GuardType
<1>0. /\ UNCHANGED <<kind, count, frees, owner, word>>
      /\ guard[g] = "done" /\ kind = "owned" /\ IsLast(g)
  BY DEF DoneLast, mem, ownerVars
<1>1. CASE Word # gword[g]
  <2>1. UNCHANGED <<guard, gcount>> BY <1>1 DEF DoneLast
  <2>2. UNCHANGED <<Refs, GuardsIn, OwnerIn>> BY <1>0, <2>1 DEF Refs, GuardsIn, OwnerIn
  <2>. QED BY <1>0, <2>1, <2>2 DEF RefInv, FreedOnce, Out
<1>2. CASE owner = "unwrapped" BY <1>0, <1>2 DEF RefInv
<1>. SUFFICES ASSUME Word = gword[g], Owned PROVE RefInv'
  BY <1>0, <1>1, <1>2 DEF Owned
<1>3. guard' = [guard EXCEPT ![g] = "last"] /\ gcount' = [gcount EXCEPT ![g] = 0]
  BY DEF DoneLast, GuardGoto, ForgetLocals
<1>4. frees = 0 /\ count = Cardinality(Refs) + Held BY <1>0, NotFreed DEF Out
<1>5. g \in Refs /\ Refs' = Refs BY <1>0, <1>3 DEF Refs
<1>6. gcount[g] = 1 BY <1>0 DEF RefInv, Owned
<1>7. count = 1 /\ flag # "lock" BY <1>0, <1>6 DEF IsLast, Word
<1>8. ~OwnerIn /\ Refs = {g}
  BY <1>4, <1>5, <1>7, RefsSingle, RefsCount DEF Held
<1>9. owner = "gone" BY <1>8 DEF OwnerIn, Owned
<1>10. \A h \in Guards \ {g} : Out(h)
  <2>. SUFFICES ASSUME NEW h \in Guards \ {g} PROVE Out(h) OBVIOUS
  <2>1. guard[h] \notin {"held", "done", "last"} BY <1>8 DEF Refs
  <2>2. ~Holder(h) BY <1>7 DEF LockInv
  <2>3. guard[h] # "free" BY <1>0 DEF RefInv, Owned, Out
  <2>. QED BY <2>1, <2>2, <2>3 DEF GuardLabels, Holder, Out
<1>11. FreedOnce' BY <1>0, <1>3, <1>4 DEF FreedOnce, GuardsIn
<1>12. \A h \in Guards : guard'[h] \in {"held", "done"} => gcount'[h] = 1
  BY <1>3 DEF RefInv, Owned
<1>13. ~OwnerIn' BY <1>0, <1>8 DEF OwnerIn
<1>14. \A h \in Guards : guard'[h] \in {"last", "free"} =>
         \A k \in Guards \ {h} : Out(k)'
  BY <1>3, <1>10 DEF Out
<1>. QED BY <1>0, <1>4, <1>5, <1>7, <1>8, <1>9, <1>11, <1>12, <1>13, <1>14, FS_Singleton
         DEF RefInv

(* The lock is given up: by the only one in, which frees, or not.          *)
LEMMA RefUnlock ==
  ASSUME TypeInv, LockInv, RefInv, NEW g \in Guards, Unlock(g)
  PROVE  RefInv'
<1>. USE DEF TypeInv, GuardType
<1>0. UNCHANGED <<kind, count, frees, owner, word, gcount>> /\ guard[g] = "unlock"
  BY DEF Unlock, ownerVars
<1>1. PICK l \in {"free", "wake"} : guard' = [guard EXCEPT ![g] = l]
  BY ZenonT(60) DEF Unlock, GuardGoto
<1>2. l = "free" <=> kind = "owned" /\ count = 0
  BY <1>1 DEF Unlock, GuardGoto
<1>3. CASE kind = "inline" \/ owner = "unwrapped"
  BY <1>0, <1>1, <1>2, <1>3 DEF RefInv, MemType
<1>4. CASE Owned
  <2>1. frees = 0 /\ count = Cardinality(Refs) + Held
    BY <1>0, <1>4, NotFreed DEF Out
  <2>2. Refs' = Refs /\ OwnerIn' = OwnerIn BY <1>0, <1>1 DEF Refs, OwnerIn
  <2>3. \A h \in Guards : guard[h] \notin {"last", "free"}
    BY ZenonT(60), <1>0, <1>4 DEF RefInv, Owned, Out
  <2>4. ~(owner = "destroy" /\ word[2] # "lock" /\ word[1] <= 1)
    BY <1>0, <1>4 DEF RefInv, Owned, Out
  <2>5. \A h \in Guards : guard'[h] \in {"held", "done"} => gcount'[h] = 1
    BY <1>0, <1>1, <1>4 DEF RefInv, Owned
  <2>6. CASE count = 0
    <3>1. Refs = {} /\ ~OwnerIn BY <2>1, <2>6, RefsCount DEF Held
    <3>2. owner = "gone" BY <1>4, <3>1 DEF OwnerIn, Owned
    <3>3. \A h \in Guards \ {g} : Out(h)
      <4>. SUFFICES ASSUME NEW h \in Guards \ {g} PROVE Out(h) OBVIOUS
      <4>1. guard[h] \notin {"held", "done", "last"} BY <3>1 DEF Refs
      <4>2. ~Holder(h) BY <1>0 DEF LockInv, Holder
      <4>. QED BY <2>3, <4>1, <4>2 DEF GuardLabels, Holder, Out
    <3>4. guard' = [guard EXCEPT ![g] = "free"] BY <1>1, <1>2, <1>4, <2>6 DEF Owned
    <3>5. FreedOnce' BY <1>0, <2>1, <3>4 DEF FreedOnce, GuardsIn
    <3>6. \A h \in Guards : guard'[h] \in {"last", "free"} =>
            \A k \in Guards \ {h} : Out(k)'
      BY <2>3, <3>3, <3>4 DEF Out
    <3>. QED BY ZenonT(60), <1>0, <1>4, <2>1, <2>2, <2>5, <3>2, <3>5, <3>6 DEF RefInv, Owned, Held
  <2>7. CASE count # 0
    <3>1. guard' = [guard EXCEPT ![g] = "wake"] BY ZenonT(60), <1>1, <1>2, <2>7
    <3>2. OwnerIn \/ Refs # {} BY <2>1, <2>7, RefsCount DEF Held
    <3>3. OwnerIn' \/ GuardsIn' # {} BY <2>2, <3>2 DEF Refs, GuardsIn
    <3>4. FreedOnce' BY <1>0, <2>1, <3>3 DEF FreedOnce
    <3>5. \A h \in Guards : guard'[h] \notin {"last", "free"} BY <2>3, <3>1
    <3>. QED BY <1>0, <1>4, <2>1, <2>2, <2>4, <2>5, <3>4, <3>5 DEF RefInv, Owned, Held
  <2>. QED BY <2>6, <2>7
<1>. QED BY <1>3, <1>4 DEF MemType, Owned

(* A waker is woken by a thread that is out.                               *)
LEMMA RefWake ==
  ASSUME TypeInv, RefInv, NEW g \in Guards, Wake(g)
  PROVE  RefInv'
<1>0. /\ UNCHANGED <<kind, count, frees, owner, word, gcount>>
      /\ guard[g] = "wake" /\ guard' = [guard EXCEPT ![g] = "none"]
  BY DEF Wake, ownerVars, mem, GuardGoto
<1>1. Refs' = Refs /\ GuardsIn' = GuardsIn /\ OwnerIn' = OwnerIn
  BY <1>0 DEF Refs, GuardsIn, OwnerIn, TypeInv, GuardType
<1>2. \A h \in Guards : Out(h)' = Out(h)
  BY <1>0 DEF Out, TypeInv, GuardType
<1>3. \A h \in Guards : guard'[h] = guard[h] \/ guard'[h] = "none"
  BY <1>0 DEF TypeInv, GuardType
<1>4. FreedOnce' = FreedOnce BY <1>0, <1>1 DEF FreedOnce
<1>5. CASE kind = "inline" \/ owner = "unwrapped"
  BY <1>0, <1>3, <1>5 DEF RefInv, TypeInv, MemType
<1>6. CASE Owned
  <2>1. FreedOnce /\ (frees = 0 => count = Cardinality(Refs) + Held)
    BY <1>6 DEF RefInv, Owned, Held
  <2>2. \A h \in Guards : guard'[h] \in {"held", "done"} => gcount'[h] = 1
    BY <1>0, <1>3, <1>6 DEF RefInv, Owned
  <2>3. \A h \in Guards : guard'[h] \in {"last", "free"} =>
          owner = "gone" /\ \A k \in Guards \ {h} : Out(k)'
    BY <1>2, <1>3, <1>6 DEF RefInv, Owned
  <2>4. owner = "destroy" /\ word[2] # "lock" /\ word[1] <= 1 =>
          \A h \in Guards : Out(h)'
    BY <1>2, <1>6 DEF RefInv, Owned
  <2>. QED BY <1>0, <1>1, <1>4, <1>6, <2>1, <2>2, <2>3, <2>4 DEF RefInv, Owned, Held
<1>. QED BY <1>5, <1>6 DEF TypeInv, MemType, Owned

(* The last one in gives the allocation back.                              *)
LEMMA RefFree ==
  ASSUME TypeInv, RefInv, NEW g \in Guards, Free(g)
  PROVE  RefInv'
<1>. USE DEF TypeInv, GuardType
<1>0. /\ UNCHANGED <<kind, count, owner, word, gcount>> /\ frees' = frees + 1
      /\ guard[g] \in {"last", "free"} /\ guard' = [guard EXCEPT ![g] = "none"]
  BY DEF Free, ownerVars, GuardGoto
<1>1. CASE owner = "unwrapped" BY ZenonT(60), <1>0, <1>1 DEF RefInv, MemType
<1>2. CASE Owned
  <2>1. owner = "gone" /\ \A h \in Guards \ {g} : Out(h)
    BY <1>0, <1>2 DEF RefInv, Owned
  <2>2. \A h \in Guards : Out(h)' BY <1>0, <2>1 DEF Out
  <2>3. frees = 0 BY <1>0, <1>2, NotFreed DEF Out
  <2>4. frees' = 1 BY <1>0, <2>3
  <2>5. ~OwnerIn' /\ GuardsIn' = {} BY <1>0, <2>1, <2>2 DEF OwnerIn, GuardsIn, Out
  <2>6. FreedOnce' BY <2>4, <2>5 DEF FreedOnce
  <2>7. \A h \in Guards : guard'[h] \notin {"held", "done", "last", "free"}
    BY <2>2 DEF Out
  <2>8. kind' = "owned" /\ frees' # 0 /\ owner' # "destroy"
    BY <1>0, <1>2, <2>1, <2>4 DEF Owned
  <2>. HIDE DEF TypeInv, GuardType
  <2>. QED BY ZenonT(60), <2>6, <2>7, <2>8 DEF RefInv
<1>. QED BY ZenonT(60), <1>0, <1>1, <1>2 DEF RefInv, MemType, Owned

LEMMA RefGuard ==
  ASSUME TypeInv, LockInv, RefInv, NEW g \in Guards, NEW h \in Guards,
         AddGuard(g) \/ AddMany(g) \/ Done(g) \/ DoneStep(g) \/ Clone(g, h)
  PROVE  RefInv'
<1>. USE DEF mem, ownerVars, GuardGoto
<1>1. CASE AddGuard(g) BY ZenonT(60), <1>1, RefNew DEF AddGuard, AddRefs
<1>2. CASE AddMany(g) BY ZenonT(60), <1>2, RefNew DEF AddMany, AddRefs
<1>3. CASE Done(g) BY ZenonT(60), <1>3, RefMove DEF Done
<1>4. CASE TakeWaker(g) BY ZenonT(60), <1>4, RefMove DEF TakeWaker
<1>5. CASE Clone(g, h) BY ZenonT(60), <1>5, RefNew DEF Clone
<1>. QED BY <1>1, <1>2, <1>3, <1>4, <1>5, RefLast, RefDone, RefUnlock, RefWake, RefFree
         DEF DoneStep

LEMMA RefStep == TypeInv /\ LockInv /\ RefInv /\ [Next]_vars => RefInv'
<1>. SUFFICES ASSUME TypeInv, LockInv, RefInv, [Next]_vars PROVE RefInv' OBVIOUS
<1>1. CASE UNCHANGED vars
  <2>1. UNCHANGED <<kind, count, frees, owner, word, guard, gcount>>
    BY <1>1 DEF vars, mem, ownerVars, guardVars
  <2>2. UNCHANGED <<Refs, GuardsIn, OwnerIn>> BY <2>1 DEF Refs, GuardsIn, OwnerIn
  <2>. QED BY <2>1, <2>2 DEF RefInv, FreedOnce, Out
<1>2. CASE Next
  BY <1>1, <1>2, RefWait, RefOwner, RefGuard DEF Next, Terminated
<1>. QED BY <1>1, <1>2

LEMMA RefAlways == Spec => [](TypeInv /\ LockInv /\ RefInv)
BY LockAlways, RefInit, RefStep, PTL DEF Spec

(* A WaitGroup that is dropped, and not unwrapped, is freed exactly once,  *)
(* by whichever of the owner and the guards is the last in, after the last *)
(* access of all others.                                                   *)
THEOREM FreedByLastDrop == Spec => []FreedByDrop
<1>1. ASSUME TypeInv, RefInv PROVE FreedByDrop
  <2>1. CASE kind = "owned" BY <1>1, <2>1 DEF RefInv, FreedByDrop
  <2>2. CASE kind = "inline" BY <1>1, <2>2 DEF RefInv, FreedByDrop, FreedOnce, OwnerIn
  <2>. QED BY <1>1, <2>1, <2>2 DEF TypeInv, MemType
<1>. QED BY <1>1, RefAlways, PTL

-----------------------------------------------------------------------------
(* The wakeup.  An owner that sleeps has its waker in the cell with the    *)
(* flag set, which the done() that reaches the threshold is bound to see,  *)
(* or its waker is in the hands of a done() that will wake it.             *)

(* The smallest threshold that counts.                                     *)
Bar == Min({floor, threshold})

(* The owner sleeps, or is about to go back to sleep, on waker w.          *)
Waits(w) == \/ owner = "park" /\ w = Thread
            \/ owner \in {"idle", "recheck"} /\ pending # Nil /\ w = pending

(* What keeps w from being forgotten.                                      *)
InHand(w) == \E g \in Guards : \/ guard[g] = "take" /\ o_waker = w
                               \/ guard[g] \in {"unlock", "wake"} /\ gwaker[g] = w
Kept(w) == w \in notified \/ flag = "set" \/ InHand(w)
Armed(w) == flag = "set" => o_waker = w /\ count > Bar
WakeInv == \A w \in ThinWaker : Waits(w) => Armed(w) /\ Kept(w)

FloorInv == \A g \in Guards : guard[g] \in {"held", "done"} => floor <= gthreshold[g]

(* wait_blocking keeps its local set_waker true while its waker is set.    *)
SkipInv ==
  /\ owner = "park" => skip
  /\ skip => ctx = Thread
  /\ owner \in {"idle", "recheck", "lock", "replace", "xor"} => ~skip
  /\ owner \in {"xor", "or"} => o_waker = ctx
  /\ skip /\ flag = "set" => o_waker = Thread

-----------------------------------------------------------------------------
(* Lemmas *)

LEMMA WakeInit == Init => WakeInv /\ FloorInv /\ SkipInv
<1>. SUFFICES ASSUME NEW k \in Kinds, NEW n \in Thresholds,
                     Start(k, IF k = "owned" THEN n + 1 ELSE n)
              PROVE  WakeInv /\ FloorInv /\ SkipInv
  BY DEF Init
<1>. QED BY DEF Start, WakeInv, Waits, FloorInv, SkipInv

LEMMA BarBounds ==
  TypeInv => Bar \in Nat /\ Bar <= floor /\ Bar <= threshold
BY MinOfTwo DEF TypeInv, MemType, OwnerType, Bar

(* The thresholds the guards carry.                                        *)
LEMMA FloorStep == TypeInv /\ FloorInv /\ [Next]_vars => FloorInv'
<1>. SUFFICES ASSUME TypeInv, FloorInv, [Next]_vars PROVE FloorInv' OBVIOUS
<1>. USE DEF TypeInv, GuardType, mem, guardVars, GuardGoto, ForgetLocals
<1>1. CASE UNCHANGED <<guard, gthreshold, floor>> BY <1>1 DEF FloorInv
<1>2. CASE SetThreshold \/ Drop \/ Destroy \/ TryIntoInner \/ Wait \/ Expire
           \/ DropFuture \/ WaitStep \/ \E c \in Tasks : Poll(c)
  BY ZenonT(60), <1>1, <1>2 DEF SetThreshold, Drop, Destroy, TryIntoInner, Wait, Expire, DropFuture,
       WaitStep, CheckCount, Recheck, LoadWord, LockWaker, PutWaker, PublishWaker,
       Unpark, Poll
<1>3. ASSUME NEW g \in Guards, NEW n, AddRefs(g, n) PROVE FloorInv'
  <2>1. floor' <= floor /\ floor' <= threshold /\ floor' \in Nat
    BY <1>3, MinOfTwo DEF AddRefs, MemType, OwnerType
  <2>. QED BY <1>3, <2>1 DEF AddRefs, FloorInv, MemType
<1>4. ASSUME NEW g \in Guards, Done(g) \/ TakeWaker(g) \/ Unlock(g) \/ Wake(g) \/ Free(g)
      PROVE  FloorInv'
  BY <1>4 DEF Done, TakeWaker, Unlock, Wake, Free, FloorInv
<1>5. ASSUME NEW g \in Guards, DoneLast(g) \/ DoneCas(g) PROVE FloorInv'
  BY <1>5 DEF DoneLast, DoneCas, FloorInv
<1>6. ASSUME NEW g \in Guards, NEW h \in Guards, Clone(g, h) PROVE FloorInv'
  BY <1>6 DEF Clone, FloorInv
<1>7. CASE UNCHANGED vars BY <1>1, <1>7 DEF vars
<1>. HIDE DEF TypeInv, GuardType, mem, guardVars, GuardGoto, ForgetLocals
<1>. QED BY <1>2, <1>3, <1>4, <1>5, <1>6, <1>7
         DEF Next, Terminated, AddGuard, AddMany, DoneStep

-----------------------------------------------------------------------------
(* The local set_waker *)

LEMMA SkipOwner ==
  ASSUME TypeInv, LockInv, SkipInv,
         SetThreshold \/ Drop \/ Destroy \/ TryIntoInner \/ Wait \/ Expire
         \/ DropFuture \/ WaitStep \/ \E c \in Tasks : Poll(c)
  PROVE  SkipInv'
<1>. USE DEF mem, waiting, Ends, GoesOn, SkipInv
<1>1. CASE SetThreshold \/ Drop \/ Destroy \/ TryIntoInner \/ Wait \/ Expire \/ DropFuture
  BY <1>1 DEF SetThreshold, Drop, Destroy, TryIntoInner, Wait, Expire, DropFuture
<1>2. CASE CheckCount \/ Recheck \/ Unpark \/ \E c \in Tasks : Poll(c)
  BY <1>2 DEF CheckCount, Recheck, Unpark, Poll
<1>3. CASE LoadWord BY <1>3 DEF LoadWord, WakerIsSet
<1>4. CASE LockWaker BY <1>4 DEF LockWaker
<1>5. CASE PutWaker BY <1>5 DEF PutWaker, LockInv, OwnerHolds
<1>6. CASE PublishWaker BY <1>6 DEF PublishWaker, WakerIsSet
<1>. QED BY <1>1, <1>2, <1>3, <1>4, <1>5, <1>6 DEF WaitStep

LEMMA SkipGuard ==
  ASSUME LockInv, SkipInv, NEW g \in Guards, NEW h \in Guards,
         AddGuard(g) \/ AddMany(g) \/ Done(g) \/ DoneStep(g) \/ Clone(g, h)
  PROVE  SkipInv'
<1>. USE DEF mem, ownerVars, waiting, SkipInv
<1>1. CASE AddGuard(g) \/ AddMany(g) BY <1>1 DEF AddGuard, AddMany, AddRefs
<1>2. CASE Done(g) \/ DoneLast(g) \/ Wake(g) \/ Free(g) \/ Clone(g, h)
  BY <1>2 DEF Done, DoneLast, Wake, Free, Clone
<1>3. CASE DoneCas(g) BY <1>3 DEF DoneCas
<1>4. CASE TakeWaker(g) BY <1>4 DEF TakeWaker, LockInv, Holder, OwnerHolds
<1>5. CASE Unlock(g) BY <1>5 DEF Unlock
<1>. QED BY <1>1, <1>2, <1>3, <1>4, <1>5 DEF DoneStep

LEMMA SkipStep == TypeInv /\ LockInv /\ SkipInv /\ [Next]_vars => SkipInv'
<1>. SUFFICES ASSUME TypeInv, LockInv, SkipInv, [Next]_vars PROVE SkipInv' OBVIOUS
<1>1. CASE UNCHANGED vars BY <1>1 DEF vars, mem, ownerVars, waiting, SkipInv
<1>2. CASE Next BY <1>1, <1>2, SkipOwner, SkipGuard DEF Next, Terminated
<1>. QED BY <1>1, <1>2

-----------------------------------------------------------------------------
(* Sleeping and waking *)

(* A step of the owner that puts nobody to sleep, and consumes no token of *)
(* a waker it goes on waiting with unless the flag is set.                 *)
LEMMA WakeKept ==
  ASSUME WakeInv, UNCHANGED <<count, flag, o_waker, guard, gwaker, floor>>,
         \A w \in ThinWaker : Waits(w)' =>
           /\ Waits(w) /\ threshold' = threshold
           /\ w \in notified => w \in notified' \/ flag = "set"
  PROVE  WakeInv'
<1>. SUFFICES ASSUME NEW w \in ThinWaker, Waits(w)' PROVE Armed(w)' /\ Kept(w)'
  BY DEF WakeInv
<1>1. Armed(w) /\ Kept(w) /\ threshold' = threshold BY DEF WakeInv
<1>2. Bar' = Bar BY <1>1 DEF Bar
<1>. QED BY <1>1, <1>2 DEF Armed, Kept, InHand

(* A step of the owner that puts it to sleep: the waker is in the cell,    *)
(* with the flag set, at a count above the threshold.                      *)
LEMMA WakeArmed ==
  ASSUME TypeInv', flag' = "set", count' > threshold',
         \A w \in ThinWaker : Waits(w)' => o_waker' = w
  PROVE  WakeInv'
<1>1. count' \in Int /\ threshold' \in Nat /\ floor' \in Nat
  BY DEF TypeInv, MemType, OwnerType
<1>2. Bar' \in Nat /\ Bar' <= threshold' BY <1>1, MinOfTwo DEF Bar
<1>3. count' > Bar' BY <1>1, <1>2
<1>. QED BY <1>3 DEF WakeInv, Armed, Kept

LEMMA WakeOwner ==
  ASSUME TypeInv, TypeInv', LockInv, SkipInv, WakeInv,
         SetThreshold \/ Drop \/ Destroy \/ TryIntoInner \/ Wait \/ Expire
         \/ DropFuture \/ WaitStep \/ \E c \in Tasks : Poll(c)
  PROVE  WakeInv'
<1>. USE DEF mem, guardVars, waiting, Ends, GoesOn, Waits
<1>1. CASE SetThreshold \/ Wait \/ Expire \/ DropFuture \/ CheckCount \/ Recheck \/ Unpark
  BY ZenonT(60), <1>1, WakeKept
     DEF SetThreshold, Wait, Expire, DropFuture, CheckCount, Recheck, Unpark
<1>2. CASE Drop \/ Destroy \/ TryIntoInner
  <2>1. owner' \notin {"park", "idle", "recheck"}
    BY <1>2 DEF Drop, Destroy, TryIntoInner
  <2>. QED BY <2>1 DEF WakeInv
<1>3. ASSUME NEW c \in Tasks, Poll(c) PROVE WakeInv'
  BY <1>3, WakeKept DEF Poll
<1>4. CASE LoadWord
  <2>1. CASE Reached(count) \/ ~skip
    BY <1>4, <2>1, WakeKept DEF LoadWord, WakerIsSet
  <2>2. CASE ~Reached(count) /\ skip /\ flag # "set"
    BY ZenonT(60), <1>4, <2>2, WakeKept DEF LoadWord
  <2>3. CASE ~Reached(count) /\ skip /\ flag = "set"
    <3>1. owner' = "park" /\ UNCHANGED <<count, flag, o_waker, threshold>>
      BY <1>4, <2>3 DEF LoadWord, WakerIsSet, SkipInv
    <3>2. o_waker = Thread BY <2>3 DEF SkipInv
    <3>3. count > threshold BY <2>3 DEF Reached, TypeInv, MemType, OwnerType
    <3>. QED BY <2>3, <3>1, <3>2, <3>3, WakeArmed
  <2>. QED BY <2>1, <2>2, <2>3
<1>5. CASE LockWaker \/ PutWaker
  <2>1. owner' \notin {"park", "idle", "recheck"} BY <1>5 DEF LockWaker, PutWaker
  <2>. QED BY <2>1 DEF WakeInv
<1>6. CASE PublishWaker
  <2>1. CASE Reached(count)
    BY <1>6, <2>1 DEF PublishWaker, WakeInv
  <2>2. CASE ~Reached(count)
    <3>1. flag' = "set" BY <1>6 DEF PublishWaker, LockInv, OwnerHolds, Xor
    <3>2. UNCHANGED <<count, o_waker, threshold>> /\ WakerIsSet /\ o_waker = ctx
      BY <1>6, <2>2 DEF PublishWaker, SkipInv
    <3>3. count > threshold BY <2>2 DEF Reached, TypeInv, MemType, OwnerType
    <3>4. \A w \in ThinWaker : Waits(w)' => o_waker = w
      BY <3>2 DEF WakerIsSet
    <3>. QED BY <3>1, <3>2, <3>3, <3>4, WakeArmed
  <2>. QED BY <2>1, <2>2
<1>. QED BY <1>1, <1>2, <1>3, <1>4, <1>5, <1>6 DEF WaitStep

(* A guard that takes or gives up no lock leaves the waker where it is.    *)
LEMMA WakeIdle ==
  ASSUME WakeInv, UNCHANGED <<owner, pending, o_waker, gwaker, notified, flag>>,
         flag = "set" /\ count > Bar => count' > Bar',
         \A g \in Guards : guard[g] \in {"take", "unlock", "wake"} => guard'[g] = guard[g]
  PROVE  WakeInv'
<1>. SUFFICES ASSUME NEW w \in ThinWaker, Waits(w)' PROVE Armed(w)' /\ Kept(w)'
  BY DEF WakeInv
<1>1. Armed(w) /\ Kept(w) BY DEF WakeInv, Waits
<1>2. Armed(w)' BY <1>1 DEF Armed
<1>3. Kept(w)' BY <1>1 DEF Kept, InHand
<1>. QED BY <1>2, <1>3

(* New references only raise the count.                                    *)
LEMMA WakeNew ==
  ASSUME TypeInv, WakeInv, NEW g \in Guards, NEW h \in Guards,
         AddGuard(g) \/ AddMany(g) \/ Clone(h, g)
  PROVE  WakeInv'
<1>. USE DEF TypeInv, GuardType, GuardGoto, ownerVars, waiting
<1>0. Bar \in Nat /\ count \in Int BY BarBounds DEF MemType
<1>1. ASSUME NEW n \in Nat, AddRefs(g, n) PROVE WakeInv'
  <2>1. floor' = Bar /\ threshold' = threshold /\ count' = count + n
    BY <1>1 DEF AddRefs, Bar
  <2>2. Bar' <= Bar /\ Bar' \in Nat BY ZenonT(60), <1>0, <2>1, MinOfTwo DEF Bar, OwnerType
  <2>3. count > Bar => count' > Bar' BY <1>0, <2>1, <2>2
  <2>. QED BY <1>1, <2>3, WakeIdle DEF AddRefs
<1>2. CASE AddGuard(g) \/ AddMany(g)
  BY <1>1, <1>2, WaitGroupAssumption DEF AddGuard, AddMany
<1>3. CASE Clone(h, g)
  <2>1. Bar' = Bar /\ count' = count + 1 BY <1>3 DEF Clone, Bar
  <2>2. count > Bar => count' > Bar' BY <1>0, <2>1
  <2>. QED BY <1>3, <2>2, WakeIdle DEF Clone
<1>. QED BY <1>2, <1>3

(* done(): whoever brings the count down to the threshold of the guard     *)
(* sees the flag in the same word, and takes the waker.                    *)
LEMMA WakeDone ==
  ASSUME TypeInv, FloorInv, WakeInv, NEW g \in Guards,
         Done(g) \/ DoneLast(g) \/ DoneCas(g)
  PROVE  WakeInv'
<1>. USE DEF TypeInv, GuardType, GuardGoto, ownerVars, waiting, mem
<1>0. Bar' = Bar /\ Bar \in Nat /\ Bar <= floor /\ count \in Int
  BY BarBounds DEF Done, DoneLast, DoneCas, Bar, MemType
<1>1. CASE Done(g) BY <1>0, <1>1, WakeIdle DEF Done
<1>2. CASE DoneLast(g) BY <1>0, <1>2, WakeIdle DEF DoneLast
<1>3. CASE DoneCas(g) /\ Word # gword[g] BY <1>0, <1>3, WakeIdle DEF DoneCas
<1>4. CASE DoneCas(g) /\ Word = gword[g] /\ ~TakesLock(g)
  <2>1. count' = count - gcount[g] BY <1>4 DEF DoneCas
  <2>2. floor <= gthreshold[g] BY <1>4 DEF DoneCas, FloorInv
  <2>3. flag = "set" => count' > gthreshold[g] BY <1>0, <1>4, <2>1 DEF TakesLock, Word
  <2>4. flag = "set" => count' > Bar' BY <1>0, <2>1, <2>2, <2>3 DEF MemType
  <2>. QED BY <1>4, <2>4, WakeIdle DEF DoneCas
<1>5. CASE DoneCas(g) /\ Word = gword[g] /\ TakesLock(g)
  <2>1. flag = "set" /\ flag' = "lock" /\ guard' = [guard EXCEPT ![g] = "take"]
    BY <1>5 DEF DoneCas, TakesLock, Word
  <2>2. UNCHANGED <<owner, pending, o_waker>> BY <1>5 DEF DoneCas
  <2>3. ASSUME NEW w \in ThinWaker, Waits(w)' PROVE Armed(w)' /\ Kept(w)'
    <3>1. o_waker = w BY <2>1, <2>2, <2>3 DEF WakeInv, Waits, Armed
    <3>2. guard'[g] = "take" BY <2>1
    <3>. QED BY <2>1, <2>2, <3>1, <3>2 DEF Armed, Kept, InHand
  <2>. QED BY <2>3 DEF WakeInv
<1>. QED BY <1>1, <1>2, <1>3, <1>4, <1>5

(* The waker taken is the one in the cell, and it is woken: the allocation *)
(* of an owner that sleeps is not free, so the lock is not given up to     *)
(* free it.                                                                *)
LEMMA WakeTaken ==
  ASSUME TypeInv, LockInv, RefInv, WakeInv, NEW g \in Guards,
         TakeWaker(g) \/ Unlock(g) \/ Wake(g) \/ Free(g)
  PROVE  WakeInv'
<1>. USE DEF TypeInv, GuardType, GuardGoto, ownerVars, waiting, mem
<1>. SUFFICES ASSUME NEW w \in ThinWaker, Waits(w)' PROVE Armed(w)' /\ Kept(w)'
  BY DEF WakeInv
<1>1. Waits(w) BY DEF Waits, TakeWaker, Unlock, Wake, Free
<1>2. Armed(w) /\ Kept(w) BY <1>1 DEF WakeInv
<1>3. Bar' = Bar /\ count' = count BY DEF Bar, TakeWaker, Unlock, Wake, Free
<1>4. owner \notin {"gone", "unwrapped"} BY <1>1 DEF Waits
<1>5. CASE TakeWaker(g)
  <2>1. flag = "lock" /\ flag' = flag BY <1>5 DEF TakeWaker, LockInv, Holder
  <2>2. /\ guard' = [guard EXCEPT ![g] = "unlock"] /\ notified' = notified
        /\ gwaker' = [gwaker EXCEPT ![g] = o_waker] /\ guard[g] = "take"
    BY <1>5 DEF TakeWaker
  <2>3. InHand(w) => InHand(w)' BY <2>2 DEF InHand
  <2>. QED BY <1>2, <2>1, <2>2, <2>3 DEF Armed, Kept
<1>6. CASE Unlock(g)
  <2>1. flag = "lock" /\ flag' = "none" BY <1>6 DEF Unlock, LockInv, Holder
  <2>2. kind = "owned" => count # 0
    <3>1. kind = "owned" => count = Cardinality(Refs) + 1
      BY <1>4, NotFreed DEF Owned, OwnerIn, Held
    <3>. QED BY <3>1, RefsCount
  <2>3. /\ guard' = [guard EXCEPT ![g] = "wake"] /\ guard[g] = "unlock"
        /\ UNCHANGED <<notified, gwaker, o_waker>>
    BY ZenonT(60), <1>6, <2>2 DEF Unlock
  <2>4. InHand(w) => InHand(w)' BY <2>3 DEF InHand
  <2>. QED BY <1>2, <2>1, <2>3, <2>4 DEF Armed, Kept
<1>7. CASE Wake(g)
  <2>1. /\ guard' = [guard EXCEPT ![g] = "none"] /\ guard[g] = "wake"
        /\ gwaker' = [gwaker EXCEPT ![g] = Nil]
        /\ notified' = notified \cup ({gwaker[g]} \ {Nil})
        /\ UNCHANGED <<flag, o_waker>>
    BY <1>7 DEF Wake
  <2>2. w # Nil BY WaitGroupAssumption DEF ThinWaker
  <2>3. InHand(w) => InHand(w)' \/ w \in notified' BY <2>1, <2>2 DEF InHand
  <2>. QED BY <1>2, <1>3, <2>1, <2>3 DEF Armed, Kept
<1>8. CASE Free(g)
  BY ZenonT(60), <1>4, <1>8 DEF Free, RefInv, MemType
<1>. QED BY <1>5, <1>6, <1>7, <1>8

LEMMA WakeStep ==
  TypeInv /\ TypeInv' /\ LockInv /\ RefInv /\ FloorInv /\ SkipInv /\ WakeInv
    /\ [Next]_vars => WakeInv'
<1>. SUFFICES ASSUME TypeInv, TypeInv', LockInv, RefInv, FloorInv, SkipInv, WakeInv,
                     [Next]_vars
              PROVE  WakeInv'
  OBVIOUS
<1>1. CASE UNCHANGED vars
  <2>1. UNCHANGED <<owner, pending, threshold, floor, count, o_waker, gwaker, notified,
                    flag, guard>>
    BY <1>1 DEF vars, mem, ownerVars, guardVars, waiting
  <2>. QED BY <2>1, WakeKept DEF Waits
<1>2. CASE Next
  BY <1>1, <1>2, WakeOwner, WakeNew, WakeDone, WakeTaken
     DEF Next, Terminated, DoneStep
<1>. QED BY <1>1, <1>2

(* No wakeup of a WaitGroup is lost: when no done() is running, an owner   *)
(* asleep in wait(), wait_timeout() or a future is still short of the      *)
(* threshold its guards carry, for any number of guards dropped at once.   *)
THEOREM NoWakeupIsLost == Spec => []NoLostWakeup
<1>1. ASSUME TypeInv, WakeInv PROVE NoLostWakeup
  <2>. SUFFICES ASSUME Quiescent, Asleep PROVE count > Bar
    BY DEF NoLostWakeup, Bar
  <2>1. PICK w \in ThinWaker : Waits(w) /\ w \notin notified
    BY <1>1 DEF Asleep, Waits, ThinWaker, TypeInv, OwnerType
  <2>2. Armed(w) /\ Kept(w) BY <1>1, <2>1 DEF WakeInv
  <2>3. ~InHand(w) BY DEF Quiescent, InHand
  <2>. QED BY <2>1, <2>2, <2>3 DEF Armed, Kept
<1>. QED BY <1>1, RefAlways, WakeInit, FloorStep, SkipStep, WakeStep, PTL DEF Spec

=============================================================================
