--------------------------- MODULE OneshotProofs ---------------------------
(***************************************************************************)
(* Proofs about Oneshot, for any set of tasks, of receivers that do not    *)
(* call recv() or recv_timeout() after a poll was Pending (~MixModes).     *)
(***************************************************************************)
EXTENDS Oneshot, TLAPS

(* The provers of a leaf that names none, in this order, with time in      *)
(* seconds that is enough on a slow machine too.                           *)
USE ZenonT(4), SMTT(60), Z3T(60), ZenonT(60)

(* The sender's side: what the flags are at each of its control points.    *)
TxInv ==
  /\ tx # "panic"
  /\ exist <=> sent
  /\ tx = "open" => ~sent
  /\ tx \in {"open", "notify"} =>
       /\ "LOCK" \notin state /\ "EXIST" \notin state
       /\ "CLOSE" \in state <=> rx = "done"
       /\ "LOCK" \notin old_state /\ "EXIST" \notin old_state
       /\ "CLOSE" \in old_state => rx = "done"
  /\ tx \in {"wake", "release"} =>
       /\ old_state = {"WAKER_SET"}
       /\ "LOCK" \in state /\ "WAKER_SET" \in state
       /\ "EXIST" \in state <=> exist
       /\ "CLOSE" \in state <=> rx = "done"
       /\ o_waker # Nil
       /\ rx \notin {"put_waker", "set_waker"}
  /\ tx = "free" => rx = "done"
  /\ tx = "done" /\ rx # "done" =>
       /\ "LOCK" \in state /\ "CLOSE" \in state /\ "WAKER_SET" \notin state
       /\ "EXIST" \in state <=> exist

(* The receiver's side: what it knows of the flags, and of its waker.      *)
RxInv ==
  /\ rx = "idle" /\ pending = Nil => "WAKER_SET" \notin state
  /\ rx = "idle" /\ pending # Nil =>
       /\ "LOCK" \in state \/ "WAKER_SET" \in state
       /\ "WAKER_SET" \in state => o_waker = pending
  /\ rx \in {"put_waker", "set_waker"} => "WAKER_SET" \notin state
  /\ rx \in {"put_waker", "set_waker"} => ctx # Nil
  /\ rx = "set_waker" => o_waker = ctx
  /\ rx \in {"check", "park", "cancel_poll"} =>
       "LOCK" \in state \/ ("WAKER_SET" \in state /\ o_waker # Nil)
  /\ rx = "cancel_poll" => ctx # Nil
  /\ rx \in {"check", "park"} /\ "WAKER_SET" \in state => o_waker = Thread
  /\ rx \in {"consume", "close", "free"} =>
       /\ tx \in {"wake", "release", "done"}
       /\ "LOCK" \in rx_state
       /\ "EXIST" \in rx_state <=> exist
       /\ "CLOSE" \in rx_state => tx = "done" /\ "WAKER_SET" \notin rx_state
       /\ "CLOSE" \notin rx_state => "WAKER_SET" \in rx_state
  /\ rx = "free" => "CLOSE" \in rx_state

(* Where the value and the allocation are.                                 *)
MemInv ==
  /\ frees = (IF tx = "done" /\ rx = "done" THEN 1 ELSE 0)
  /\ got => sent
  /\ value <=> (sent /\ ~got /\ frees = 0)
  /\ lost <=> (sent /\ ~got /\ frees = 1)
  /\ result = "open" <=> rx \notin {"close", "free", "done"}
  /\ got <=> result = "ok"
  /\ rx = "close" => result \in {"ok", "disconnected"}
  /\ result = "disconnected" => ~sent /\ tx \notin {"open", "notify"}
  /\ result = "dropped" => NoUnexpectedState

(* The wakeup that the sender owes a waiting receiver.                     *)
WakeInv ==
  tx \in {"release", "free", "done"} =>
    /\ rx = "idle" /\ pending # Nil => pending \in notified
    /\ rx = "park" => Thread \in notified

IInv == TypeOK /\ TxInv /\ RxInv /\ MemInv /\ WakeInv
-----------------------------------------------------------------------------
(* Lemmas *)

(* Two sets of flags with the same flags are equal.                        *)
LEMMA FlagsEqual ==
  ASSUME NEW s \in SUBSET Flags, NEW t \in SUBSET Flags,
         "LOCK" \in s <=> "LOCK" \in t, "WAKER_SET" \in s <=> "WAKER_SET" \in t,
         "CLOSE" \in s <=> "CLOSE" \in t, "EXIST" \in s <=> "EXIST" \in t
  PROVE  s = t
<1>1. \A f \in Flags : f \in s <=> f \in t
  BY DEF Flags
<1> QED
  BY <1>1

(* The sets of flags the receiver stores.                                  *)
LEMMA FlagSets ==
  /\ {} \in SUBSET Flags /\ {"WAKER_SET"} \in SUBSET Flags /\ {"CLOSE"} \in SUBSET Flags
  /\ \A s \in SUBSET Flags : s \cup {"CLOSE"} \in SUBSET Flags
  BY DEF Flags

(* The flags of the states _notify_rx stores.                              *)
LEMMA LockedFlags ==
  ASSUME NEW flag \in {"CLOSE", "WAKER_SET"}
  PROVE  /\ Locked(flag) \subseteq Flags
         /\ "LOCK" \in Locked(flag)
         /\ "EXIST" \in Locked(flag) <=> exist
         /\ "CLOSE" \in Locked(flag) <=> flag = "CLOSE"
         /\ "WAKER_SET" \in Locked(flag) <=> flag = "WAKER_SET"
  BY DEF Locked, Flags

(* With no other flag up, WAKER_SET_FLAG alone is up, or none.             *)
LEMMA OnlyWaker ==
  ASSUME NEW s \in SUBSET Flags,
         "LOCK" \notin s, "CLOSE" \notin s, "EXIST" \notin s
  PROVE  /\ "WAKER_SET" \in s => s = {"WAKER_SET"}
         /\ "WAKER_SET" \notin s => s = {}
<1>1. \A f \in s : f = "WAKER_SET"
  BY DEF Flags
<1> QED
  BY <1>1

(* Before the sender has decided, and while the receiver is not through,   *)
(* at most WAKER_SET_FLAG is up.                                           *)
LEMMA Undecided ==
  ASSUME IInv, rx # "done", "LOCK" \notin state
  PROVE  /\ tx \in {"open", "notify"}
         /\ "WAKER_SET" \in state => state = {"WAKER_SET"}
         /\ "WAKER_SET" \notin state => state = {}
<1>1. tx \in {"open", "notify"}
  BY DEF IInv, TypeOK, TxInv
<1>2. "CLOSE" \notin state /\ "EXIST" \notin state /\ state \in SUBSET Flags
  BY <1>1 DEF IInv, TypeOK, TxInv
<1> QED
  BY <1>1, <1>2, OnlyWaker

(* The initial states satisfy the inductive invariant.                     *)
LEMMA InitInv == ASSUME Init PROVE IInv
<1>1. TypeOK
  BY ZenonT(60) DEF Init, TypeOK, Flags, ThinWaker
<1>2. TxInv
  BY DEF Init, TxInv
<1>3. RxInv
  BY DEF Init, RxInv
<1>4. MemInv
  BY DEF Init, MemInv
<1>5. WakeInv
  BY DEF Init, WakeInv
<1> QED
  BY <1>1, <1>2, <1>3, <1>4, <1>5 DEF IInv

(* Every step preserves the inductive invariant.                           *)
LEMMA NextInv ==
  ASSUME ~MixModes, IInv, [Next]_vars
  PROVE  IInv'
<1>1. CASE Send
  <2>1. TypeOK'
    BY <1>1 DEF IInv, TypeOK, Send, rxVars
  <2>2. TxInv'
    BY <1>1 DEF IInv, TypeOK, TxInv, RxInv, Send, rxVars
  <2>3. RxInv'
    BY <1>1, OneshotAssumption DEF IInv, TypeOK, TxInv, RxInv, ThinWaker,
       Send, rxVars
  <2>4. MemInv'
    BY <1>1 DEF IInv, TypeOK, TxInv, RxInv, MemInv, NoUnexpectedState,
       Send, rxVars
  <2>5. WakeInv'
    BY <1>1, OneshotAssumption DEF IInv, TypeOK, TxInv, RxInv, WakeInv,
       Send, rxVars
  <2> QED
    BY <2>1, <2>2, <2>3, <2>4, <2>5 DEF IInv
<1>2. CASE DropTx
  <2>1. TypeOK'
    BY <1>2 DEF IInv, TypeOK, DropTx, mem, rxVars
  <2>2. TxInv'
    BY <1>2 DEF IInv, TypeOK, TxInv, RxInv, DropTx, mem, rxVars
  <2>3. RxInv'
    BY <1>2, OneshotAssumption DEF IInv, TypeOK, TxInv, RxInv, ThinWaker,
       DropTx, mem, rxVars
  <2>4. MemInv'
    BY <1>2 DEF IInv, TypeOK, TxInv, RxInv, MemInv, NoUnexpectedState,
       DropTx, mem, rxVars
  <2>5. WakeInv'
    BY <1>2, OneshotAssumption DEF IInv, TypeOK, TxInv, RxInv, WakeInv,
       DropTx, mem, rxVars
  <2> QED
    BY <2>1, <2>2, <2>3, <2>4, <2>5 DEF IInv
<1>3. CASE NotifyRx
  <2> USE <1>3 DEF NotifyRx
  <2>1. CASE /\ state = old_state /\ old_state = {}
             /\ state' = Locked("CLOSE") /\ tx' = "done" /\ old_state' = old_state
    <3>0. "CLOSE" \in {"CLOSE", "WAKER_SET"} /\ rx # "done"
      BY <2>1 DEF IInv, TxInv
    <3>1. TypeOK'
      BY <2>1, <3>0, LockedFlags DEF IInv, TypeOK, rxVars
    <3>2. TxInv'
      BY <2>1, <3>0, LockedFlags DEF IInv, TypeOK, TxInv, RxInv, rxVars
    <3>3. RxInv'
      BY <2>1, <3>0, LockedFlags, OneshotAssumption DEF IInv, TypeOK,
         TxInv, RxInv, ThinWaker, rxVars
    <3>4. MemInv'
      BY <2>1, <3>0, LockedFlags DEF IInv, TypeOK, TxInv, RxInv, MemInv,
         NoUnexpectedState, rxVars
    <3>5. WakeInv'
      BY <2>1, <3>0, LockedFlags, OneshotAssumption DEF IInv, TypeOK,
         TxInv, RxInv, WakeInv, rxVars
    <3> QED
      BY <3>1, <3>2, <3>3, <3>4, <3>5 DEF IInv
  <2>2. CASE /\ state = old_state /\ old_state = {"WAKER_SET"}
             /\ state' = Locked("WAKER_SET") /\ tx' = "wake" /\ old_state' = old_state
    <3>0. "WAKER_SET" \in {"CLOSE", "WAKER_SET"} /\ rx # "done"
      BY <2>2 DEF IInv, TxInv
    <3>1. TypeOK'
      BY <2>2, <3>0, LockedFlags DEF IInv, TypeOK, rxVars
    <3>2. TxInv'
      BY <2>2, <3>0, LockedFlags DEF IInv, TypeOK, TxInv, RxInv, rxVars
    <3>3. RxInv'
      BY <2>2, <3>0, LockedFlags, OneshotAssumption DEF IInv, TypeOK,
         TxInv, RxInv, ThinWaker, rxVars
    <3>4. MemInv'
      BY <2>2, <3>0, LockedFlags DEF IInv, TypeOK, TxInv, RxInv, MemInv,
         NoUnexpectedState, rxVars
    <3>5. WakeInv'
      BY <2>2, <3>0, LockedFlags, OneshotAssumption DEF IInv, TypeOK,
         TxInv, RxInv, WakeInv, rxVars
    <3> QED
      BY <3>1, <3>2, <3>3, <3>4, <3>5 DEF IInv
  <2>3. CASE state # old_state /\ old_state' = state /\ state' = state /\ tx' = tx
    <3>1. TypeOK'
      BY <2>3 DEF IInv, TypeOK, rxVars
    <3>2. TxInv'
      BY <2>3 DEF IInv, TypeOK, TxInv, RxInv, rxVars
    <3>3. RxInv'
      BY <2>3, OneshotAssumption DEF IInv, TypeOK, TxInv, RxInv,
         ThinWaker, rxVars
    <3>4. MemInv'
      BY <2>3 DEF IInv, TypeOK, TxInv, RxInv, MemInv, NoUnexpectedState,
         rxVars
    <3>5. WakeInv'
      BY <2>3, OneshotAssumption DEF IInv, TypeOK, TxInv, RxInv,
         WakeInv, rxVars
    <3> QED
      BY <3>1, <3>2, <3>3, <3>4, <3>5 DEF IInv
  <2>4. CASE "CLOSE" \in old_state /\ old_state' = old_state /\ state' = state /\ tx' = "free"
    <3>1. TypeOK'
      BY <2>4 DEF IInv, TypeOK, rxVars
    <3>2. TxInv'
      BY <2>4 DEF IInv, TypeOK, TxInv, RxInv, rxVars
    <3>3. RxInv'
      BY <2>4, OneshotAssumption DEF IInv, TypeOK, TxInv, RxInv,
         ThinWaker, rxVars
    <3>4. MemInv'
      BY <2>4 DEF IInv, TypeOK, TxInv, RxInv, MemInv, NoUnexpectedState,
         rxVars
    <3>5. WakeInv'
      BY <2>4, OneshotAssumption DEF IInv, TypeOK, TxInv, RxInv,
         WakeInv, rxVars
    <3> QED
      BY <3>1, <3>2, <3>3, <3>4, <3>5 DEF IInv
  <2>5. old_state \in {{}, {"WAKER_SET"}} \/ "CLOSE" \in old_state
    <3>1. old_state \in SUBSET Flags /\ "LOCK" \notin old_state /\ "EXIST" \notin old_state
      BY DEF IInv, TypeOK, TxInv
    <3> QED
      BY <3>1, OnlyWaker
  <2> QED
    BY <2>1, <2>2, <2>3, <2>4, <2>5 DEF NewState
<1>4. CASE WakeRx
  <2>1. TypeOK'
    BY <1>4 DEF IInv, TypeOK, ThinWaker, WakeRx, mem, rxVars
  <2>2. TxInv'
    BY <1>4 DEF IInv, TypeOK, TxInv, RxInv, WakeRx, mem, rxVars
  <2>3. RxInv'
    BY <1>4, OneshotAssumption DEF IInv, TypeOK, TxInv, RxInv, ThinWaker,
       WakeRx, mem, rxVars
  <2>4. MemInv'
    BY <1>4 DEF IInv, TypeOK, TxInv, RxInv, MemInv, NoUnexpectedState,
       WakeRx, mem, rxVars
  <2>5. WakeInv'
    BY <1>4, OneshotAssumption DEF IInv, TypeOK, TxInv, RxInv, WakeInv,
       WakeRx, mem, rxVars
  <2> QED
    BY <2>1, <2>2, <2>3, <2>4, <2>5 DEF IInv
<1>5. CASE Release
  <2>0. "CLOSE" \in {"CLOSE", "WAKER_SET"} /\ "WAKER_SET" \in {"CLOSE", "WAKER_SET"}
    OBVIOUS
  <2>1. CASE state' = Locked("CLOSE") /\ tx' = "done" /\ state = Locked("WAKER_SET")
    <3>0. rx # "done"
      BY <1>5, <2>0, <2>1, LockedFlags DEF Release, IInv, TxInv
    <3>1. TypeOK'
      BY <1>5, <2>0, <2>1, <3>0, LockedFlags DEF IInv, TypeOK, rxVars, Release
    <3>2. TxInv'
      BY <1>5, <2>0, <2>1, <3>0, LockedFlags DEF IInv, TypeOK, TxInv,
         RxInv, rxVars, Release
    <3>3. RxInv'
      BY <1>5, <2>0, <2>1, <3>0, LockedFlags, OneshotAssumption DEF
         IInv, TypeOK, TxInv, RxInv, ThinWaker, rxVars, Release
    <3>4. MemInv'
      BY <1>5, <2>0, <2>1, <3>0, LockedFlags DEF IInv, TypeOK, TxInv,
         RxInv, MemInv, NoUnexpectedState, rxVars, Release
    <3>5. WakeInv'
      BY <1>5, <2>0, <2>1, <3>0, LockedFlags, OneshotAssumption DEF
         IInv, TypeOK, TxInv, RxInv, WakeInv, rxVars, Release
    <3> QED
      BY <3>1, <3>2, <3>3, <3>4, <3>5 DEF IInv
  <2>2. CASE state' = state /\ tx' = "free" /\ "CLOSE" \in state
    <3>1. TypeOK'
      BY <1>5, <2>2 DEF IInv, TypeOK, rxVars, Release
    <3>2. TxInv'
      BY <1>5, <2>2 DEF IInv, TypeOK, TxInv, RxInv, rxVars, Release
    <3>3. RxInv'
      BY <1>5, <2>2, OneshotAssumption DEF IInv, TypeOK, TxInv, RxInv,
         ThinWaker, rxVars, Release
    <3>4. MemInv'
      BY <1>5, <2>2 DEF IInv, TypeOK, TxInv, RxInv, MemInv,
         NoUnexpectedState, rxVars, Release
    <3>5. WakeInv'
      BY <1>5, <2>2, OneshotAssumption DEF IInv, TypeOK, TxInv, RxInv,
         WakeInv, rxVars, Release
    <3> QED
      BY <3>1, <3>2, <3>3, <3>4, <3>5 DEF IInv
  <2>3. "CLOSE" \in state \/ state = Locked("WAKER_SET")
    <3>1. /\ state \in SUBSET Flags /\ Locked("WAKER_SET") \in SUBSET Flags
          /\ "LOCK" \in state /\ "WAKER_SET" \in state
          /\ "EXIST" \in state <=> exist
      BY <1>5, <2>0, LockedFlags DEF Release, IInv, TypeOK, TxInv
    <3>2. /\ "LOCK" \in Locked("WAKER_SET") /\ "WAKER_SET" \in Locked("WAKER_SET")
          /\ "EXIST" \in Locked("WAKER_SET") <=> exist
          /\ "CLOSE" \notin Locked("WAKER_SET")
      BY <2>0, LockedFlags
    <3> QED
      BY <3>1, <3>2, FlagsEqual
  <2>4. NewState = Locked("WAKER_SET")
    BY <1>5 DEF Release, IInv, TxInv, NewState
  <2> QED
    BY <1>5, <2>1, <2>2, <2>3, <2>4 DEF Release
<1>6. CASE FreeByTx
  <2>1. TypeOK'
    <3>1. lost' \in BOOLEAN /\ value' \in BOOLEAN
      BY ZenonT(60), <1>6 DEF FreeByTx, Free
    <3> QED
      BY <1>6, <3>1 DEF IInv, TypeOK, FreeByTx, Free, rxVars
  <2>2. TxInv'
    BY <1>6 DEF IInv, TypeOK, TxInv, RxInv, FreeByTx, Free, rxVars
  <2>3. RxInv'
    BY <1>6, OneshotAssumption DEF IInv, TypeOK, TxInv, RxInv, ThinWaker,
       FreeByTx, Free, rxVars
  <2>4. MemInv'
    BY <1>6 DEF IInv, TypeOK, TxInv, RxInv, MemInv, NoUnexpectedState,
       FreeByTx, Free, rxVars
  <2>5. WakeInv'
    BY <1>6, OneshotAssumption DEF IInv, TypeOK, TxInv, RxInv, WakeInv,
       FreeByTx, Free, rxVars
  <2> QED
    BY <2>1, <2>2, <2>3, <2>4, <2>5 DEF IInv
<1>7. CASE TryRecv
  <2>1. TypeOK'
    BY <1>7, FlagSets DEF IInv, TypeOK, TryRecv, Consume, RxFrame, mem,
       txVars
  <2>2. TxInv'
    BY <1>7 DEF IInv, TypeOK, TxInv, RxInv, TryRecv, Consume, RxFrame,
       mem, txVars
  <2>3. RxInv'
    BY <1>7, Undecided, OneshotAssumption DEF IInv, TypeOK, TxInv, RxInv,
       ThinWaker, TryRecv, Consume, RxFrame, mem, txVars
  <2>4. MemInv'
    BY <1>7 DEF IInv, TypeOK, TxInv, RxInv, MemInv, NoUnexpectedState,
       TryRecv, Consume, RxFrame, mem, txVars
  <2>5. WakeInv'
    BY <1>7, OneshotAssumption DEF IInv, TypeOK, TxInv, RxInv, WakeInv,
       TryRecv, Consume, RxFrame, mem, txVars
  <2> QED
    BY <2>1, <2>2, <2>3, <2>4, <2>5 DEF IInv
<1>8. CASE RecvBlocking
  <2>1. TypeOK'
    BY <1>8, FlagSets DEF IInv, TypeOK, ThinWaker, RecvBlocking, Consume,
       RxFrame, mem, txVars
  <2>2. TxInv'
    BY <1>8 DEF IInv, TypeOK, TxInv, RxInv, RecvBlocking, Consume,
       RxFrame, mem, txVars
  <2>3. RxInv'
    BY <1>8, Undecided, OneshotAssumption DEF IInv, TypeOK, TxInv, RxInv,
       ThinWaker, RecvBlocking, Consume, RxFrame, mem, txVars
  <2>4. MemInv'
    BY <1>8 DEF IInv, TypeOK, TxInv, RxInv, MemInv, NoUnexpectedState,
       RecvBlocking, Consume, RxFrame, mem, txVars
  <2>5. WakeInv'
    BY <1>8, OneshotAssumption DEF IInv, TypeOK, TxInv, RxInv, WakeInv,
       RecvBlocking, Consume, RxFrame, mem, txVars
  <2> QED
    BY <2>1, <2>2, <2>3, <2>4, <2>5 DEF IInv
<1>9. CASE DropRx
  <2>0. NoUnexpectedState'
    <3>1. CASE "CLOSE" \in state
      <4>1. tx = "done" /\ "LOCK" \in state /\ "WAKER_SET" \notin state
        BY <1>9, <3>1 DEF DropRx, IInv, TypeOK, TxInv
      <4>2. state \ {"EXIST"} = {"CLOSE", "LOCK"}
        BY ZenonT(60), <4>1, <3>1 DEF IInv, TypeOK, Flags
      <4> QED
        BY <1>9, <3>1, <4>1, <4>2 DEF DropRx, RxFrame, txVars, NoUnexpectedState
    <3>2. CASE "CLOSE" \notin state /\ "LOCK" \notin state
      <4>1. state \in {{}, {"WAKER_SET"}}
        BY <1>9, <3>2, Undecided DEF DropRx
      <4> QED
        BY <1>9, <3>2, <4>1 DEF DropRx, RxFrame, txVars, NoUnexpectedState,
           IInv, TxInv
    <3>3. CASE "CLOSE" \notin state /\ "LOCK" \in state
      <4>1. "WAKER_SET" \in state
        BY <1>9, <3>3 DEF DropRx, IInv, TypeOK, TxInv
      <4>2. state \cup {"EXIST"} = {"EXIST", "LOCK", "WAKER_SET"}
        BY ZenonT(60), <4>1, <3>3 DEF IInv, TypeOK, Flags
      <4> QED
        BY <1>9, <3>3, <4>2 DEF DropRx, RxFrame, txVars, NoUnexpectedState,
           IInv, TxInv
    <3> QED
      BY <3>1, <3>2, <3>3
  <2>1. TypeOK'
    BY <1>9, FlagSets DEF IInv, TypeOK, DropRx, RxFrame, txVars
  <2>2. TxInv'
    BY <1>9 DEF IInv, TypeOK, TxInv, RxInv, DropRx, RxFrame, txVars
  <2>3. RxInv'
    BY <1>9, OneshotAssumption DEF IInv, TypeOK, TxInv, RxInv, ThinWaker,
       DropRx, RxFrame, txVars
  <2>4. MemInv'
    BY <1>9, <2>0 DEF IInv, TypeOK, TxInv, RxInv, MemInv, DropRx, RxFrame,
       txVars
  <2>5. WakeInv'
    BY <1>9, OneshotAssumption DEF IInv, TypeOK, TxInv, RxInv, WakeInv,
       DropRx, RxFrame, txVars
  <2> QED
    BY <2>1, <2>2, <2>3, <2>4, <2>5 DEF IInv
<1>10. CASE Expire
  <2>1. TypeOK'
    BY <1>10, FlagSets DEF IInv, TypeOK, Expire, Consume, RxFrame, txVars
  <2>2. TxInv'
    BY <1>10 DEF IInv, TypeOK, TxInv, RxInv, Expire, Consume, RxFrame,
       txVars
  <2>3. RxInv'
    BY <1>10, Undecided, OneshotAssumption DEF IInv, TypeOK, TxInv, RxInv,
       ThinWaker, Expire, Consume, RxFrame, txVars
  <2>4. MemInv'
    BY <1>10 DEF IInv, TypeOK, TxInv, RxInv, MemInv, NoUnexpectedState,
       Expire, Consume, RxFrame, txVars
  <2>5. WakeInv'
    BY <1>10, OneshotAssumption DEF IInv, TypeOK, TxInv, RxInv, WakeInv,
       Expire, Consume, RxFrame, txVars
  <2> QED
    BY <2>1, <2>2, <2>3, <2>4, <2>5 DEF IInv
<1>11. ASSUME NEW c \in Tasks, PollRx(c) PROVE IInv'
  <2>1. TypeOK'
    BY <1>11, FlagSets DEF IInv, TypeOK, ThinWaker, PollRx, Consume, mem,
       txVars
  <2>2. TxInv'
    BY <1>11 DEF IInv, TypeOK, TxInv, RxInv, PollRx, Consume, mem, txVars
  <2>3. RxInv'
    BY <1>11, Undecided, OneshotAssumption DEF IInv, TypeOK, TxInv, RxInv,
       ThinWaker, PollRx, Consume, mem, txVars
  <2>4. MemInv'
    BY <1>11 DEF IInv, TypeOK, TxInv, RxInv, MemInv, NoUnexpectedState,
       PollRx, Consume, mem, txVars
  <2>5. WakeInv'
    BY <1>11, OneshotAssumption DEF IInv, TypeOK, TxInv, RxInv, WakeInv,
       PollRx, Consume, mem, txVars
  <2> QED
    BY <2>1, <2>2, <2>3, <2>4, <2>5 DEF IInv
<1>12. CASE CancelPoll
  <2>1. TypeOK'
    BY <1>12, FlagSets DEF IInv, TypeOK, CancelPoll, Consume, RxFrame,
       txVars
  <2>2. TxInv'
    BY <1>12 DEF IInv, TypeOK, TxInv, RxInv, CancelPoll, Consume, RxFrame,
       txVars
  <2>3. RxInv'
    BY <1>12, Undecided, OneshotAssumption DEF IInv, TypeOK, TxInv, RxInv,
       ThinWaker, CancelPoll, Consume, RxFrame, txVars
  <2>4. MemInv'
    BY <1>12 DEF IInv, TypeOK, TxInv, RxInv, MemInv, NoUnexpectedState,
       CancelPoll, Consume, RxFrame, txVars
  <2>5. WakeInv'
    BY <1>12, OneshotAssumption DEF IInv, TypeOK, TxInv, RxInv, WakeInv,
       CancelPoll, Consume, RxFrame, txVars
  <2> QED
    BY <2>1, <2>2, <2>3, <2>4, <2>5 DEF IInv
<1>13. CASE PutWaker
  <2>1. TypeOK'
    BY <1>13 DEF IInv, TypeOK, ThinWaker, PutWaker, RxFrame, txVars
  <2>2. TxInv'
    BY <1>13 DEF IInv, TypeOK, TxInv, RxInv, PutWaker, RxFrame, txVars
  <2>3. RxInv'
    BY <1>13, OneshotAssumption DEF IInv, TypeOK, TxInv, RxInv, ThinWaker,
       PutWaker, RxFrame, txVars
  <2>4. MemInv'
    BY <1>13 DEF IInv, TypeOK, TxInv, RxInv, MemInv, NoUnexpectedState,
       PutWaker, RxFrame, txVars
  <2>5. WakeInv'
    BY <1>13, OneshotAssumption DEF IInv, TypeOK, TxInv, RxInv, WakeInv,
       PutWaker, RxFrame, txVars
  <2> QED
    BY <2>1, <2>2, <2>3, <2>4, <2>5 DEF IInv
<1>14. CASE SetWaker
  <2>1. TypeOK'
    BY <1>14, FlagSets DEF IInv, TypeOK, ThinWaker, SetWaker, Consume,
       RxFrame, txVars
  <2>2. TxInv'
    BY <1>14 DEF IInv, TypeOK, TxInv, RxInv, SetWaker, Consume, RxFrame,
       txVars
  <2>3. RxInv'
    BY <1>14, Undecided, OneshotAssumption DEF IInv, TypeOK, TxInv, RxInv,
       ThinWaker, SetWaker, Consume, RxFrame, txVars
  <2>4. MemInv'
    BY <1>14 DEF IInv, TypeOK, TxInv, RxInv, MemInv, NoUnexpectedState,
       SetWaker, Consume, RxFrame, txVars
  <2>5. WakeInv'
    BY <1>14, OneshotAssumption DEF IInv, TypeOK, TxInv, RxInv, WakeInv,
       SetWaker, Consume, RxFrame, txVars
  <2> QED
    BY <2>1, <2>2, <2>3, <2>4, <2>5 DEF IInv
<1>15. CASE CheckRx
  <2>1. TypeOK'
    BY <1>15, FlagSets DEF IInv, TypeOK, CheckRx, Consume, RxFrame, mem,
       txVars
  <2>2. TxInv'
    BY <1>15 DEF IInv, TypeOK, TxInv, RxInv, CheckRx, Consume, RxFrame,
       mem, txVars
  <2>3. RxInv'
    BY <1>15, Undecided, OneshotAssumption DEF IInv, TypeOK, TxInv, RxInv,
       ThinWaker, CheckRx, Consume, RxFrame, mem, txVars
  <2>4. MemInv'
    BY <1>15 DEF IInv, TypeOK, TxInv, RxInv, MemInv, NoUnexpectedState,
       CheckRx, Consume, RxFrame, mem, txVars
  <2>5. WakeInv'
    BY <1>15, OneshotAssumption DEF IInv, TypeOK, TxInv, RxInv, WakeInv,
       CheckRx, Consume, RxFrame, mem, txVars
  <2> QED
    BY <2>1, <2>2, <2>3, <2>4, <2>5 DEF IInv
<1>16. CASE Unparked
  <2>1. TypeOK'
    BY <1>16 DEF IInv, TypeOK, ThinWaker, Unparked, mem, txVars
  <2>2. TxInv'
    BY <1>16 DEF IInv, TypeOK, TxInv, RxInv, Unparked, mem, txVars
  <2>3. RxInv'
    BY <1>16, OneshotAssumption DEF IInv, TypeOK, TxInv, RxInv, ThinWaker,
       Unparked, mem, txVars
  <2>4. MemInv'
    BY <1>16 DEF IInv, TypeOK, TxInv, RxInv, MemInv, NoUnexpectedState,
       Unparked, mem, txVars
  <2>5. WakeInv'
    BY <1>16, OneshotAssumption DEF IInv, TypeOK, TxInv, RxInv, WakeInv,
       Unparked, mem, txVars
  <2> QED
    BY <2>1, <2>2, <2>3, <2>4, <2>5 DEF IInv
<1>17. CASE TakeValue
  <2>1. TypeOK'
    BY <1>17 DEF IInv, TypeOK, TakeValue, RxFrame, txVars
  <2>2. TxInv'
    BY <1>17 DEF IInv, TypeOK, TxInv, RxInv, TakeValue, RxFrame, txVars
  <2>3. RxInv'
    BY <1>17, OneshotAssumption DEF IInv, TypeOK, TxInv, RxInv, ThinWaker,
       TakeValue, RxFrame, txVars
  <2>4. MemInv'
    BY <1>17 DEF IInv, TypeOK, TxInv, RxInv, MemInv, NoUnexpectedState,
       TakeValue, RxFrame, txVars
  <2>5. WakeInv'
    BY <1>17, OneshotAssumption DEF IInv, TypeOK, TxInv, RxInv, WakeInv,
       TakeValue, RxFrame, txVars
  <2> QED
    BY <2>1, <2>2, <2>3, <2>4, <2>5 DEF IInv
<1>18. CASE CloseRx
  <2>1. TypeOK'
    BY <1>18, FlagSets DEF IInv, TypeOK, CloseRx, RxFrame, txVars
  <2>2. TxInv'
    BY <1>18 DEF IInv, TypeOK, TxInv, RxInv, CloseRx, RxFrame, txVars
  <2>3. RxInv'
    BY <1>18, OneshotAssumption DEF IInv, TypeOK, TxInv, RxInv, ThinWaker,
       CloseRx, RxFrame, txVars
  <2>4. MemInv'
    BY <1>18 DEF IInv, TypeOK, TxInv, RxInv, MemInv, NoUnexpectedState,
       CloseRx, RxFrame, txVars
  <2>5. WakeInv'
    BY <1>18, OneshotAssumption DEF IInv, TypeOK, TxInv, RxInv, WakeInv,
       CloseRx, RxFrame, txVars
  <2> QED
    BY <2>1, <2>2, <2>3, <2>4, <2>5 DEF IInv
<1>19. CASE FreeByRx
  <2>1. TypeOK'
    <3>1. lost' \in BOOLEAN /\ value' \in BOOLEAN
      BY ZenonT(60), <1>19 DEF FreeByRx, Free
    <3> QED
      BY <1>19, <3>1 DEF IInv, TypeOK, FreeByRx, Free, RxFrame, txVars
  <2>2. TxInv'
    BY <1>19 DEF IInv, TypeOK, TxInv, RxInv, FreeByRx, Free, RxFrame,
       txVars
  <2>3. RxInv'
    BY <1>19, OneshotAssumption DEF IInv, TypeOK, TxInv, RxInv, ThinWaker,
       FreeByRx, Free, RxFrame, txVars
  <2>4. MemInv'
    BY <1>19 DEF IInv, TypeOK, TxInv, RxInv, MemInv, NoUnexpectedState,
       FreeByRx, Free, RxFrame, txVars
  <2>5. WakeInv'
    BY <1>19, OneshotAssumption DEF IInv, TypeOK, TxInv, RxInv, WakeInv,
       FreeByRx, Free, RxFrame, txVars
  <2> QED
    BY <2>1, <2>2, <2>3, <2>4, <2>5 DEF IInv
<1>20. CASE UNCHANGED vars
  BY <1>20 DEF IInv, TypeOK, TxInv, RxInv, MemInv, WakeInv, NoUnexpectedState,
     vars, mem, txVars, rxVars
<1> QED
  BY <1>1, <1>2, <1>3, <1>4, <1>5, <1>6, <1>7, <1>8, <1>9, <1>10, <1>11,
     <1>12, <1>13,
      <1>14, <1>15, <1>16, <1>17, <1>18, <1>19, <1>20
     DEF Next, TxStep, RxCallStep, Terminated

-----------------------------------------------------------------------------
(* Theorems *)

(* The inductive invariant holds.                                          *)
LEMMA Inductive == ASSUME ~MixModes PROVE Spec => []IInv
<1>1. Init => IInv
  BY InitInv
<1>2. IInv /\ [Next]_vars => IInv'
  BY NextInv
<1> QED
  BY <1>1, <1>2, PTL DEF Spec

(* Every variable keeps its type, whatever the calls and their order.      *)
THEOREM TypeCorrect == ASSUME ~MixModes PROVE Spec => []TypeOK
<1>1. IInv => TypeOK
  BY DEF IInv
<1> QED
  BY <1>1, Inductive, PTL

(* The allocation is freed exactly once and never under the other end.     *)
THEOREM FreedExactlyOnce == ASSUME ~MixModes PROVE Spec => []FreedOnce
<1>1. IInv => FreedOnce
  BY DEF IInv, MemInv, TxInv, RxInv, FreedOnce
<1> QED
  BY <1>1, Inductive, PTL

(* A value that was sent is in exactly one place: the allocation, the      *)
(* receiver's hands, or dropped with the allocation.                       *)
THEOREM ValueIsConserved == ASSUME ~MixModes PROVE Spec => []ValueConserved
<1>1. IInv => ValueConserved
  BY DEF IInv, TypeOK, MemInv, ValueConserved
<1> QED
  BY <1>1, Inductive, PTL

(* recv, recv_timeout, try_recv and poll tell the truth about the sender.  *)
THEOREM ResultIsHonest == ASSUME ~MixModes PROVE Spec => []HonestResult
<1>1. IInv => HonestResult
  BY DEF IInv, TypeOK, MemInv, HonestResult
<1> QED
  BY <1>1, Inductive, PTL

(* No debug_assert, panic or unreachable of the file is ever reached.      *)
THEOREM AssertionsHold ==
  ASSUME ~MixModes PROVE Spec => [](ConsumeLocked /\ NoUnexpectedState)
<1>1. IInv => ConsumeLocked /\ NoUnexpectedState
  BY DEF IInv, TxInv, RxInv, MemInv, ConsumeLocked, NoUnexpectedState
<1> QED
  BY <1>1, Inductive, PTL

(* The plain waker cell is never written while the sender reads it.        *)
THEOREM WakerCellExclusive == ASSUME ~MixModes PROVE Spec => []WakerExclusive
<1>1. IInv => WakerExclusive
  BY DEF IInv, TxInv, WakerExclusive
<1> QED
  BY <1>1, Inductive, PTL

(* When the sender is through, a waiting receiver has been notified.       *)
THEOREM NoLostWakeup == ASSUME ~MixModes PROVE Spec => []WaiterNotified
<1>1. IInv => WaiterNotified
  BY DEF IInv, WakeInv, WaiterNotified
<1> QED
  BY <1>1, Inductive, PTL

(* Each step of the implementation is a step of the abstract channel, or   *)
(* changes nothing the abstract channel sees.                              *)
LEMMA StepSimulation ==
  ASSUME IInv, IInv', [Next]_vars
  PROVE  [Abstract!Next]_<<Sender, result>>
<1> DEFINE Same == Decided' = Decided /\ sent' = sent /\ result' = result
<1>0. ASSUME Same PROVE UNCHANGED <<Sender, result>>
  BY <1>0 DEF Sender
<1>1. CASE Send
  BY <1>1 DEF Send, rxVars, Sender, Decided, IInv, TypeOK, TxInv, RxInv,
     MemInv, Abstract!Next, Abstract!Decide, Abstract!Deliver,
     Abstract!Disconnect, Abstract!GiveUp
<1>2. CASE DropTx
  <2> Same
    BY <1>2 DEF DropTx, rxVars, Decided, IInv, TypeOK, TxInv
  <2> QED
    BY <1>0
<1>3. CASE NotifyRx
  BY <1>3 DEF NotifyRx, rxVars, Sender, Decided, IInv, TypeOK, TxInv, RxInv,
     MemInv, Abstract!Next, Abstract!Decide, Abstract!Deliver,
     Abstract!Disconnect, Abstract!GiveUp
<1>4. CASE WakeRx
  <2> Same
    BY <1>4 DEF WakeRx, rxVars, Decided, IInv, TypeOK, TxInv
  <2> QED
    BY <1>0
<1>5. CASE Release
  <2> Same
    BY <1>5 DEF Release, rxVars, Decided, IInv, TypeOK, TxInv
  <2> QED
    BY <1>0
<1>6. CASE FreeByTx
  <2> Same
    BY <1>6 DEF FreeByTx, rxVars, Decided, IInv, TypeOK, TxInv
  <2> QED
    BY <1>0
<1>7. CASE TryRecv
  <2> Same
    BY <1>7 DEF TryRecv, RxFrame, txVars, Decided, IInv, TypeOK, TxInv
  <2> QED
    BY <1>0
<1>8. CASE RecvBlocking
  <2> Same
    BY <1>8 DEF RecvBlocking, RxFrame, txVars, Decided, IInv, TypeOK, TxInv
  <2> QED
    BY <1>0
<1>9. CASE DropRx
  BY <1>9 DEF DropRx, RxFrame, txVars, Sender, Decided, IInv, TypeOK, TxInv,
     RxInv,
     MemInv, Abstract!Next, Abstract!Decide, Abstract!Deliver,
     Abstract!Disconnect, Abstract!GiveUp
<1>10. CASE Expire
  BY ZenonT(60), <1>10 DEF Expire, RxFrame, txVars, Sender, Decided, IInv, TypeOK, TxInv,
     RxInv,
     MemInv, Abstract!Next, Abstract!Decide, Abstract!Deliver,
     Abstract!Disconnect, Abstract!GiveUp
<1>11. ASSUME NEW c \in Tasks, PollRx(c) PROVE [Abstract!Next]_<<Sender, result>>
  <2> Same
    BY <1>11 DEF PollRx, txVars, Decided, IInv, TypeOK, TxInv
  <2> QED
    BY <1>0
<1>12. CASE CancelPoll
  <2> Same
    BY <1>12 DEF CancelPoll, RxFrame, txVars, Decided, IInv, TypeOK, TxInv
  <2> QED
    BY <1>0
<1>13. CASE PutWaker
  <2> Same
    BY <1>13 DEF PutWaker, RxFrame, txVars, Decided, IInv, TypeOK, TxInv
  <2> QED
    BY <1>0
<1>14. CASE SetWaker
  <2> Same
    BY <1>14 DEF SetWaker, RxFrame, txVars, Decided, IInv, TypeOK, TxInv
  <2> QED
    BY <1>0
<1>15. CASE CheckRx
  <2> Same
    BY <1>15 DEF CheckRx, RxFrame, txVars, Decided, IInv, TypeOK, TxInv
  <2> QED
    BY <1>0
<1>16. CASE Unparked
  <2> Same
    BY <1>16 DEF Unparked, txVars, Decided, IInv, TypeOK, TxInv
  <2> QED
    BY <1>0
<1>17. CASE TakeValue
  BY <1>17 DEF TakeValue, RxFrame, txVars, Sender, Decided, IInv, TypeOK,
     TxInv, RxInv,
     MemInv, Abstract!Next, Abstract!Decide, Abstract!Deliver,
     Abstract!Disconnect, Abstract!GiveUp
<1>18. CASE CloseRx
  <2> Same
    BY <1>18 DEF CloseRx, RxFrame, txVars, Decided, IInv, TypeOK, TxInv
  <2> QED
    BY <1>0
<1>19. CASE FreeByRx
  <2> Same
    BY <1>19 DEF FreeByRx, RxFrame, txVars, Decided, IInv, TypeOK, TxInv
  <2> QED
    BY <1>0
<1>20. CASE UNCHANGED vars
  BY <1>20 DEF vars, txVars, rxVars, Sender, Decided
<1> QED
  BY <1>1, <1>2, <1>3, <1>4, <1>5, <1>6, <1>7, <1>8, <1>9, <1>10, <1>11,
     <1>12, <1>13, <1>14, <1>15, <1>16, <1>17, <1>18, <1>19, <1>20
     DEF Next, TxStep, RxCallStep, Terminated

(* The oneshot channel implements the abstract one.                        *)
THEOREM Refinement == ASSUME ~MixModes PROVE Spec => AbstractSpec
<1>1. Init => Abstract!Init
  BY DEF Init, Abstract!Init, Sender, Decided
<1>2. IInv /\ IInv' /\ [Next]_vars => [Abstract!Next]_<<Sender, result>>
  BY StepSimulation
<1> QED
  BY <1>1, <1>2, Inductive, PTL DEF Spec, AbstractSpec, Abstract!Spec
=============================================================================
