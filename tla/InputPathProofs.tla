-------------------------- MODULE InputPathProofs --------------------------
(***************************************************************************)
(* For every capacity, and every number of keys, bytes and resets: each    *)
(* reader gets what its ring was given, once each and in order, although   *)
(* nothing excludes the interrupt handlers from the middle of a pop or of  *)
(* a reset.                                                                *)
(***************************************************************************)
EXTENDS InputPath, SequenceTheorems, TLAPS

-----------------------------------------------------------------------------
(* What a push and a pop do to the items of a ring, for every capacity.     *)

(* The masked increment without the remainder.                             *)
LEMMA AdvanceByCase ==
    ASSUME NEW i \in Index
    PROVE  /\ RingAdvance(i) \in Index
           /\ i < Capacity - 1 => RingAdvance(i) = i + 1
           /\ i = Capacity - 1 => RingAdvance(i) = 0
BY CapacityAssumption DEF RingAdvance, Index

(* Two slots with the same successor are the same slot.                    *)
LEMMA AdvanceInjective ==
    ASSUME NEW i \in Index, NEW j \in Index, RingAdvance(i) = RingAdvance(j)
    PROVE  i = j
BY AdvanceByCase, CapacityAssumption DEF Index

(* A ring holds at most Capacity - 1 items, none exactly when head = tail, *)
(* and each lies in a slot of the buffer.                                  *)
LEMMA CountAndSlotType ==
    ASSUME NEW Item, NEW r \in Ring(Item)
    PROVE  /\ RingCount(r) \in 0 .. Capacity - 1
           /\ RingCount(r) = 0 <=> RingEmpty(r)
           /\ \A k \in 0 .. Capacity - 1 : RingSlot(r, k) \in Index
BY CapacityAssumption DEF Ring, Index, RingCount, RingEmpty, RingSlot

(* A push and a release leave a ring: the indices stay in the buffer.      *)
LEMMA RingTypes ==
    ASSUME NEW Item, NEW r \in Ring(Item)
    PROVE  /\ \A x \in Item : RingPush(r, x) \in Ring(Item)
           /\ RingRelease(r) \in Ring(Item)
<1>1. r.head \in Index /\ r.tail \in Index /\ r.buf \in [Index -> Item]
  BY DEF Ring
<1>2. RingAdvance(r.head) \in Index /\ RingAdvance(r.tail) \in Index
  BY <1>1, AdvanceByCase
<1> QED
  BY <1>1, <1>2 DEF Ring, RingPush, RingRelease

(* A push that finds room adds the item behind the others and touches no   *)
(* slot but the one at head.                                               *)
LEMMA PushAddsLast ==
    ASSUME NEW Item, NEW r \in Ring(Item), NEW x \in Item, ~RingFull(r)
    PROVE  /\ RingPush(r, x) \in Ring(Item)
           /\ RingPush(r, x).tail = r.tail
           /\ RingCount(RingPush(r, x)) = RingCount(r) + 1
           /\ \A k \in 0 .. RingCount(r) - 1 :
                 RingPush(r, x).buf[RingSlot(r, k)] = r.buf[RingSlot(r, k)]
           /\ RingPush(r, x).buf[RingSlot(r, RingCount(r))] = x
           /\ \A i \in Index \ {r.head} : RingPush(r, x).buf[i] = r.buf[i]
<1> DEFINE p == RingPush(r, x)
<1>1. /\ p = [r EXCEPT !.buf[r.head] = x, !.head = RingAdvance(r.head)]
      /\ r.head \in Index /\ r.tail \in Index /\ r.buf \in [Index -> Item]
  BY DEF RingPush, Ring
<1>2. RingAdvance(r.head) \in Index
  BY <1>1, AdvanceByCase
<1>3. /\ p.tail = r.tail /\ p.head = RingAdvance(r.head)
      /\ p.buf = [r.buf EXCEPT ![r.head] = x] /\ p \in Ring(Item)
  BY <1>1, <1>2 DEF Ring
<1>4. RingCount(p) = RingCount(r) + 1
  BY <1>1, <1>3, AdvanceByCase, CapacityAssumption DEF RingCount, RingFull, Index
<1>5. \A k \in 0 .. RingCount(r) - 1 : RingSlot(r, k) \in Index \ {r.head}
  BY SMTT(30), <1>1, CapacityAssumption DEF RingCount, RingSlot, Index
<1>6. RingSlot(r, RingCount(r)) = r.head
  BY <1>1, CapacityAssumption DEF RingCount, RingSlot, Index
<1> QED
  BY <1>1, <1>3, <1>4, <1>5, <1>6

(* A release removes the first item and leaves the others where they are.  *)
LEMMA ReleaseDropsFirst ==
    ASSUME NEW Item, NEW r \in Ring(Item), RingCount(r) >= 1
    PROVE  /\ RingRelease(r) \in Ring(Item)
           /\ RingRelease(r).buf = r.buf
           /\ RingRelease(r).tail = RingAdvance(r.tail)
           /\ RingCount(RingRelease(r)) = RingCount(r) - 1
           /\ \A k \in 0 .. RingCount(r) - 2 :
                 RingSlot(RingRelease(r), k) = RingSlot(r, k + 1)
<1> DEFINE p == RingRelease(r)
<1>1. /\ r.head \in Index /\ r.tail \in Index /\ r.buf \in [Index -> Item]
      /\ RingAdvance(r.tail) \in Index
  BY AdvanceByCase DEF Ring
<1>2. /\ p.tail = RingAdvance(r.tail) /\ p.head = r.head /\ p.buf = r.buf
      /\ p \in Ring(Item)
  BY <1>1 DEF RingRelease, Ring
<1>5. /\ r.tail < Capacity - 1 => p.tail = r.tail + 1
      /\ r.tail = Capacity - 1 => p.tail = 0
  BY <1>1, <1>2, AdvanceByCase
<1> HIDE DEF p
<1>3. RingCount(p) = RingCount(r) - 1
  BY <1>1, <1>2, <1>5, CapacityAssumption DEF RingCount, Index
<1>4. ASSUME NEW k \in 0 .. RingCount(r) - 2
      PROVE  RingSlot(p, k) = RingSlot(r, k + 1)
  <2>1. k \in Nat /\ k < Capacity
    BY CountAndSlotType, CapacityAssumption
  <2>2. CASE r.tail < Capacity - 1
    BY <1>1, <1>5, <2>1, <2>2, CapacityAssumption DEF RingSlot, Index
  <2>3. CASE r.tail = Capacity - 1
    BY <1>1, <1>5, <2>1, <2>3, CapacityAssumption DEF RingSlot, Index
  <2> QED
    BY <1>1, <2>2, <2>3, CapacityAssumption DEF Index
<1> USE DEF p
<1> QED
  BY <1>2, <1>3, <1>4

-----------------------------------------------------------------------------
(* The variables have their types: the rings' indices stay in the buffer.  *)
LEMMA TypeInit == Init => TypeOK
<1> SUFFICES ASSUME Init PROVE TypeOK
  OBVIOUS
<1>1. \A S : <<>> \in Seq(S)
  OBVIOUS
<1>2. 0 \in Index
  BY CapacityAssumption DEF Index
<1>3. kb_queue \in Ring(Keys) /\ rx_buf \in Ring(Bytes)
  BY <1>2, InputAssumption DEF Init, EmptyRing, Ring
<1> QED
  BY <1>1, <1>2, <1>3 DEF Init, TypeOK, Places, Ops

(* Every handler, and every step of the thread, keeps the types.           *)
LEMMA TypeStep == TypeOK /\ [Next]_vars => TypeOK'
<1> SUFFICES ASSUME TypeOK, [Next]_vars PROVE TypeOK'
  OBVIOUS
<1> USE DEF TypeOK, At, Places, Ops
<1>1. Woken \in {"check_kb", "caller", pc} /\ (pc \notin {"halted"} => Woken = pc)
  BY DEF Woken
<1>d. <<>> \in Seq(Bytes)
  OBVIOUS
<1>a. \A b \in Bytes : FifoPut(uart, b) \in Seq(Bytes)
  BY DEF FifoPut
<1>2. CASE KeyboardIrq
  <2>1. PICK key \in Keys :
           /\ kb_queue' = RingPush(kb_queue, key)
           /\ IF RingFull(kb_queue)
              THEN kbDropped' = kbDropped + 1 /\ kbLog' = kbLog
              ELSE kbDropped' = kbDropped /\ kbLog' = Append(kbLog, key)
    BY <1>2 DEF KeyboardIrq
  <2>2. kb_queue' \in Ring(Keys)
    BY <2>1, RingTypes
  <2>3. kbDropped' \in Nat /\ kbLog' \in Seq(Keys)
    <3>1. CASE RingFull(kb_queue)
      BY <2>1, <3>1
    <3>2. CASE ~RingFull(kb_queue)
      <4>1. kbDropped' = kbDropped /\ kbLog' = Append(kbLog, key)
        BY <2>1, <3>2
      <4> QED
        BY <4>1, AppendProperties
    <3> QED
      BY <3>1, <3>2
  <2> QED
    BY <1>1, <1>2, <2>2, <2>3
    DEF KeyboardIrq, rxVars, lineVars, controlReg, popVars, driverVars
<1>3. CASE TimerIrq
  BY <1>1, <1>3 DEF TimerIrq, kbVars, rxVars, lineVars, controlReg, popVars, driverVars
<1>4. CASE ByteArrives
  BY <1>a, <1>4 DEF ByteArrives, kbVars, rxVars, controlReg, popVars, driverVars
<1>5. CASE SerialIrqEnter
  BY <1>5 DEF SerialIrqEnter, kbVars, rxVars, lineVars, controlReg, popVars, driverVars
<1>6. CASE SerialIrqPush
  <2>1. Head(uart) \in Bytes /\ uart' \in Seq(Bytes)
    BY <1>6 DEF SerialIrqPush, FifoAfterRead
  <2>2. PICK b \in Bytes :
           /\ rx_buf' = RingPush(rx_buf, b)
           /\ rxLog' = IF RingFull(rx_buf) THEN rxLog ELSE Append(rxLog, b)
    BY <1>6, <2>1 DEF SerialIrqPush
  <2>3. rx_buf' \in Ring(Bytes)
    BY <2>2, RingTypes
  <2>4. rxLog' \in Seq(Bytes)
    BY <2>2
  <2> QED
    BY <1>6, <2>1, <2>3, <2>4 DEF SerialIrqPush, kbVars, controlReg, popVars, driverVars
<1>7. CASE SerialIrqReturn
  BY <1>1, <1>7 DEF SerialIrqReturn, kbVars, rxVars, lineVars, controlReg, popVars, driverVars
<1>8. CASE Call
  BY <1>8 DEF Call, kbVars, rxVars, lineVars, controlReg, popVars, driverVars
<1>9. CASE CheckKeyboard \/ CheckSerial
  BY <1>9 DEF CheckKeyboard, CheckSerial, StartPop, Ring, kbVars, rxVars, lineVars,
              controlReg, driverVars
<1>10. CASE ReadKeySlot \/ ReadByteSlot
  <2>1. kb_queue.buf[slot] \in Keys /\ rx_buf.buf[slot] \in Bytes
    BY DEF Ring
  <2> QED
    BY <1>10, <2>1 DEF ReadKeySlot, ReadByteSlot, kbVars, rxVars, lineVars, controlReg,
                       driverVars
<1>11. CASE ReleaseKeySlot \/ ReleaseByteSlot
  BY <1>11, RingTypes DEF ReleaseKeySlot, ReleaseByteSlot, kbVars, rxVars, lineVars,
                          controlReg, driverVars
<1>12. CASE ReturnKey
  BY <1>12 DEF ReturnKey, rxVars, lineVars, controlReg, popVars, driverVars
<1>13. CASE ReturnByte
  BY <1>13 DEF ReturnByte, kbVars, lineVars, controlReg, popVars, driverVars
<1>14. CASE PollReturnsNone \/ Halt
  BY <1>14 DEF PollReturnsNone, Halt, kbVars, rxVars, lineVars, controlReg, popVars,
               driverVars
<1>b. CASE ComportInit
  BY <1>b DEF ComportInit, kbVars, rxVars, lineVars, controlReg
<1>15. CASE ResetHead \/ ResetTail
  <2>1. 0 \in Index
    BY CapacityAssumption DEF Index
  <2>2. rx_buf' \in Ring(Bytes)
    BY <1>15, <2>1 DEF ResetHead, ResetTail, Ring
  <2> QED
    BY <1>15, <1>d, <2>2 DEF ResetHead, ResetTail, kbVars, lineVars, controlReg, driverVars
<1>16. CASE DisableIrq \/ SetupUart
  <2>1. ier' \in BOOLEAN
    BY <1>16 DEF DisableIrq, SetupUart
  <2> QED
    BY <1>16, <1>d, <2>1 DEF DisableIrq, SetupUart, kbVars, rxVars, lineVars, popVars, driverVars
<1>17. CASE LoopbackTest
  <2>1. PICK healthy \in BOOLEAN :
           LET looped == FifoPut(uart, TestByte)
               passed == healthy /\ Head(looped) = TestByte
           IN  /\ uart' = Tail(looped)
               /\ ier' = (ier \/ passed)
               /\ driver_active' = (passed /\ op = "claim")
    BY <1>17 DEF LoopbackTest
  <2>2. ier' \in BOOLEAN /\ driver_active' \in BOOLEAN
    BY <2>1
  <2>3. FifoPut(uart, TestByte) # <<>> /\ FifoPut(uart, TestByte) \in Seq(Bytes)
    BY InputAssumption, AppendProperties DEF FifoPut
  <2>4. uart' \in Seq(Bytes)
    BY <2>1, <2>3
  <2> QED
    BY <1>17, <2>2, <2>4 DEF LoopbackTest, kbVars, rxVars, popVars
<1>18. CASE DriverPortRead \/ DriverPortWrite
  <2>1. ier' \in BOOLEAN /\ dlab' \in BOOLEAN
    BY <1>18 DEF DriverPortRead, DriverPortWrite, controlReg
  <2>2. uart' \in Seq(Bytes)
    <3>1. CASE DriverPortRead
      BY <3>1 DEF DriverPortRead
    <3>2. CASE DriverPortWrite
      BY <3>2, <1>d DEF DriverPortWrite
    <3> QED
      BY <1>18, <3>1, <3>2
  <2> QED
    BY <1>18, <2>1, <2>2 DEF DriverPortRead, DriverPortWrite, kbVars, rxVars, popVars,
                             driverVars
<1>c. CASE DriverEnd
  <2>1. ier' \in BOOLEAN
    BY <1>c DEF DriverEnd
  <2> QED
    BY <1>c, <2>1 DEF DriverEnd, kbVars, rxVars, lineVars, popVars
<1>19. CASE UNCHANGED vars
  BY <1>19 DEF vars, kbVars, rxVars, lineVars, controlReg, popVars, driverVars
<1> QED
  BY <1>2, <1>3, <1>4, <1>5, <1>6, <1>7, <1>8, <1>9, <1>10, <1>11, <1>12, <1>13, <1>14,
     <1>b, <1>15, <1>16, <1>17, <1>18, <1>c, <1>19
  DEF Next, SerialIrq, Thread, Pop, Reset, Driver

(* Type correctness of the input path: in every reachable state, for every *)
(* capacity, both rings are well formed and what a pop has in hand is an   *)
(* item of the ring it pops from (keyboard.c, ringbuf.c, comport.c).       *)
THEOREM TypeCorrect == Spec => []TypeOK
<1> QED
  BY TypeInit, TypeStep, PTL DEF Spec

-----------------------------------------------------------------------------
(* The inductive invariant.  Of the items that entered a ring, log, the    *)
(* ring holds all but the first n.                                         *)
RingHolds(r, log, n) ==
    /\ Len(log) = n + RingCount(r)
    /\ \A k \in 0 .. RingCount(r) - 1 : r.buf[RingSlot(r, k)] = log[n + k + 1]

(* In a pop the next item to hand over is still in its slot, or in hand.   *)
(* A released slot that is yet to be read is the one before tail: the slot *)
(* a push never writes, because the ring counts as full before it.         *)
PopHolds(r, log, got, do, s, i) ==
    /\ Len(got) < Len(log)
    /\ IF "release" \in do THEN s = r.tail /\ ~RingEmpty(r) ELSE RingAdvance(s) = r.tail
    /\ (IF "read" \in do THEN r.buf[s] ELSE i) = log[Len(got) + 1]

SameSoFar(got, log) ==
    Len(got) <= Len(log) /\ \A i \in 1 .. Len(got) : got[i] = log[i]

Released(place, got) ==
    Len(got) + (IF pc = place /\ "release" \notin todo THEN 1 ELSE 0)

KbInv ==
    /\ SameSoFar(kbGot, kbLog)
    /\ RingHolds(kb_queue, kbLog, Released("pop_kb", kbGot))
    /\ pc = "pop_kb" => PopHolds(kb_queue, kbLog, kbGot, todo, slot, item)

(* Between its two stores comport_init leaves a ring that does not agree   *)
(* with the log.  With head stored first, the new bytes lie from slot 0 up *)
(* to the old tail at most; with tail stored first, head will discard all. *)
HalfReset == pc = "init" /\ todo \in {{"head"}, {"tail"}}

RxInv ==
    /\ SameSoFar(rxGot, rxLog)
    /\ ~HalfReset => RingHolds(rx_buf, rxLog, Released("pop_rx", rxGot))
    /\ pc = "pop_rx" => PopHolds(rx_buf, rxLog, rxGot, todo, slot, item)
    /\ pc = "init" /\ "tail" \notin todo => rx_buf.tail = 0
    /\ pc = "init" /\ todo = {"tail"} =>
          /\ rxGot = <<>> /\ Len(rxLog) = rx_buf.head
          /\ rx_buf.tail = 0 \/ rx_buf.head < rx_buf.tail
          /\ \A k \in 0 .. rx_buf.head - 1 : rx_buf.buf[k] = rxLog[k + 1]

TodoOK ==
    /\ pc \in {"pop_kb", "pop_rx"} => todo \subseteq {"read", "release"}
    /\ pc = "init" => todo \subseteq {"head", "tail"}

-----------------------------------------------------------------------------
(* How a push, a release and a read act on the parts of the invariant.     *)
LEMMA PushHolds ==
    ASSUME NEW S, NEW r \in Ring(S), NEW log \in Seq(S), NEW n \in Nat, NEW x \in S,
           RingHolds(r, log, n), ~RingFull(r)
    PROVE  RingHolds(RingPush(r, x), Append(log, x), n)
<1> DEFINE p == RingPush(r, x)
           c == RingCount(r)
<1>1. /\ p.tail = r.tail /\ RingCount(p) = c + 1
      /\ \A k \in 0 .. c - 1 : p.buf[RingSlot(r, k)] = r.buf[RingSlot(r, k)]
      /\ p.buf[RingSlot(r, c)] = x
  BY PushAddsLast
<1>2. c \in Nat /\ Len(log) = n + c
  BY CountAndSlotType, CapacityAssumption DEF RingHolds
<1>3. /\ Len(Append(log, x)) = n + c + 1
      /\ Append(log, x)[n + c + 1] = x
      /\ \A k \in 0 .. c - 1 : Append(log, x)[n + k + 1] = log[n + k + 1]
  BY <1>2, AppendProperties
<1>4. \A k : RingSlot(p, k) = RingSlot(r, k)
  BY <1>1 DEF RingSlot
<1> HIDE DEF p, c
<1>5. ASSUME NEW k \in 0 .. RingCount(p) - 1
      PROVE  p.buf[RingSlot(p, k)] = Append(log, x)[n + k + 1]
  <2>1. CASE k = c
    BY <1>1, <1>3, <1>4, <2>1
  <2>2. CASE k \in 0 .. c - 1
    <3>1. r.buf[RingSlot(r, k)] = log[n + k + 1]
      BY <2>2 DEF RingHolds, c
    <3> QED
      BY <1>1, <1>3, <1>4, <2>2, <3>1
  <2> QED
    BY <1>1, <1>2, <2>1, <2>2
<1>6. Len(Append(log, x)) = n + RingCount(p)
  BY <1>1, <1>2, <1>3
<1> QED
  BY <1>5, <1>6 DEF RingHolds, p

(* The store to tail of a pop: one more item of the log has left the ring. *)
LEMMA ReleaseHolds ==
    ASSUME NEW S, NEW r \in Ring(S), NEW log \in Seq(S), NEW n \in Nat,
           RingHolds(r, log, n), ~RingEmpty(r)
    PROVE  RingHolds(RingRelease(r), log, n + 1)
<1> DEFINE p == RingRelease(r)
           c == RingCount(r)
<1>1. c \in Nat /\ c >= 1 /\ Len(log) = n + c
  BY CountAndSlotType, CapacityAssumption DEF RingHolds
<1>2. /\ p.buf = r.buf /\ RingCount(p) = c - 1
      /\ \A k \in 0 .. c - 2 : RingSlot(p, k) = RingSlot(r, k + 1)
  BY <1>1, ReleaseDropsFirst
<1>3. \A k \in 0 .. c - 1 : r.buf[RingSlot(r, k)] = log[n + k + 1]
  BY DEF RingHolds
<1> HIDE DEF p, c
<1>4. ASSUME NEW k \in 0 .. RingCount(p) - 1
      PROVE  p.buf[RingSlot(p, k)] = log[(n + 1) + k + 1]
  <2>1. k + 1 \in 0 .. c - 1 /\ k \in 0 .. c - 2 /\ (n + 1) + k + 1 = n + (k + 1) + 1
    BY <1>1, <1>2
  <2> QED
    BY <1>2, <1>3, <2>1
<1>5. Len(log) = (n + 1) + RingCount(p)
  BY <1>1, <1>2
<1> QED
  BY <1>4, <1>5 DEF RingHolds, p

(* The first item of a ring that holds all but the first n of log.         *)
LEMMA FirstHeld ==
    ASSUME NEW S, NEW r \in Ring(S), NEW log \in Seq(S), NEW n \in Nat,
           RingHolds(r, log, n), ~RingEmpty(r)
    PROVE  n < Len(log) /\ r.buf[r.tail] = log[n + 1]
<1>1. RingCount(r) \in Nat /\ RingCount(r) >= 1
  BY CountAndSlotType, CapacityAssumption
<1>2. RingSlot(r, 0) = r.tail
  BY CapacityAssumption DEF RingSlot, Ring, Index
<1>3. r.buf[RingSlot(r, 0)] = log[n + 0 + 1]
  BY <1>1 DEF RingHolds
<1> QED
  BY <1>1, <1>2, <1>3 DEF RingHolds

(* A handler that interrupts a pop pushes into another slot than the one   *)
(* the pop reads, whichever of its two memory operations came first.       *)
LEMMA PushKeepsPop ==
    ASSUME NEW S, NEW r \in Ring(S), NEW log \in Seq(S), NEW got \in Seq(S), NEW x \in S,
           NEW do, NEW s \in Index, NEW i, PopHolds(r, log, got, do, s, i), ~RingFull(r)
    PROVE  PopHolds(RingPush(r, x), Append(log, x), got, do, s, i)
<1> DEFINE p == RingPush(r, x)
<1>0. r.head \in Index /\ r.tail \in Index
  BY DEF Ring
<1>1. /\ p \in Ring(S) /\ p.tail = r.tail /\ RingCount(p) = RingCount(r) + 1
      /\ \A j \in Index \ {r.head} : p.buf[j] = r.buf[j]
  BY PushAddsLast
<1>2. s # r.head
  BY <1>0 DEF PopHolds, RingEmpty, RingFull
<1>3. ~RingEmpty(p)
  <2>1. RingCount(r) \in Nat
    BY CountAndSlotType, CapacityAssumption
  <2>2. RingCount(p) # 0
    BY <1>1, <2>1
  <2> QED
    BY <1>1, <2>2, CountAndSlotType
<1>4. /\ Len(got) < Len(Append(log, x))
      /\ Append(log, x)[Len(got) + 1] = log[Len(got) + 1]
  BY AppendProperties DEF PopHolds
<1> HIDE DEF p
<1> QED
  BY <1>1, <1>2, <1>3, <1>4 DEF PopHolds, p

(* What was delivered so far does not change when an item is logged.       *)
LEMMA PushKeepsSame ==
    ASSUME NEW S, NEW log \in Seq(S), NEW got \in Seq(S), NEW x \in S, SameSoFar(got, log)
    PROVE  SameSoFar(got, Append(log, x))
BY AppendProperties DEF SameSoFar

(* The thread hands over the next item of the log.                         *)
LEMMA TakeKeepsSame ==
    ASSUME NEW S, NEW log \in Seq(S), NEW got \in Seq(S), SameSoFar(got, log),
           NEW i \in S, Len(got) < Len(log), i = log[Len(got) + 1]
    PROVE  SameSoFar(Append(got, i), log)
BY AppendProperties DEF SameSoFar

(* The invariant says of delivered items what the property says.           *)
LEMMA SameIsPrefix ==
    ASSUME NEW S, NEW log \in Seq(S), NEW got \in Seq(S), SameSoFar(got, log)
    PROVE  IsPrefix(got, log)
<1>1. Len(got) \in Nat /\ Len(log) \in Nat
  BY LenProperties
<1>2. /\ SubSeq(got, 1, Len(got)) \in Seq(S) /\ SubSeq(log, 1, Len(got)) \in Seq(S)
      /\ Len(SubSeq(got, 1, Len(got))) = Len(got)
      /\ Len(SubSeq(log, 1, Len(got))) = Len(got)
      /\ \A i \in 1 .. Len(got) :
            SubSeq(got, 1, Len(got))[i] = got[i] /\ SubSeq(log, 1, Len(got))[i] = log[i]
  BY <1>1 DEF SameSoFar
<1>3. SubSeq(got, 1, Len(got)) = SubSeq(log, 1, Len(got))
  BY <1>2, SeqEqual DEF SameSoFar
<1> QED
  BY <1>3 DEF IsPrefix, SameSoFar

-----------------------------------------------------------------------------
IInv == TypeOK /\ TodoOK /\ KbInv /\ RxInv

(* keyboard_init and comport_init leave rings that agree with empty logs.  *)
LEMMA IInvInit == Init => IInv
<1> SUFFICES ASSUME Init PROVE IInv
  OBVIOUS
<1>1. TypeOK
  BY TypeInit
<1>2. RingCount(kb_queue) = 0 /\ RingCount(rx_buf) = 0
  BY DEF Init, EmptyRing, RingCount
<1>3. Released("pop_kb", kbGot) = 0 /\ Released("pop_rx", rxGot) = 0
  BY DEF Init, Released
<1>4. Len(<<>>) = 0 /\ SameSoFar(<<>>, <<>>)
  BY DEF SameSoFar
<1> QED
  BY <1>1, <1>2, <1>3, <1>4 DEF Init, IInv, TodoOK, KbInv, RxInv, RingHolds

(* What is still to be done of a pop or of a reset.                        *)
LEMMA TodoStep == TypeOK /\ TodoOK /\ [Next]_vars => TodoOK'
<1> SUFFICES ASSUME TypeOK, TodoOK, [Next]_vars PROVE TodoOK'
  OBVIOUS
<1> USE DEF TodoOK, At, popVars
<1>1. CASE UNCHANGED <<pc, popVars>>
  BY <1>1
<1>2. CASE KeyboardIrq \/ TimerIrq \/ SerialIrqReturn
  BY <1>2 DEF KeyboardIrq, TimerIrq, SerialIrqReturn, Woken
<1>3. CASE Call \/ PollReturnsNone \/ Halt \/ ReturnKey \/ ReturnByte
  BY <1>3 DEF Call, PollReturnsNone, Halt, ReturnKey, ReturnByte
<1>4. CASE CheckKeyboard \/ CheckSerial \/ ComportInit
  BY <1>4 DEF CheckKeyboard, CheckSerial, StartPop, ComportInit
<1>5. CASE ReadKeySlot \/ ReadByteSlot \/ ReleaseKeySlot \/ ReleaseByteSlot
  BY <1>5 DEF ReadKeySlot, ReadByteSlot, ReleaseKeySlot, ReleaseByteSlot
<1>6. CASE Reset
  BY <1>6 DEF Reset, ResetHead, ResetTail, DisableIrq, SetupUart, LoopbackTest
<1>7. CASE ByteArrives \/ SerialIrqEnter \/ SerialIrqPush \/ Driver \/ UNCHANGED vars
  BY <1>1, <1>7 DEF ByteArrives, SerialIrqEnter, SerialIrqPush, Driver, DriverPortRead,
                    DriverPortWrite, DriverEnd, vars
<1> QED
  BY <1>2, <1>3, <1>4, <1>5, <1>6, <1>7 DEF Next, SerialIrq, Thread, Pop

(* The keyboard's part.                                                    *)
LEMMA KbStep == IInv /\ [Next]_vars => KbInv'
<1> SUFFICES ASSUME IInv, [Next]_vars PROVE KbInv'
  OBVIOUS
<1> DEFINE n == Released("pop_kb", kbGot)
<1> USE DEF At
<1>0. /\ kb_queue \in Ring(Keys) /\ kbLog \in Seq(Keys) /\ kbGot \in Seq(Keys)
      /\ slot \in Index
      /\ pc = "pop_kb" => todo \subseteq {"read", "release"}
      /\ Len(kbGot) \in Nat /\ n \in Nat
  BY DEF IInv, TypeOK, TodoOK, Released
<1> USE DEF IInv, KbInv
<1>1. CASE UNCHANGED <<kbVars, pc, popVars>>
  BY <1>1 DEF kbVars, popVars, Released
<1>2. CASE UNCHANGED kbVars /\ pc # "pop_kb" /\ pc' # "pop_kb"
  BY <1>2 DEF kbVars, Released
<1>3. CASE KeyboardIrq
  <2>1. /\ (pc = "pop_kb") <=> (pc' = "pop_kb")
        /\ UNCHANGED <<kbGot, popVars>>
    BY <1>3 DEF KeyboardIrq, Woken
  <2>2. Released("pop_kb", kbGot)' = n
    BY <2>1 DEF Released, popVars
  <2>3. CASE RingFull(kb_queue)
    <3>1. UNCHANGED <<kb_queue, kbLog>>
      BY <1>3, <2>3 DEF KeyboardIrq, RingPush
    <3> QED
      BY <2>1, <2>2, <3>1 DEF popVars
  <2>4. CASE ~RingFull(kb_queue)
    <3>1. PICK key \in Keys : kb_queue' = RingPush(kb_queue, key) /\ kbLog' = Append(kbLog, key)
      BY <1>3, <2>4 DEF KeyboardIrq
    <3>2. RingHolds(kb_queue', kbLog', n)
      BY <1>0, <2>4, <3>1, PushHolds
    <3>3. SameSoFar(kbGot, kbLog')
      BY <1>0, <3>1, PushKeepsSame
    <3>4. ASSUME pc = "pop_kb"
          PROVE  PopHolds(kb_queue', kbLog', kbGot, todo, slot, item)
      BY <1>0, <2>4, <3>1, <3>4, PushKeepsPop
    <3> QED
      BY <2>1, <2>2, <3>2, <3>3, <3>4 DEF popVars
  <2> QED
    BY <2>3, <2>4
<1>4. CASE CheckKeyboard
  <2>1. CASE RingEmpty(kb_queue)
    BY <1>2, <1>4, <2>1 DEF CheckKeyboard
  <2>2. CASE ~RingEmpty(kb_queue)
    <3>1. /\ pc = "check_kb" /\ pc' = "pop_kb" /\ slot' = kb_queue.tail
          /\ todo' = {"read", "release"} /\ UNCHANGED kbVars
      BY <1>4, <2>2 DEF CheckKeyboard, StartPop
    <3>2. n = Len(kbGot) /\ Released("pop_kb", kbGot)' = n
      BY <3>1 DEF Released, kbVars
    <3>3. n < Len(kbLog) /\ kb_queue.buf[kb_queue.tail] = kbLog[n + 1]
      BY <1>0, <2>2, FirstHeld
    <3> QED
      BY <2>2, <3>1, <3>2, <3>3 DEF kbVars, PopHolds
  <2> QED
    BY <2>1, <2>2
<1>5. CASE ReadKeySlot
  <2>1. /\ pc = "pop_kb" /\ pc' = "pop_kb" /\ item' = kb_queue.buf[slot] /\ slot' = slot
        /\ "read" \in todo /\ todo' = todo \ {"read"} /\ UNCHANGED kbVars
    BY <1>5 DEF ReadKeySlot
  <2>2. Released("pop_kb", kbGot)' = n
    BY <2>1 DEF Released, kbVars
  <2>3. PopHolds(kb_queue, kbLog, kbGot, todo', slot, item')
    BY <2>1 DEF PopHolds
  <2> QED
    BY <2>1, <2>2, <2>3 DEF kbVars
<1>6. CASE ReleaseKeySlot
  <2>1. /\ pc = "pop_kb" /\ pc' = "pop_kb" /\ kb_queue' = RingRelease(kb_queue)
        /\ "release" \in todo /\ todo' = todo \ {"release"}
        /\ UNCHANGED <<kbLog, kbGot, slot, item>>
    BY <1>6 DEF ReleaseKeySlot
  <2>2. n = Len(kbGot) /\ Released("pop_kb", kbGot)' = n + 1
    BY <1>0, <2>1 DEF Released
  <2>3. ~RingEmpty(kb_queue) /\ slot = kb_queue.tail
    BY <2>1 DEF PopHolds
  <2>4. RingHolds(kb_queue', kbLog, n + 1)
    BY <1>0, <2>1, <2>3, ReleaseHolds
  <2>5. PopHolds(kb_queue', kbLog, kbGot, todo', slot, item)
    <3>1. kb_queue'.buf = kb_queue.buf /\ kb_queue'.tail = RingAdvance(slot)
      BY <1>0, <2>1, <2>3 DEF RingRelease, Ring
    <3> QED
      BY <2>1, <3>1 DEF PopHolds
  <2> QED
    BY <2>1, <2>2, <2>4, <2>5
<1>7. CASE ReturnKey
  <2>1. /\ pc = "pop_kb" /\ pc' = "caller" /\ todo = {} /\ kbGot' = Append(kbGot, item)
        /\ UNCHANGED <<kb_queue, kbLog, popVars>> /\ item \in Keys
    BY <1>7 DEF ReturnKey, TypeOK
  <2>2. Released("pop_kb", kbGot)' = n
    BY <1>0, <2>1, AppendProperties DEF Released
  <2>3. Len(kbGot) < Len(kbLog) /\ item = kbLog[Len(kbGot) + 1]
    BY <2>1 DEF PopHolds
  <2>4. SameSoFar(kbGot', kbLog)
    BY <1>0, <2>1, <2>3, TakeKeepsSame
  <2> QED
    BY <2>1, <2>2, <2>4
<1>8. CASE Call \/ CheckSerial \/ PollReturnsNone \/ Halt \/ ComportInit \/ Reset
  BY <1>2, <1>8 DEF Call, CheckSerial, StartPop, PollReturnsNone, Halt, ComportInit, Reset,
                    ResetHead, ResetTail, DisableIrq, SetupUart, LoopbackTest
<1>9. CASE ReadByteSlot \/ ReleaseByteSlot \/ ReturnByte
  BY <1>2, <1>9 DEF ReadByteSlot, ReleaseByteSlot, ReturnByte
<1>10. CASE TimerIrq \/ SerialIrqReturn
  <2>1. UNCHANGED <<kbVars, popVars>>
    BY <1>10 DEF TimerIrq, SerialIrqReturn
  <2>2. pc' = pc \/ (pc # "pop_kb" /\ pc' # "pop_kb")
    BY <1>10 DEF TimerIrq, SerialIrqReturn, Woken
  <2> QED
    BY <1>1, <1>2, <2>1, <2>2
<1>11. CASE ByteArrives \/ SerialIrqEnter \/ SerialIrqPush \/ Driver \/ UNCHANGED vars
  BY <1>1, <1>11 DEF ByteArrives, SerialIrqEnter, SerialIrqPush, Driver, DriverPortRead,
                     DriverPortWrite, DriverEnd, vars
<1> QED
  BY <1>3, <1>4, <1>5, <1>6, <1>7, <1>8, <1>9, <1>10, <1>11
  DEF Next, SerialIrq, Thread, Pop

(* COM1's part: the same, and comport_init.                                *)
LEMMA HalfResetPush ==
    ASSUME IInv, pc = "init", todo = {"tail"}, NEW b \in Bytes, ~RingFull(rx_buf),
           rx_buf' = RingPush(rx_buf, b), rxLog' = Append(rxLog, b), rxGot' = rxGot
    PROVE  /\ rxGot' = <<>> /\ Len(rxLog') = rx_buf'.head
           /\ rx_buf'.tail = 0 \/ rx_buf'.head < rx_buf'.tail
           /\ \A k \in 0 .. rx_buf'.head - 1 : rx_buf'.buf[k] = rxLog'[k + 1]
<1>1. /\ rxGot = <<>> /\ Len(rxLog) = rx_buf.head
      /\ rx_buf.tail = 0 \/ rx_buf.head < rx_buf.tail
      /\ \A k \in 0 .. rx_buf.head - 1 : rx_buf.buf[k] = rxLog[k + 1]
      /\ rx_buf \in Ring(Bytes) /\ rxLog \in Seq(Bytes)
  BY DEF IInv, RxInv, TypeOK
<1>2. rx_buf.head \in Index /\ rx_buf.tail \in Index /\ rx_buf.buf \in [Index -> Bytes]
  BY <1>1 DEF Ring
<1>3. RingAdvance(rx_buf.head) = rx_buf.head + 1 /\ rx_buf.head + 1 # rx_buf.tail
  BY <1>1, <1>2, AdvanceByCase, CapacityAssumption DEF RingFull, Index
<1>4. /\ rx_buf'.head = rx_buf.head + 1 /\ rx_buf'.tail = rx_buf.tail
      /\ rx_buf'.buf = [rx_buf.buf EXCEPT ![rx_buf.head] = b]
  BY <1>1, <1>2, <1>3 DEF RingPush, Ring
<1>5. /\ Len(rxLog') = rx_buf.head + 1 /\ rxLog'[rx_buf.head + 1] = b
      /\ \A k \in 1 .. rx_buf.head : rxLog'[k] = rxLog[k]
  BY <1>1, AppendProperties
<1>6. rx_buf'.tail = 0 \/ rx_buf'.head < rx_buf'.tail
  BY <1>1, <1>2, <1>3, <1>4, CapacityAssumption DEF Index
<1>7. ASSUME NEW k \in 0 .. rx_buf'.head - 1
      PROVE  rx_buf'.buf[k] = rxLog'[k + 1]
  <2>1. k \in Index /\ k \in Nat /\ k <= rx_buf.head
    BY <1>2, <1>4, CapacityAssumption DEF Index
  <2>2. CASE k = rx_buf.head
    BY <1>2, <1>4, <1>5, <2>2
  <2>3. CASE k # rx_buf.head
    <3>1. k \in 0 .. rx_buf.head - 1 /\ k + 1 \in 1 .. rx_buf.head
      BY <1>2, <2>1, <2>3, CapacityAssumption DEF Index
    <3>2. rx_buf'.buf[k] = rx_buf.buf[k]
      BY <1>2, <1>4, <2>1, <2>3
    <3> QED
      BY <1>1, <1>5, <3>1, <3>2
  <2> QED
    BY <2>2, <2>3
<1> QED
  BY <1>1, <1>4, <1>5, <1>6, <1>7

(* COM1's ring under every step, the interrupted comport_init included.    *)
LEMMA RxStep == IInv /\ [Next]_vars => RxInv'
<1> SUFFICES ASSUME IInv, [Next]_vars PROVE RxInv'
  OBVIOUS
<1> DEFINE n == Released("pop_rx", rxGot)
<1> USE DEF At
<1>0. /\ rx_buf \in Ring(Bytes) /\ rxLog \in Seq(Bytes) /\ rxGot \in Seq(Bytes)
      /\ slot \in Index /\ uart \in Seq(Bytes)
      /\ pc = "pop_rx" => todo \subseteq {"read", "release"}
      /\ pc = "init" => todo \subseteq {"head", "tail"}
      /\ Len(rxGot) \in Nat /\ n \in Nat
      /\ pc # "init" => ~HalfReset
  BY DEF IInv, TypeOK, TodoOK, Released, HalfReset
<1>a. TodoOK'
  BY TodoStep DEF IInv
<1> USE DEF IInv, RxInv
<1>1. CASE UNCHANGED <<rxVars, pc, popVars>>
  BY <1>1 DEF rxVars, popVars, Released, HalfReset
<1>2. CASE /\ UNCHANGED rxVars
           /\ pc \notin {"pop_rx", "init"} /\ pc' \notin {"pop_rx", "init"}
  BY <1>2 DEF rxVars, Released, HalfReset
<1>3. CASE SerialIrqPush
  <2>1. UNCHANGED <<rxGot, pc, popVars>>
    BY <1>3 DEF SerialIrqPush
  <2>2. PICK b \in Bytes :
           /\ rx_buf' = RingPush(rx_buf, b)
           /\ rxLog' = IF RingFull(rx_buf) THEN rxLog ELSE Append(rxLog, b)
    <3>1. Head(uart) \in Bytes
      BY <1>0, <1>3 DEF SerialIrqPush
    <3> QED
      BY <1>3, <3>1 DEF SerialIrqPush
  <2>3. CASE RingFull(rx_buf)
    <3>1. UNCHANGED <<rx_buf, rxLog>>
      BY <2>2, <2>3 DEF RingPush
    <3> QED
      BY <1>1, <2>1, <3>1 DEF rxVars
  <2>4. CASE ~RingFull(rx_buf)
    <3>1. rx_buf' = RingPush(rx_buf, b) /\ rxLog' = Append(rxLog, b)
      BY <2>2, <2>4
    <3>2. /\ Released("pop_rx", rxGot)' = n /\ (HalfReset' <=> HalfReset)
          /\ rx_buf'.tail = rx_buf.tail
      BY <1>0, <2>1, <2>4, <3>1, PushAddsLast DEF Released, HalfReset, popVars
    <3>3. SameSoFar(rxGot, rxLog')
      BY <1>0, <3>1, PushKeepsSame
    <3>4. ASSUME ~HalfReset
          PROVE  RingHolds(rx_buf', rxLog', n)
      BY <1>0, <2>4, <3>1, <3>4, PushHolds
    <3>5. ASSUME pc = "pop_rx"
          PROVE  PopHolds(rx_buf', rxLog', rxGot, todo, slot, item)
      BY <1>0, <2>4, <3>1, <3>5, PushKeepsPop
    <3>6. ASSUME pc = "init", todo = {"tail"}
          PROVE  /\ rxGot' = <<>> /\ Len(rxLog') = rx_buf'.head
                 /\ rx_buf'.tail = 0 \/ rx_buf'.head < rx_buf'.tail
                 /\ \A k \in 0 .. rx_buf'.head - 1 : rx_buf'.buf[k] = rxLog'[k + 1]
      BY <2>1, <2>4, <3>1, <3>6, HalfResetPush
    <3> QED
      BY <2>1, <3>2, <3>3, <3>4, <3>5, <3>6 DEF popVars
  <2> QED
    BY <2>3, <2>4
<1>4. CASE CheckSerial
  <2>1. CASE RingEmpty(rx_buf)
    BY <1>2, <1>4, <2>1 DEF CheckSerial
  <2>2. CASE ~RingEmpty(rx_buf)
    <3>1. /\ pc = "check_rx" /\ pc' = "pop_rx" /\ slot' = rx_buf.tail
          /\ todo' = {"read", "release"} /\ UNCHANGED rxVars
      BY <1>4, <2>2 DEF CheckSerial, StartPop
    <3>2. n = Len(rxGot) /\ Released("pop_rx", rxGot)' = n /\ ~HalfReset
      BY <3>1 DEF Released, rxVars, HalfReset
    <3>3. n < Len(rxLog) /\ rx_buf.buf[rx_buf.tail] = rxLog[n + 1]
      BY <1>0, <2>2, <3>2, FirstHeld
    <3> QED
      BY <2>2, <3>1, <3>2, <3>3 DEF rxVars, PopHolds
  <2> QED
    BY <2>1, <2>2
<1>5. CASE ReadByteSlot
  <2>1. /\ pc = "pop_rx" /\ pc' = "pop_rx" /\ item' = rx_buf.buf[slot] /\ slot' = slot
        /\ "read" \in todo /\ todo' = todo \ {"read"} /\ UNCHANGED rxVars
    BY <1>5 DEF ReadByteSlot
  <2>2. Released("pop_rx", rxGot)' = n /\ ~HalfReset
    BY <2>1 DEF Released, rxVars, HalfReset
  <2>3. PopHolds(rx_buf, rxLog, rxGot, todo', slot, item')
    BY <2>1 DEF PopHolds
  <2> QED
    BY <2>1, <2>2, <2>3 DEF rxVars
<1>6. CASE ReleaseByteSlot
  <2>1. /\ pc = "pop_rx" /\ pc' = "pop_rx" /\ rx_buf' = RingRelease(rx_buf)
        /\ "release" \in todo /\ todo' = todo \ {"release"}
        /\ UNCHANGED <<rxLog, rxGot, slot, item>>
    BY <1>6 DEF ReleaseByteSlot
  <2>2. n = Len(rxGot) /\ Released("pop_rx", rxGot)' = n + 1 /\ ~HalfReset
    BY <1>0, <2>1 DEF Released, HalfReset
  <2>3. ~RingEmpty(rx_buf) /\ slot = rx_buf.tail
    BY <2>1 DEF PopHolds
  <2>4. RingHolds(rx_buf', rxLog, n + 1)
    BY <1>0, <2>1, <2>2, <2>3, ReleaseHolds
  <2>5. PopHolds(rx_buf', rxLog, rxGot, todo', slot, item)
    <3>1. rx_buf'.buf = rx_buf.buf /\ rx_buf'.tail = RingAdvance(slot)
      BY <1>0, <2>1, <2>3 DEF RingRelease, Ring
    <3> QED
      BY <2>1, <3>1 DEF PopHolds
  <2> QED
    BY <2>1, <2>2, <2>4, <2>5
<1>7. CASE ReturnByte
  <2>1. /\ pc = "pop_rx" /\ pc' = "caller" /\ todo = {} /\ rxGot' = Append(rxGot, item)
        /\ UNCHANGED <<rx_buf, rxLog, popVars>> /\ item \in Bytes
    BY <1>7 DEF ReturnByte, TypeOK
  <2>2. Released("pop_rx", rxGot)' = n /\ ~HalfReset
    BY <1>0, <2>1, AppendProperties DEF Released
  <2>3. Len(rxGot) < Len(rxLog) /\ item = rxLog[Len(rxGot) + 1]
    BY <2>1 DEF PopHolds
  <2>4. SameSoFar(rxGot', rxLog)
    BY <1>0, <2>1, <2>3, TakeKeepsSame
  <2> QED
    BY <2>1, <2>2, <2>4
<1>8. CASE ComportInit
  <2>1. /\ pc = "caller" /\ pc' = "init" /\ todo' = {"head", "tail"} /\ UNCHANGED rxVars
    BY <1>8 DEF ComportInit
  <2>2. n = Len(rxGot) /\ Released("pop_rx", rxGot)' = n /\ ~HalfReset /\ ~HalfReset'
    BY <2>1 DEF Released, rxVars, HalfReset
  <2> QED
    BY <2>1, <2>2 DEF rxVars
<1>9. CASE ResetHead
  <2>1. /\ pc = "init" /\ pc' = "init" /\ "head" \in todo /\ todo' = todo \ {"head"}
        /\ rx_buf' = [rx_buf EXCEPT !.head = 0] /\ rxLog' = <<>> /\ rxGot' = <<>>
    BY <1>9 DEF ResetHead
  <2>2. rx_buf'.head = 0 /\ rx_buf'.tail = rx_buf.tail /\ rx_buf.tail \in Nat
    BY <1>0, <2>1, CapacityAssumption DEF Ring, Index
  <2>3. SameSoFar(<<>>, <<>>) /\ Len(<<>>) = 0
    BY DEF SameSoFar
  <2>4. CASE todo = {"head", "tail"}
    BY <2>1, <2>2, <2>3, <2>4 DEF HalfReset
  <2>5. CASE todo = {"head"}
    <3>1. rx_buf.tail = 0
      BY <2>1, <2>5
    <3> QED
      BY <2>1, <2>2, <2>3, <2>5, <3>1 DEF HalfReset, RingHolds, RingCount, Released
  <2> QED
    BY <1>0, <2>1, <2>4, <2>5
<1>10. CASE ResetTail
  <2>1. /\ pc = "init" /\ pc' = "init" /\ "tail" \in todo /\ todo' = todo \ {"tail"}
        /\ rx_buf' = [rx_buf EXCEPT !.tail = 0] /\ UNCHANGED <<rxLog, rxGot>>
    BY <1>10 DEF ResetTail
  <2>2. CASE todo = {"head", "tail"}
    BY <2>1, <2>2 DEF HalfReset
  <2>3. CASE todo = {"tail"}
    <3>1. /\ rx_buf'.tail = 0 /\ rx_buf'.head = rx_buf.head /\ rx_buf'.buf = rx_buf.buf
          /\ rx_buf.head \in Index
      BY <1>0, <2>1 DEF Ring
    <3>2. /\ rxGot = <<>> /\ Len(rxLog) = rx_buf.head
          /\ \A k \in 0 .. rx_buf.head - 1 : rx_buf.buf[k] = rxLog[k + 1]
      BY <2>1, <2>3
    <3>3. RingCount(rx_buf') = rx_buf.head
      BY <3>1, CapacityAssumption DEF RingCount, Index
    <3>4. \A k \in 0 .. rx_buf.head - 1 : RingSlot(rx_buf', k) = k
      BY <3>1, CapacityAssumption DEF RingSlot, Index
    <3>5. Released("pop_rx", rxGot)' = 0
      BY <2>1, <3>2 DEF Released
    <3>6. ASSUME NEW k \in 0 .. RingCount(rx_buf') - 1
          PROVE  rx_buf'.buf[RingSlot(rx_buf', k)] = rxLog'[0 + k + 1]
      BY <2>1, <3>1, <3>2, <3>3, <3>4
    <3>7. Len(rxLog') = 0 + RingCount(rx_buf')
      BY <2>1, <3>1, <3>2, <3>3, CapacityAssumption DEF Index
    <3>8. RingHolds(rx_buf', rxLog', 0)
      BY ONLY <3>6, <3>7 DEF RingHolds
    <3> QED
      BY <2>1, <2>3, <3>1, <3>5, <3>8 DEF HalfReset
  <2> QED
    BY <1>0, <2>1, <2>2, <2>3
<1>11. CASE DisableIrq
  <2>1. /\ pc = "init" /\ todo = {} /\ pc' = "init_uart" /\ UNCHANGED <<rxVars, popVars>>
    BY <1>11 DEF DisableIrq
  <2>2. ~HalfReset /\ ~HalfReset' /\ n = Len(rxGot) /\ Released("pop_rx", rxGot)' = n
    BY <2>1 DEF HalfReset, Released, rxVars
  <2> QED
    BY <2>1, <2>2 DEF rxVars
<1>12. CASE CheckKeyboard \/ Call \/ PollReturnsNone \/ Halt \/ SetupUart \/ LoopbackTest
  BY <1>2, <1>12 DEF CheckKeyboard, StartPop, Call, PollReturnsNone, Halt, SetupUart,
                     LoopbackTest
<1>13. CASE ReadKeySlot \/ ReleaseKeySlot \/ ReturnKey
  BY <1>2, <1>13 DEF ReadKeySlot, ReleaseKeySlot, ReturnKey
<1>14. CASE KeyboardIrq \/ TimerIrq \/ SerialIrqReturn
  <2>1. UNCHANGED <<rxVars, popVars>>
    BY <1>14 DEF KeyboardIrq, TimerIrq, SerialIrqReturn
  <2>2. pc' = pc \/ (pc = "halted" /\ pc' \in {"check_kb", "caller"})
    BY <1>14 DEF KeyboardIrq, TimerIrq, SerialIrqReturn, Woken
  <2> QED
    BY <1>1, <1>2, <2>1, <2>2
<1>15. CASE ByteArrives \/ SerialIrqEnter \/ Driver \/ UNCHANGED vars
  BY <1>1, <1>15 DEF ByteArrives, SerialIrqEnter, Driver, DriverPortRead, DriverPortWrite,
                     DriverEnd, vars
<1> QED
  BY <1>3, <1>4, <1>5, <1>6, <1>7, <1>8, <1>9, <1>10, <1>11, <1>12, <1>13, <1>14, <1>15
  DEF Next, SerialIrq, Thread, Pop, Reset

-----------------------------------------------------------------------------
(* The inductive invariant holds in every reachable state.                 *)
LEMMA IInvAlways == Spec => []IInv
<1>1. IInv /\ [Next]_vars => IInv'
  BY TypeStep, TodoStep, KbStep, RxStep DEF IInv
<1> QED
  BY <1>1, IInvInit, PTL DEF Spec

(* keyboard_read_event and keyboard_poll_event hand over the key events    *)
(* IRQ1 queued, each once and in order, for every queue size.              *)
THEOREM KeysNeverReordered == Spec => []KeysInOrder
<1>1. IInv => KeysInOrder
  BY SameIsPrefix DEF IInv, TypeOK, KbInv, KeysInOrder
<1> QED
  BY <1>1, IInvAlways, PTL

(* comport_poll_char hands over the bytes IRQ4 stored since the last       *)
(* comport_init, each once and in order, for every ring and FIFO size and  *)
(* whatever a driver writes to the UART.                                   *)
THEOREM BytesNeverReordered == Spec => []BytesInOrder
<1>1. IInv => BytesInOrder
  BY SameIsPrefix DEF IInv, TypeOK, RxInv, BytesInOrder
<1> QED
  BY <1>1, IInvAlways, PTL
-----------------------------------------------------------------------------
(* The queue of key events implements the queue of EventQueue.             *)
Waiting(got, log) == SubSeq(log, Len(got) + 1, Len(log))

LEMMA WaitingProperties ==
    ASSUME NEW S, NEW log \in Seq(S), NEW got \in Seq(S), Len(got) <= Len(log)
    PROVE  /\ Waiting(got, log) \in Seq(S)
           /\ Len(Waiting(got, log)) = Len(log) - Len(got)
           /\ \A k \in 1 .. Len(log) - Len(got) : Waiting(got, log)[k] = log[Len(got) + k]
<1> DEFINE w == Waiting(got, log)
           n == Len(got)
<1>1. n \in Nat /\ Len(log) \in Nat /\ n <= Len(log)
  BY LenProperties
<1>2. n + 1 \in Int /\ Len(log) \in Int /\ \A k \in n + 1 .. Len(log) : log[k] \in S
  BY <1>1, ElementOfSeq
<1>3. /\ w \in Seq(S)
      /\ Len(w) = IF n + 1 <= Len(log) THEN Len(log) - (n + 1) + 1 ELSE 0
      /\ \A k \in 1 .. Len(log) - (n + 1) + 1 : w[k] = log[(n + 1) + k - 1]
  BY <1>2, SubSeqProperties DEF Waiting
<1> HIDE DEF w, n
<1>4. (IF n + 1 <= Len(log) THEN Len(log) - (n + 1) + 1 ELSE 0) = Len(log) - n
  BY <1>1
<1>5. ASSUME NEW k \in 1 .. Len(log) - n PROVE w[k] = log[n + k]
  <2>1. k \in 1 .. Len(log) - (n + 1) + 1 /\ (n + 1) + k - 1 = n + k
    BY <1>1
  <2> QED
    BY <1>3, <2>1
<1> QED
  BY <1>3, <1>4, <1>5 DEF w, n

LEMMA WaitingAfterPut ==
    ASSUME NEW S, NEW log \in Seq(S), NEW got \in Seq(S), Len(got) <= Len(log), NEW x \in S
    PROVE  Waiting(got, Append(log, x)) = Append(Waiting(got, log), x)
<1> DEFINE more == Append(log, x)
           w == Waiting(got, log)
           v == Waiting(got, more)
<1>1. Len(got) \in Nat /\ Len(log) \in Nat
  BY LenProperties
<1>2. /\ more \in Seq(S) /\ Len(more) = Len(log) + 1 /\ more[Len(log) + 1] = x
      /\ \A k \in 1 .. Len(log) : more[k] = log[k]
  BY AppendProperties
<1>3. /\ w \in Seq(S) /\ Len(w) = Len(log) - Len(got)
      /\ \A k \in 1 .. Len(log) - Len(got) : w[k] = log[Len(got) + k]
  BY WaitingProperties
<1> HIDE DEF more
<1>4. Len(got) <= Len(more)
  BY <1>1, <1>2
<1>5. /\ v \in Seq(S) /\ Len(v) = Len(more) - Len(got)
      /\ \A k \in 1 .. Len(more) - Len(got) : v[k] = more[Len(got) + k]
  BY <1>2, <1>4, WaitingProperties
<1> HIDE DEF w, v
<1>6. /\ Append(w, x) \in Seq(S) /\ Len(Append(w, x)) = Len(w) + 1
      /\ Append(w, x)[Len(w) + 1] = x /\ \A k \in 1 .. Len(w) : Append(w, x)[k] = w[k]
  BY <1>3, AppendProperties
<1>7. ASSUME NEW k \in 1 .. Len(v) PROVE v[k] = Append(w, x)[k]
  <2>1. CASE k = Len(w) + 1
    <3>1. k \in 1 .. Len(more) - Len(got) /\ Len(got) + k = Len(log) + 1
      BY <1>1, <1>2, <1>3, <1>5, <2>1
    <3> QED
      BY <1>2, <1>5, <1>6, <2>1, <3>1
  <2>2. CASE k # Len(w) + 1
    <3>1. /\ k \in 1 .. Len(more) - Len(got) /\ k \in 1 .. Len(w)
          /\ k \in 1 .. Len(log) - Len(got) /\ Len(got) + k \in 1 .. Len(log)
      BY <1>1, <1>2, <1>3, <1>5, <2>2
    <3> QED
      BY <1>2, <1>3, <1>5, <1>6, <3>1
  <2> QED
    BY <2>1, <2>2
<1>8. Len(v) = Len(Append(w, x))
  BY <1>1, <1>2, <1>3, <1>5, <1>6
<1>9. v = Append(w, x)
  BY <1>5, <1>6, <1>7, <1>8, SeqEqual
<1> QED
  BY <1>9 DEF more, w, v

LEMMA WaitingAfterTake ==
    ASSUME NEW S, NEW log \in Seq(S), NEW got \in Seq(S), Len(got) < Len(log), NEW x \in S
    PROVE  /\ Waiting(got, log) # <<>> /\ Head(Waiting(got, log)) = log[Len(got) + 1]
           /\ Waiting(Append(got, x), log) = Tail(Waiting(got, log))
<1> DEFINE w == Waiting(got, log)
           v == Waiting(Append(got, x), log)
<1>1. Len(got) \in Nat /\ Len(log) \in Nat
  BY LenProperties
<1>2. Append(got, x) \in Seq(S) /\ Len(Append(got, x)) = Len(got) + 1
  BY AppendProperties
<1>3. /\ w \in Seq(S) /\ Len(w) = Len(log) - Len(got)
      /\ \A k \in 1 .. Len(log) - Len(got) : w[k] = log[Len(got) + k]
  BY <1>1, WaitingProperties
<1>4. Len(Append(got, x)) <= Len(log)
  BY <1>1, <1>2
<1>5. /\ v \in Seq(S) /\ Len(v) = Len(log) - (Len(got) + 1)
      /\ \A k \in 1 .. Len(log) - (Len(got) + 1) : v[k] = log[(Len(got) + 1) + k]
  <2> DEFINE more == Append(got, x)
  <2> HIDE DEF more
  <2>1. more \in Seq(S) /\ Len(more) = Len(got) + 1 /\ Len(more) <= Len(log)
    BY <1>2, <1>4 DEF more
  <2>2. /\ Waiting(more, log) \in Seq(S) /\ Len(Waiting(more, log)) = Len(log) - Len(more)
        /\ \A k \in 1 .. Len(log) - Len(more) : Waiting(more, log)[k] = log[Len(more) + k]
    BY ZenonT(60), <2>1, WaitingProperties
  <2> QED
    BY <2>1, <2>2 DEF more
<1> HIDE DEF w, v
<1>6. w # <<>>
  BY <1>1, <1>3, EmptySeq
<1>7. /\ Tail(w) \in Seq(S) /\ Len(Tail(w)) = Len(w) - 1
      /\ \A k \in 1 .. Len(Tail(w)) : Tail(w)[k] = w[k + 1]
  BY <1>3, <1>6, HeadTailProperties
<1>8. Head(w) = log[Len(got) + 1]
  <2>1. Head(w) = w[1] /\ 1 \in 1 .. Len(log) - Len(got)
    BY <1>1
  <2> QED
    BY <1>3, <2>1
<1>9. ASSUME NEW k \in 1 .. Len(v) PROVE v[k] = Tail(w)[k]
  <2>1. /\ k \in 1 .. Len(log) - (Len(got) + 1) /\ k \in 1 .. Len(Tail(w))
        /\ k + 1 \in 1 .. Len(log) - Len(got) /\ Len(got) + (k + 1) = (Len(got) + 1) + k
    BY <1>1, <1>3, <1>5, <1>7
  <2> QED
    BY <1>3, <1>5, <1>7, <2>1
<1>10. Len(v) = Len(Tail(w))
  BY <1>1, <1>3, <1>5, <1>7
<1>11. v = Tail(w)
  BY <1>5, <1>7, <1>9, <1>10, SeqEqual
<1> QED
  BY <1>6, <1>8, <1>11 DEF w, v

(* A full ring has Capacity - 1 items, and none of them has been returned; *)
(* a pop that has released its slot makes it one less than are waiting.    *)
LEMMA FullRingWaits ==
    ASSUME IInv, RingFull(kb_queue)
    PROVE  Len(Waiting(kbGot, kbLog)) >= Capacity - 1
<1>1. /\ kb_queue \in Ring(Keys) /\ kbLog \in Seq(Keys) /\ kbGot \in Seq(Keys)
      /\ Len(kbGot) <= Len(kbLog) /\ Len(kbLog) \in Nat /\ Len(kbGot) \in Nat
  BY LenProperties DEF IInv, TypeOK, KbInv, SameSoFar
<1>2. RingCount(kb_queue) = Capacity - 1
  <2>1. kb_queue.head \in Index /\ kb_queue.tail \in Index
    BY <1>1 DEF Ring
  <2>2. RingAdvance(kb_queue.head) = kb_queue.tail
    BY DEF RingFull
  <2> QED
    BY <2>1, <2>2, AdvanceByCase, CapacityAssumption DEF RingCount, Index
<1>3. Len(kbLog) = Released("pop_kb", kbGot) + RingCount(kb_queue)
  BY DEF IInv, KbInv, RingHolds
<1>4. Released("pop_kb", kbGot) \in {Len(kbGot), Len(kbGot) + 1}
  BY <1>1 DEF Released
<1>5. Len(Waiting(kbGot, kbLog)) = Len(kbLog) - Len(kbGot)
  BY <1>1, WaitingProperties
<1> QED
  BY <1>1, <1>2, <1>3, <1>4, <1>5, CapacityAssumption

LEMMA KeyQueueStep ==
    ASSUME IInv, [Next]_vars
    PROVE  \/ KeyQueue!Accept \/ KeyQueue!Lose \/ KeyQueue!Deliver
           \/ UNCHANGED <<kbLog, kbGot, kbDropped>>
<1>1. /\ kbLog \in Seq(Keys) /\ kbGot \in Seq(Keys) /\ Len(kbGot) <= Len(kbLog)
      /\ kbDropped \in Nat
  BY DEF IInv, TypeOK, KbInv, SameSoFar
<1>2. CASE KeyboardIrq
  <2>1. kbGot' = kbGot
    BY <1>2 DEF KeyboardIrq
  <2>2. CASE RingFull(kb_queue)
    <3>1. kbDropped' = kbDropped + 1 /\ kbLog' = kbLog
      BY <1>2, <2>2 DEF KeyboardIrq
    <3>2. Len(Waiting(kbGot, kbLog)) >= Capacity - 1
      BY <2>2, FullRingWaits
    <3>3. KeyQueue!Lose
      BY <2>1, <3>1, <3>2 DEF KeyQueue!Lose, Waiting
    <3> QED
      BY <3>3
  <2>3. CASE ~RingFull(kb_queue)
    <3>1. PICK key \in Keys : kbDropped' = kbDropped /\ kbLog' = Append(kbLog, key)
      BY <1>2, <2>3 DEF KeyboardIrq
    <3>2. Waiting(kbGot, Append(kbLog, key)) = Append(Waiting(kbGot, kbLog), key)
      BY <1>1, WaitingAfterPut
    <3>3. Waiting(kbGot', kbLog') = Append(Waiting(kbGot, kbLog), key)
      BY <2>1, <3>1, <3>2
    <3>4. KeyQueue!Accept
      BY <2>1, <3>1, <3>3 DEF KeyQueue!Accept, Waiting
    <3> QED
      BY <3>4
  <2> QED
    BY <2>2, <2>3
<1>3. CASE ReturnKey
  <2>1. /\ pc = "pop_kb" /\ todo = {} /\ kbGot' = Append(kbGot, item)
        /\ kbLog' = kbLog /\ kbDropped' = kbDropped
    BY <1>3 DEF ReturnKey, At
  <2>2. item \in Keys /\ Len(kbGot) < Len(kbLog) /\ item = kbLog[Len(kbGot) + 1]
    BY <2>1 DEF IInv, TypeOK, KbInv, PopHolds
  <2>3. /\ Waiting(kbGot, kbLog) # <<>> /\ Head(Waiting(kbGot, kbLog)) = item
        /\ Waiting(Append(kbGot, item), kbLog) = Tail(Waiting(kbGot, kbLog))
    BY <1>1, <2>2, WaitingAfterTake
  <2>4. Waiting(kbGot', kbLog') = Tail(Waiting(kbGot, kbLog))
    BY <2>1, <2>3
  <2>5. KeyQueue!Deliver
    BY <2>1, <2>3, <2>4 DEF KeyQueue!Deliver, Waiting
  <2> QED
    BY <2>5
<1>4. TimerIrq \/ ByteArrives \/ SerialIrq => UNCHANGED <<kbLog, kbGot, kbDropped>>
  BY DEF TimerIrq, ByteArrives, SerialIrq, SerialIrqEnter, SerialIrqPush, SerialIrqReturn,
         kbVars
<1>5. Call \/ CheckKeyboard \/ CheckSerial \/ PollReturnsNone \/ Halt \/ ComportInit
      => UNCHANGED <<kbLog, kbGot, kbDropped>>
  BY DEF Call, CheckKeyboard, CheckSerial, PollReturnsNone, Halt, ComportInit, kbVars
<1>6. ReadKeySlot \/ ReleaseKeySlot \/ ReadByteSlot \/ ReleaseByteSlot \/ ReturnByte
      => UNCHANGED <<kbLog, kbGot, kbDropped>>
  BY DEF ReadKeySlot, ReleaseKeySlot, ReadByteSlot, ReleaseByteSlot, ReturnByte, kbVars
<1>7. Reset \/ Driver => UNCHANGED <<kbLog, kbGot, kbDropped>>
  BY DEF Reset, ResetHead, ResetTail, DisableIrq, SetupUart, LoopbackTest,
         Driver, DriverPortRead, DriverPortWrite, DriverEnd, kbVars
<1>8. UNCHANGED vars => UNCHANGED <<kbLog, kbGot, kbDropped>>
  BY DEF vars, kbVars
<1> QED
  BY <1>2, <1>3, <1>4, <1>5, <1>6, <1>7, <1>8 DEF Next, Thread, Pop

(* kb_queue keeps the promise of a queue, for every capacity: a key event  *)
(* is lost only when Capacity - 1 others wait to be returned, also when    *)
(* IRQ1 comes in the middle of kb_queue_pop.                               *)
THEOREM KeyQueueImplements == Spec => KeyQueuePromise
<1>1. Init => KeyQueue!QueueInit
  <2> SUFFICES ASSUME Init PROVE KeyQueue!QueueInit
    OBVIOUS
  <2>1. kbLog = <<>> /\ kbGot = <<>> /\ kbDropped = 0
    BY DEF Init
  <2>2. SubSeq(kbLog, Len(kbGot) + 1, Len(kbLog)) = <<>>
    BY <2>1, SubSeqEmpty
  <2> QED
    BY <2>1, <2>2 DEF KeyQueue!QueueInit
<1>2. IInv /\ [Next]_vars => [KeyQueue!QueueNext]_(KeyQueue!queueVars)
  BY KeyQueueStep DEF KeyQueue!QueueNext, KeyQueue!queueVars
<1> QED
  BY <1>1, <1>2, IInvAlways, IInvInit, PTL DEF Spec, KeyQueuePromise, KeyQueue!QueueSpec
=============================================================================
