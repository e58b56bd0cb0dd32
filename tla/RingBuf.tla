------------------------------ MODULE RingBuf ------------------------------
(***************************************************************************)
(* The fixed-capacity ring of src/src/util/ringbuf.c, which KeyEventQueue  *)
(* in src/src/input/keyboard.c repeats for key events.  A ring is a record *)
(* of a buffer and of two indices: head is the next write position, tail   *)
(* the next read position.  One slot always stays free, so head = tail     *)
(* means empty.                                                            *)
(***************************************************************************)
EXTENDS Naturals

CONSTANT Capacity

(* A ring needs the free slot and one more.  The code masks its indices    *)
(* with Capacity - 1 (a power of two), which is this remainder.            *)
ASSUME CapacityAssumption == Capacity \in Nat /\ Capacity >= 2

Index == 0 .. Capacity - 1

Ring(Item) == [buf : [Index -> Item], head : Index, tail : Index]

\* Mutant: an index that does not wrap.
RingAdvanceNoWrap(i) == i + 1

RingAdvance(i) == (i + 1) % Capacity

RingEmpty(r) == r.head = r.tail

\* Mutants: no overflow test, and one that gives up a second slot.
RingNeverFull(r) == FALSE
RingFullEarly(r) == RingAdvance(RingAdvance(r.head)) = r.tail

RingFull(r) == RingAdvance(r.head) = r.tail

(* Drops the item when the ring is full.                                   *)
RingPush(r, item) ==
    IF RingFull(r)
    THEN r
    ELSE [r EXCEPT !.buf[r.head] = item, !.head = RingAdvance(@)]

(* A pop is a read of the slot at tail and a store to tail.  An interrupt  *)
(* handler may run between them, so they are two operators.                *)
RingPeek(r) == r.buf[r.tail]

RingRelease(r) == [r EXCEPT !.tail = RingAdvance(@)]

(* How many items lie between tail and head, and where the k-th of them is *)
RingCount(r) ==
    IF r.head >= r.tail THEN r.head - r.tail ELSE r.head + Capacity - r.tail

RingSlot(r, k) ==
    IF r.tail + k < Capacity THEN r.tail + k ELSE r.tail + k - Capacity
=============================================================================
