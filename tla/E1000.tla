------------------------------- MODULE E1000 -------------------------------
(***************************************************************************)
(* The descriptor rings of src/src/net/drivers/e1000.c, which the driver   *)
(* polls while the device works on them, and the history of raw frames     *)
(* that src/src/net/network.c keeps for the command net rx.                *)
(*                                                                         *)
(* The device takes descriptors from its head up to the tail that the      *)
(* driver wrote; the head equal to the tail means that it has none.        *)
(***************************************************************************)
EXTENDS Naturals, SequencesExt

CONSTANTS
    Descriptors,   \* E1000_DESCRIPTOR_COUNT
    QueueSize,     \* NETWORK_RX_QUEUE_SIZE
    MaxFrames      \* bound: frames sent, and frames received

ASSUME E1000Assumption ==
    Descriptors \in Nat /\ Descriptors > 1 /\ QueueSize \in Nat \ {0} /\ MaxFrames \in Nat

VARIABLES
    tx, rx,         \* the rings: the driver's index, DONE and the buffer of each slot
    tdh, rdh, rdt,  \* registers: the heads of the device, the receive tail
    receive_queue,
    sent, fetched,  \* frames accepted by e1000_transmit; how many the device took
    arrived, handled, \* frames written by the device; how many were polled
    passed          \* the frames that the protocols received

ringVars == <<tx, rx, tdh, rdh, rdt, receive_queue, sent, fetched, arrived, handled, passed>>

Slots == 0 .. Descriptors - 1

After(i) == (i + 1) % Descriptors

Frames == [id : Nat, ok : BOOLEAN]

NoFrame == [id |-> 0, ok |-> FALSE]

(* e1000_initialize_device: every transmit descriptor is done, no receive  *)
(* descriptor is, and the device has all receive descriptors but one.      *)
RingInit ==
    /\ tx = [at |-> 0, done |-> [i \in Slots |-> TRUE], buf |-> [i \in Slots |-> NoFrame]]
    /\ rx = [at |-> 0, done |-> [i \in Slots |-> FALSE], buf |-> [i \in Slots |-> NoFrame]]
    /\ tdh = 0 /\ rdh = 0 /\ rdt = Descriptors - 1
    /\ receive_queue = <<>>
    /\ sent = <<>> /\ fetched = 0 /\ arrived = <<>> /\ handled = 0 /\ passed = <<>>

(* The code with its wait for DONE taken out.                              *)
CanTransmitAnyway == TRUE

(* The slot at the tail must be done.  A spin that ends without it sends   *)
(* nothing and changes nothing.                                            *)
CanTransmit == tx.done[tx.at]

QueueFrame ==
    LET f == [id |-> Len(sent) + 1, ok |-> TRUE]
    IN  /\ Len(sent) < MaxFrames /\ CanTransmit
        /\ tx' = [at |-> After(tx.at), done |-> [tx.done EXCEPT ![tx.at] = FALSE],
                  buf |-> [tx.buf EXCEPT ![tx.at] = f]]
        /\ sent' = Append(sent, f)
        /\ UNCHANGED <<rx, tdh, rdh, rdt, receive_queue, fetched, arrived, handled, passed>>

Fetch ==
    /\ tdh # tx.at
    /\ tx' = [tx EXCEPT !.done[tdh] = TRUE]
    /\ tdh' = After(tdh) /\ fetched' = fetched + 1
    /\ UNCHANGED <<rx, rdh, rdt, receive_queue, sent, arrived, handled, passed>>

(* A frame may come in with an error, or in more than one descriptor.      *)
Fill(ok) ==
    LET f == [id |-> Len(arrived) + 1, ok |-> ok]
    IN  /\ Len(arrived) < MaxFrames /\ rdh # rdt
        /\ rx' = [rx EXCEPT !.done[rdh] = TRUE, !.buf[rdh] = f]
        /\ rdh' = After(rdh) /\ arrived' = Append(arrived, f)
        /\ UNCHANGED <<tx, tdh, rdt, receive_queue, sent, fetched, handled, passed>>

(* network_submit_received_frame: the history makes room by its oldest.    *)
SubmitReceived(f) ==
    /\ receive_queue' = Append(IF Len(receive_queue) >= QueueSize THEN Tail(receive_queue)
                               ELSE receive_queue, f)
    /\ passed' = Append(passed, f)

PollReceived ==
    LET i == rx.at
        f == rx.buf[i]
    IN  /\ rx.done[i]
        /\ IF f.ok THEN SubmitReceived(f) ELSE UNCHANGED <<receive_queue, passed>>
        /\ rx' = [rx EXCEPT !.done[i] = FALSE, !.at = After(i)]
        /\ rdt' = i /\ handled' = handled + 1
        /\ UNCHANGED <<tx, tdh, rdh, sent, fetched, arrived>>

(* network_receive_frame, for net rx.                                      *)
ReceiveFrame ==
    /\ receive_queue # <<>>
    /\ receive_queue' = Tail(receive_queue)
    /\ UNCHANGED <<tx, rx, tdh, rdh, rdt, sent, fetched, arrived, handled, passed>>

RingNext ==
    \/ QueueFrame \/ Fetch \/ PollReceived \/ ReceiveFrame
    \/ \E ok \in BOOLEAN : Fill(ok)

RingSpec == RingInit /\ [][RingNext]_ringVars

-----------------------------------------------------------------------------
(* What is under way in a ring: the frames of a history after the first n. *)
Pending(frames, n) == SubSeq(frames, n + 1, Len(frames))

Holds(ring, from, frames, done) ==
    /\ Len(frames) <= Descriptors
    /\ \A j \in Slots :
         LET i == (from + j) % Descriptors
         IN  /\ (ring.done[i] = done) <=> j < Len(frames)
             /\ j < Len(frames) => ring.buf[i] = frames[j + 1]

(* Frames are numbered as they come in.                                    *)
InOrder(frames) == \A k \in 1 .. Len(frames) - 1 : frames[k].id < frames[k + 1].id

(* The rings pass every frame on once, in order and as it was written:     *)
(* what e1000_transmit accepted and the device has not taken is in the     *)
(* slots from the device's head, what the device wrote and e1000_poll has  *)
(* not handled in those from the driver's, and no slot else is in use; the *)
(* protocols get the frames without errors whether or not the history has  *)
(* room, and the history is the last of these (network.c:134).             *)
RingsKeepFrames ==
    /\ Holds(tx, tdh, Pending(sent, fetched), FALSE)
    /\ Holds(rx, rx.at, Pending(arrived, handled), TRUE)
    /\ Range(passed) = {f \in Range(SubSeq(arrived, 1, handled)) : f.ok} /\ InOrder(passed)
    /\ IsSuffix(receive_queue, passed) /\ Len(receive_queue) <= QueueSize
=============================================================================
