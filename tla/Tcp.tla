-------------------------------- MODULE Tcp --------------------------------
(***************************************************************************)
(* The single client connection of src/src/net/tcp.c against a conforming  *)
(* peer, over a network that loses, duplicates, delays and reorders.       *)
(*                                                                         *)
(* Everything runs in the kernel thread: network_poll delivers segments    *)
(* and drives tcp_poll from the shell's idle loop and from the waiting     *)
(* loops of the calls, so a segment may arrive and a retransmission timer  *)
(* expire whenever the thread is at one of these.  Time is abstract: the   *)
(* 500 ms timer and the deadline of a call may each expire at any poll.    *)
(*                                                                         *)
(* A byte is its position in its stream.  Sequence numbers are those of    *)
(* the code, modulo SeqSpace.  What this side transmitted stays in sent; what*)
(* the peer may have transmitted is computed, since a peer may always      *)
(* repeat itself.  A new connection has a new port, so segments of the old *)
(* one match nothing and are dropped from the model.                       *)
(***************************************************************************)
EXTENDS Integers, SequencesExt

CONSTANTS
    SeqSpace,       \* 2^32 in the code
    Isn, PeerIsn, \* the initial sequence numbers
    RxCapacity,   \* TCP_MAX_PAYLOAD as the size of receive_buffer
    MaxPayload,   \* TCP_MAX_PAYLOAD as the limit of tcp_send
    MaxRetries,   \* TCP_MAX_RETRIES
    PeerBytes,    \* how many bytes the peer writes before it closes
    PeerResets,   \* may the peer send RST?
    ProbesWindow, \* may the peer send one byte beyond the window it was given?
    MaxSend       \* bound: bytes the application sends on a connection

ASSUME TcpAssumption ==
    /\ SeqSpace \in Nat /\ SeqSpace % 2 = 0
    /\ Isn \in 0 .. SeqSpace - 1 /\ PeerIsn \in 0 .. SeqSpace - 1
    /\ RxCapacity \in Nat \ {0} /\ MaxPayload \in Nat \ {0} /\ MaxRetries \in Nat
    /\ PeerBytes \in Nat \ {0} /\ MaxSend \in Nat
    /\ MaxSend + 2 < SeqSpace \div 2 /\ PeerBytes + 2 < SeqSpace \div 2
    /\ PeerResets \in BOOLEAN /\ ProbesWindow \in BOOLEAN

VARIABLES
    state, send_unacknowledged, send_next, receive_next, retries,
    outstanding,     \* the segment to retransmit, or Nothing
    receive_buffer,
    pc,              \* the call the thread is in, or "idle"
    result,          \* what the last call returned
    sent, edge,      \* segments transmitted; end of the window given to the peer
    written, read,   \* bytes tcp_send took; bytes tcp_read handed over
    peer,            \* "listen", "open" once it has the SYN, "eof" once the FIN
    accepted         \* the bytes the peer has taken

endpoint == <<state, send_unacknowledged, send_next, receive_next, retries, outstanding,
              receive_buffer>>
peerVars == <<peer, accepted>>
vars == <<endpoint, pc, result, sent, edge, written, read, peerVars>>

States == {"CLOSED", "SYN_SENT", "ESTABLISHED", "FIN_WAIT", "CLOSE_WAIT", "TIME_WAIT",
           "RESET"}

Calls == {"connect", "send", "read_wait", "close"}

Segments == [flags : SUBSET {"SYN", "ACK", "FIN", "RST"},
             seq : 0 .. SeqSpace - 1, ack : 0 .. SeqSpace - 1, data : Seq(Nat)]

Segment(flags, seq, ack, data) ==
    [flags |-> flags, seq |-> seq, ack |-> ack, data |-> data]

Nothing == [flags |-> {}]

(* close may rebuild the packet and fail to send it while a data segment is*)
(* outstanding: what is then retransmitted has the length of the data and  *)
(* the checksum of the FIN, and the peer drops it.                         *)
Garbled == [flags |-> {"garbled"}]

Plus(a, n) == (a + n) % SeqSpace

(* (int32_t)(a - b) >= 0                                                   *)
AtOrAfter(a, b) == (a - b) % SeqSpace < SeqSpace \div 2

PeerStream == [i \in 1 .. PeerBytes |-> i]

Iota(from, to) == [i \in 1 .. to - from + 1 |-> from + i - 1]

Init ==
    /\ state = "CLOSED" /\ send_unacknowledged = 0 /\ send_next = 0 /\ receive_next = 0
    /\ retries = 0 /\ outstanding = Nothing /\ receive_buffer = <<>>
    /\ pc = "idle" /\ result = "none"
    /\ sent = {} /\ edge = 0 /\ written = 0 /\ read = <<>>
    /\ peer = "listen" /\ accepted = <<>>

-----------------------------------------------------------------------------
(* Transmission.  It fails when the driver's ring is full or ARP has       *)
(* forgotten the peer.  Every segment carries the receive window.          *)

Highest(a, b) == IF a > b THEN a ELSE b

\* Mutant: the window is the whole buffer, however full.
WindowOfEmpty(rcv, buffer) == ((rcv - PeerIsn - 1) % SeqSpace) + RxCapacity

(* The last byte the peer may send, once it has an ACK from this side.     *)
Window(rcv, buffer) == ((rcv - PeerIsn - 1) % SeqSpace) + RxCapacity - Len(buffer)

Transmitted(segments, rcv, buffer) ==
    /\ sent' = sent \cup segments
    /\ edge' = Highest(edge, Window(rcv, buffer))

(* tcp_send_ack ignores a failure.  A bare ACK changes nothing at the peer *)
(* but its window.                                                         *)
SendAck(rcv, buffer) ==
    \/ Transmitted({}, rcv, buffer)
    \/ UNCHANGED <<sent, edge>>

Track(segment, length) ==
    /\ outstanding' = segment
    /\ retries' = 0
    /\ send_next' = Plus(send_next, length)

-----------------------------------------------------------------------------
(* The calls.                                                              *)

Connect ==
    /\ pc = "idle" /\ state \in {"CLOSED", "RESET"}
    /\ send_unacknowledged' = Isn /\ receive_next' = 0 /\ receive_buffer' = <<>>
    /\ edge' = 0 /\ written' = 0 /\ read' = <<>>
    /\ peer' = "listen" /\ accepted' = <<>>
    /\ \/ LET syn == Segment({"SYN"}, Isn, 0, <<>>)
          IN  /\ state' = "SYN_SENT" /\ pc' = "connect" /\ result' = result
              /\ sent' = {syn}
              /\ outstanding' = syn /\ retries' = 0 /\ send_next' = Plus(Isn, 1)
       \/ /\ state' = "CLOSED" /\ pc' = "idle" /\ result' = "failed"
          /\ sent' = {} /\ send_next' = Isn
          /\ UNCHANGED <<outstanding, retries>>

(* The end of the waiting loop, which a deadline may bring about.          *)
ConnectReturns ==
    /\ pc = "connect"
    /\ pc' = "idle"
    /\ IF state = "ESTABLISHED"
       THEN result' = "ok" /\ UNCHANGED <<state, outstanding>>
       ELSE /\ result' = "failed"
            /\ outstanding' = Nothing
            /\ state' = IF state = "SYN_SENT" THEN "CLOSED" ELSE state
    /\ UNCHANGED <<send_unacknowledged, send_next, receive_next, retries, receive_buffer,
                   sent, edge, written, read, peerVars>>

\* Mutant: the segment goes out but send_next stays.
SendNextKept(length) == send_next

SendNextAfter(length) == Plus(send_next, length)

Send ==
    /\ pc = "idle" /\ state = "ESTABLISHED" /\ outstanding = Nothing
    /\ \E length \in 1 .. MaxPayload :
          LET segment == Segment({"ACK"}, send_next, receive_next,
                                 Iota(written + 1, written + length))
          IN  /\ written + length <= MaxSend
              /\ written' = written + length
              /\ outstanding' = segment /\ retries' = 0
              /\ send_next' = SendNextAfter(length)
              /\ Transmitted({segment}, receive_next, receive_buffer)
    /\ pc' = "send"
    /\ UNCHANGED <<state, send_unacknowledged, receive_next, receive_buffer, result, read,
                   peerVars>>

SendReturns ==
    /\ pc = "send"
    /\ pc' = "idle"
    /\ result' = IF outstanding # Nothing THEN "timeout" ELSE "ok"
    /\ UNCHANGED <<endpoint, sent, edge, written, read, peerVars>>

(* tcp_read, on its own or at the end of tcp_read_wait.                    *)
Read ==
    /\ pc \in {"idle", "read_wait"} /\ receive_buffer # <<>>
    /\ \E length \in 1 .. Len(receive_buffer) :
          /\ read' = read \o SubSeq(receive_buffer, 1, length)
          /\ receive_buffer' = SubSeq(receive_buffer, length + 1, Len(receive_buffer))
    /\ pc' = "idle" /\ result' = "ok"
    /\ IF state \in {"ESTABLISHED", "CLOSE_WAIT"}
       THEN SendAck(receive_next, receive_buffer')
       ELSE UNCHANGED <<sent, edge>>
    /\ UNCHANGED <<state, send_unacknowledged, send_next, receive_next, retries, outstanding,
                   written, peerVars>>

ReadWait ==
    /\ pc = "idle" /\ receive_buffer = <<>>
    /\ pc' = "read_wait"
    /\ UNCHANGED <<endpoint, result, sent, edge, written, read, peerVars>>

(* -2 when the connection has ended, -3 at the deadline                    *)
ReadWaitReturns ==
    /\ pc = "read_wait" /\ receive_buffer = <<>>
    /\ pc' = "idle"
    /\ result' = IF state \in {"CLOSE_WAIT", "RESET", "TIME_WAIT", "CLOSED"}
                 THEN "ended" ELSE "timeout"
    /\ UNCHANGED <<endpoint, sent, edge, written, read, peerVars>>

Close ==
    /\ pc = "idle" /\ state \in {"ESTABLISHED", "CLOSE_WAIT"}
    /\ \/ LET fin == Segment({"FIN", "ACK"}, send_next, receive_next, <<>>)
          IN  /\ state' = "FIN_WAIT" /\ pc' = "close" /\ result' = result
              /\ Track(fin, 1)
              /\ Transmitted({fin}, receive_next, receive_buffer)
       \/ /\ state' = "RESET" /\ pc' = "idle" /\ result' = "failed"
          /\ outstanding' = IF outstanding = Nothing THEN Nothing ELSE Garbled
          /\ UNCHANGED <<retries, send_next, sent, edge>>
    /\ UNCHANGED <<send_unacknowledged, receive_next, receive_buffer, written, read,
                   peerVars>>

CloseReturns ==
    /\ pc = "close"
    /\ pc' = "idle" /\ result' = "ok"
    /\ state' = IF state = "RESET" THEN "RESET" ELSE "CLOSED"
    /\ outstanding' = Nothing
    /\ UNCHANGED <<send_unacknowledged, send_next, receive_next, retries, receive_buffer,
                   sent, edge, written, read, peerVars>>

-----------------------------------------------------------------------------
(* tcp_poll, once TCP_RETRANSMIT_MS have passed.                           *)

\* Mutant: a retransmission is not counted.
RetriesKept == retries

RetriesAfter == retries + 1

\* Mutant: one retransmission too many.
MayRetryOnceMore == retries <= MaxRetries

MayRetry == retries < MaxRetries

(* A failed transmission is not counted and leaves everything as it is.    *)
Retransmit ==
    /\ outstanding # Nothing /\ MayRetry
    /\ retries' = RetriesAfter
    /\ UNCHANGED <<state, send_unacknowledged, send_next, receive_next, outstanding,
                   receive_buffer, pc, result, sent, edge, written, read, peerVars>>

GiveUp ==
    /\ outstanding # Nothing /\ ~MayRetry
    /\ outstanding' = Nothing
    /\ state' = "RESET"
    /\ UNCHANGED <<send_unacknowledged, send_next, receive_next, retries, receive_buffer, pc,
                   result, sent, edge, written, read, peerVars>>

-----------------------------------------------------------------------------
(* The peer and the network.                                               *)

PeerHas == Len(accepted) + IF peer = "eof" THEN 1 ELSE 0

(* The end of what the peer may have sent.                                 *)
PeerLimit == LET limit == IF ProbesWindow THEN edge + 1 ELSE edge
             IN  IF limit < PeerBytes THEN limit ELSE PeerBytes

PeerData(from, to, flags) ==
    {Segment(flags, Plus(PeerIsn, from), Plus(Isn, 1 + k), Iota(from, to)) : k \in 0 .. PeerHas}

(* Every segment of the peer that may be on its way.                       *)
FromPeer ==
    (IF peer = "listen" THEN {}
     ELSE {Segment({"SYN", "ACK"}, PeerIsn, Plus(Isn, 1), <<>>)})
    \cup (IF edge = 0 THEN {}
          ELSE UNION {PeerData(from, to, {"ACK"}) :
                         from \in 1 .. PeerLimit + 1, to \in 0 .. PeerLimit})
    \cup (IF edge = 0 \/ PeerLimit < PeerBytes THEN {}
          ELSE UNION {PeerData(from, PeerBytes, {"FIN", "ACK"}) : from \in 1 .. PeerBytes + 1})
    \cup (IF PeerResets /\ sent # {} THEN {Segment({"RST"}, 0, 0, <<>>)} ELSE {})

PeerReceive ==
    \E m \in sent :
        /\ \/ /\ "SYN" \in m.flags /\ peer = "listen"
              /\ peer' = "open" /\ accepted' = accepted
           \/ /\ "ACK" \in m.flags /\ peer = "open"
              /\ m.seq = Plus(Isn, 1 + Len(accepted))
              /\ accepted' = accepted \o m.data
              /\ peer' = IF "FIN" \in m.flags THEN "eof" ELSE "open"
        /\ UNCHANGED <<endpoint, pc, result, sent, edge, written, read>>

-----------------------------------------------------------------------------
(* tcp_receive, of a segment that matches the connection.                  *)

ReceiveReset ==
    /\ state # "CLOSED"
    /\ \E m \in FromPeer : "RST" \in m.flags
    /\ state' = "RESET" /\ outstanding' = Nothing
    /\ UNCHANGED <<send_unacknowledged, send_next, receive_next, retries, receive_buffer,
                   pc, result, sent, edge, written, read, peerVars>>

IsSynAck(m) == {"SYN", "ACK"} \subseteq m.flags

ReceiveSynAck ==
    /\ state = "SYN_SENT"
    /\ \E m \in FromPeer :
          /\ IsSynAck(m) /\ m.ack = send_next
          /\ receive_next' = Plus(m.seq, 1)
          /\ send_unacknowledged' = m.ack
    /\ outstanding' = Nothing
    /\ state' = "ESTABLISHED"
    /\ SendAck(receive_next', receive_buffer)
    /\ UNCHANGED <<send_next, retries, receive_buffer, pc, result, written, read, peerVars>>

\* Mutant: an acknowledgement of anything up to send_next clears the timer.
AllAcknowledgedEarly(m) == TRUE

AllAcknowledged(m) == m.ack = send_next

Acknowledges(m) ==
    /\ "ACK" \in m.flags
    /\ AtOrAfter(m.ack, send_unacknowledged) /\ AtOrAfter(send_next, m.ack)

Acknowledge(m) ==
    IF Acknowledges(m)
    THEN /\ send_unacknowledged' = m.ack
         /\ outstanding' = IF AllAcknowledged(m) THEN Nothing ELSE outstanding
    ELSE UNCHANGED <<send_unacknowledged, outstanding>>

\* Mutants: a segment is taken again, and one past a gap is taken.
ExpectedOrOld(m) == AtOrAfter(receive_next, m.seq)
ExpectedOrNew(m) == AtOrAfter(m.seq, receive_next)

Expected(m) == m.seq = receive_next

(* What the buffer has room for is taken, the FIN in any case.             *)
Accept(m) ==
    LET room == RxCapacity - Len(receive_buffer)
        taken == SubSeq(m.data, 1, IF Len(m.data) < room THEN Len(m.data) ELSE room)
        fin == "FIN" \in m.flags
    IN  /\ receive_buffer' = receive_buffer \o taken
        /\ receive_next' = Plus(receive_next, Len(taken) + IF fin THEN 1 ELSE 0)
        /\ state' = CASE ~fin -> state
                      [] fin /\ state = "FIN_WAIT" -> "TIME_WAIT"
                      [] OTHER -> "CLOSE_WAIT"

ReceiveSegment ==
    /\ state # "CLOSED"
    /\ \E m \in FromPeer :
          /\ "RST" \notin m.flags
          /\ state = "SYN_SENT" => ~IsSynAck(m)
          /\ Acknowledge(m)
          /\ IF Expected(m)
             THEN Accept(m)
             ELSE UNCHANGED <<receive_buffer, receive_next, state>>
          /\ IF m.data # <<>> \/ "FIN" \in m.flags
             THEN SendAck(receive_next', receive_buffer')
             ELSE UNCHANGED <<sent, edge>>
    /\ UNCHANGED <<send_next, retries, pc, result, written, read, peerVars>>

-----------------------------------------------------------------------------
Call == Connect \/ Send \/ Read \/ ReadWait \/ Close

Return == ConnectReturns \/ SendReturns \/ ReadWaitReturns \/ CloseReturns

Poll == Retransmit \/ GiveUp

Receive == ReceiveReset \/ ReceiveSynAck \/ ReceiveSegment

Next == Call \/ Return \/ Poll \/ Receive \/ PeerReceive

(* A waiting loop ends at its deadline and tcp_poll is called, and time    *)
(* passes, in every loop.  Nothing is assumed of the network or the peer.  *)
Spec == Init /\ [][Next]_vars /\ WF_vars(Return) /\ WF_vars(Poll)

-----------------------------------------------------------------------------
TypeOK ==
    /\ state \in States /\ pc \in Calls \cup {"idle"}
    /\ send_unacknowledged \in 0 .. SeqSpace - 1
    /\ send_next \in 0 .. SeqSpace - 1 /\ receive_next \in 0 .. SeqSpace - 1
    /\ retries \in 0 .. MaxRetries
    /\ outstanding \in Segments \cup {Nothing, Garbled}
    /\ receive_buffer \in Seq(Nat) /\ Len(receive_buffer) <= RxCapacity
    /\ result \in {"none", "ok", "failed", "timeout", "ended"}
    /\ sent \subseteq Segments /\ edge \in Nat
    /\ written \in 0 .. MaxSend /\ read \in Seq(Nat)
    /\ peer \in {"listen", "open", "eof"} /\ accepted \in Seq(Nat)

(* What the application has read and what waits for it are the first bytes *)
(* the peer wrote, each once and in order, whatever the network does and   *)
(* though the sequence numbers wrap.                                       *)
ReadsInOrder == IsPrefix(read \o receive_buffer, PeerStream)

(* The peer takes what tcp_send was given in order, and sees the end of    *)
(* the stream only behind all of it, also when tcp_close replaces an       *)
(* unacknowledged data segment with the FIN.                               *)
PeerReadsInOrder ==
    /\ IsPrefix(accepted, Iota(1, written))
    /\ peer = "eof" => Len(accepted) = written

(* Every segment the peer may send fits the buffer: the window advertised  *)
(* by one ACK still holds after reads and data that came since.            *)
WindowKept ==
    state # "CLOSED" =>
        \A m \in FromPeer :
            Expected(m) => Len(m.data) <= RxCapacity - Len(receive_buffer)

(* The application learns that the peer has closed only when all the peer  *)
(* wrote has been read or waits in the buffer.                             *)
EofBehindAll ==
    state \in {"CLOSE_WAIT", "TIME_WAIT"} => read \o receive_buffer = PeerStream

SendReturnsOk == pc = "send" /\ pc' = "idle" /\ result' = "ok"

(* While the connection is established a successful tcp_send means that    *)
(* the peer has all bytes.  (In CLOSE_WAIT it does not: a FIN that arrives *)
(* after tcp_poll gave up turns RESET into CLOSE_WAIT.)                    *)
SendOkWhileOpen ==
    [][SendReturnsOk /\ state = "ESTABLISHED" => Len(accepted) = written]_vars

(* command.c:919 and network_manager_app.c:753 tell the user "TCP data     *)
(* acknowledged" and "Data sent and acknowledged by the TCP peer." when    *)
(* tcp_send returns 0, and http.c:315 logs "request sent and acknowledged".*)
SendOkMeansAcknowledged == [][SendReturnsOk => Len(accepted) = written]_vars

(* A segment is not retransmitted for ever: in the end it is acknowledged, *)
(* or tcp_poll or the caller gives up.                                     *)
RetransmissionEnds == []<>(outstanding = Nothing)
=============================================================================
