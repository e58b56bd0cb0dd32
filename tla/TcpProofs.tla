----------------------------- MODULE TcpProofs -----------------------------
(***************************************************************************)
(* For every size of the sequence space, of the buffer and of the two      *)
(* streams, and whatever the network loses, repeats and reorders: both     *)
(* applications read what the other one wrote, in order and to its end.    *)
(***************************************************************************)
EXTENDS Tcp, SequenceTheorems, TLAPS

(* The bytes of the peer that this side took.                              *)
Taken == Len(read) + Len(receive_buffer)

(* Bytes that follow each other in a stream, from the one behind n on.     *)
Run(s, n) == \A i \in 1 .. Len(s) : s[i] = n + i

-----------------------------------------------------------------------------
(* The inductive invariant.  Before the SYN of the peer came in, and after *)
(* a connection that failed without it, nothing was transferred.           *)
NotSynced ==
    /\ state \in {"CLOSED", "SYN_SENT", "RESET"} /\ receive_next = 0 /\ edge = 0
    /\ read = <<>> /\ receive_buffer = <<>> /\ written = 0
    /\ state = "SYN_SENT" => send_next = Plus(Isn, 1)
    /\ \A m \in sent : m.flags = {"SYN"}
    /\ pc \notin {"send", "close"} /\ accepted = <<>> /\ peer # "eof"

(* r is how far receive_next has come: the bytes taken, and one for each   *)
(* FIN.  Only a FIN behind a byte that found no room counts one that is    *)
(* not the end, which needs a peer that sends beyond the window.           *)
Receiving(r) ==
    /\ receive_next = Plus(PeerIsn, 1 + r)
    /\ \/ Taken = (IF r > PeerBytes THEN PeerBytes ELSE r)
       \/ ProbesWindow /\ r >= PeerBytes /\ Taken = PeerBytes - 1
    /\ edge <= r + RxCapacity - Len(receive_buffer)
    /\ state \in {"CLOSE_WAIT", "TIME_WAIT"} =>
          r = PeerBytes + 1 \/ (ProbesWindow /\ r = PeerBytes)

(* How many FINs may have been counted.                                    *)
Fins(r) == IF r < PeerBytes THEN 0 ELSE r + 1 - PeerBytes

(* f is how many FINs of this side send_next counts: a FIN that is taken   *)
(* after tcp_poll gave up reopens the connection, and it is closed again.  *)
Sending(r, f) ==
    /\ send_next = Plus(Isn, 1 + written + f)
    /\ f <= 1 + Fins(r) /\ (state = "CLOSE_WAIT" => f <= Fins(r))
    /\ state = "ESTABLISHED" => f = 0
    /\ state = "ESTABLISHED" /\ outstanding = Nothing => Len(accepted) = written
    /\ pc = "close" => f >= 1
    /\ peer = "eof" => f >= 1 /\ Len(accepted) = written

(* A segment in the network: a SYN, a part of the stream, or a FIN behind  *)
(* all of it, of which only the first is where the peer expects one.       *)
InStream(m) ==
    /\ m.flags = {"ACK"}
    /\ \E a \in 0 .. written :
          m.seq = Plus(Isn, 1 + a) /\ Len(m.data) <= written - a /\ Run(m.data, a)

AtEnd(m, f) ==
    /\ m.flags = {"FIN", "ACK"} /\ m.data = <<>>
    /\ \E k \in 0 .. f - 1 : m.seq = Plus(Isn, 1 + written + k)

SentOK(f) == \A m \in sent : m.flags = {"SYN"} \/ InStream(m) \/ AtEnd(m, f)

Synced ==
    /\ state # "SYN_SENT"
    /\ \E r \in 0 .. PeerBytes + 1, f \in 0 .. 3 :
          Receiving(r) /\ Sending(r, f) /\ SentOK(f)

StreamsOK ==
    /\ Run(read, 0) /\ Run(receive_buffer, Len(read)) /\ Run(accepted, 0)
    /\ Len(accepted) <= written
    /\ peer = "listen" => accepted = <<>>

IInv == TypeOK /\ StreamsOK /\ (NotSynced \/ Synced)

-----------------------------------------------------------------------------
(* Sequence numbers, of which a stream uses less than half.                *)
Seqs == 0 .. SeqSpace - 1

LEMMA SpaceSuffices ==
    /\ SeqSpace \in Nat /\ Isn \in Seqs /\ PeerIsn \in Seqs
    /\ MaxSend \in Nat /\ 2 * (MaxSend + 2) < SeqSpace
    /\ PeerBytes \in Nat \ {0} /\ 2 * (PeerBytes + 2) < SeqSpace
    /\ RxCapacity \in Nat \ {0} /\ MaxPayload \in Nat /\ MaxRetries \in Nat
    /\ ProbesWindow \in BOOLEAN
<1>1. \A h, s \in Nat : h < s \div 2 => 2 * h < s
  OBVIOUS
<1> QED
  BY <1>1, TcpAssumption DEF Seqs

(* A number that is added without its remainder.                           *)
LEMMA PlusByCase ==
    ASSUME NEW a \in Seqs, NEW n \in 0 .. SeqSpace
    PROVE  /\ Plus(a, n) = IF a + n < SeqSpace THEN a + n ELSE a + n - SeqSpace
           /\ Plus(a, n) \in Seqs
<1>1. SeqSpace \in Nat /\ SeqSpace > 0
  BY SpaceSuffices DEF Seqs
<1>2. CASE a + n < SeqSpace
  BY <1>1, <1>2 DEF Plus, Seqs
<1>3. CASE a + n >= SeqSpace
  <2>1. (a + n) % SeqSpace = (a + n - SeqSpace) % SeqSpace
    BY <1>1, <1>3 DEF Seqs
  <2> QED
    BY <1>1, <1>3, <2>1 DEF Plus, Seqs
<1> QED
  BY <1>1, <1>2, <1>3 DEF Seqs

LEMMA PlusInjective ==
    ASSUME NEW a \in Seqs, NEW m \in Seqs, NEW n \in Seqs, Plus(a, m) = Plus(a, n)
    PROVE  m = n
<1>1. SeqSpace \in Nat /\ m \in 0 .. SeqSpace /\ n \in 0 .. SeqSpace
  BY SpaceSuffices DEF Seqs
<1>2. /\ Plus(a, m) = IF a + m < SeqSpace THEN a + m ELSE a + m - SeqSpace
      /\ Plus(a, n) = IF a + n < SeqSpace THEN a + n ELSE a + n - SeqSpace
  BY <1>1, PlusByCase
<1>3. (IF a + m < SeqSpace THEN a + m ELSE a + m - SeqSpace)
      = (IF a + n < SeqSpace THEN a + n ELSE a + n - SeqSpace)
  BY <1>2
<1> QED
  BY <1>1, <1>3 DEF Seqs

LEMMA PlusPlus ==
    ASSUME NEW a \in Seqs, NEW m \in Nat, NEW n \in Nat, m + n < SeqSpace
    PROVE  Plus(Plus(a, m), n) = Plus(a, m + n)
<1>1. /\ SeqSpace \in Nat /\ m \in 0 .. SeqSpace /\ n \in 0 .. SeqSpace
      /\ m + n \in 0 .. SeqSpace
  BY SpaceSuffices
<1>2. /\ Plus(a, m) = IF a + m < SeqSpace THEN a + m ELSE a + m - SeqSpace
      /\ Plus(a, m + n) = IF a + (m + n) < SeqSpace THEN a + (m + n)
                                                    ELSE a + (m + n) - SeqSpace
      /\ Plus(a, m) \in Seqs
  BY <1>1, PlusByCase
<1> DEFINE b == Plus(a, m)
<1>3. Plus(b, n) = IF b + n < SeqSpace THEN b + n ELSE b + n - SeqSpace
  BY <1>1, <1>2, PlusByCase
<1> HIDE DEF b
<1>4. b = IF a + m < SeqSpace THEN a + m ELSE a + m - SeqSpace
  BY <1>2 DEF b
<1>5. Plus(b, n) = Plus(a, m + n)
  BY <1>1, <1>2, <1>3, <1>4 DEF Seqs
<1> QED
  BY <1>5 DEF b

(* How far receive_next has come can be read off it.                       *)
LEMMA DistanceOfPlus ==
    ASSUME NEW a \in Seqs, NEW n \in Nat, n + 1 < SeqSpace
    PROVE  (Plus(a, 1 + n) - a - 1) % SeqSpace = n
<1>1. SeqSpace \in Nat /\ SeqSpace > 0
  BY SpaceSuffices DEF Seqs
<1>2. 1 + n \in 0 .. SeqSpace
  BY <1>1
<1>3. CASE a + (1 + n) < SeqSpace
  <2>1. Plus(a, 1 + n) - a - 1 = n
    BY <1>1, <1>2, <1>3, PlusByCase DEF Seqs
  <2> QED
    BY <1>1, <2>1
<1>4. CASE a + (1 + n) >= SeqSpace
  <2>1. Plus(a, 1 + n) - a - 1 = n - SeqSpace
    BY <1>1, <1>2, <1>4, PlusByCase DEF Seqs
  <2>2. (n - SeqSpace) % SeqSpace = n % SeqSpace
    BY <1>1
  <2> QED
    BY <1>1, <2>1, <2>2
<1> QED
  BY <1>1, <1>3, <1>4 DEF Seqs

LEMMA PlusType == ASSUME NEW a \in Seqs, NEW n \in Nat PROVE Plus(a, n) \in Seqs
BY SpaceSuffices DEF Plus, Seqs

(* The bytes from one place of a stream to another.                        *)
LEMMA IotaProperties ==
    ASSUME NEW from \in Nat \ {0}, NEW to \in Nat
    PROVE  /\ Iota(from, to) \in Seq(Nat)
           /\ Len(Iota(from, to)) = IF from <= to THEN to - from + 1 ELSE 0
           /\ Run(Iota(from, to), from - 1)
<1> DEFINE n == IF from <= to THEN to - from + 1 ELSE 0
<1>1. n \in Nat /\ 1 .. to - from + 1 = 1 .. n
  OBVIOUS
<1>2. Iota(from, to) = [i \in 1 .. n |-> from + i - 1]
  BY <1>1 DEF Iota
<1> HIDE DEF n
<1>3. \A i \in 1 .. n : from + i - 1 \in Nat
  BY <1>1
<1>4. Iota(from, to) \in Seq(Nat) /\ Len(Iota(from, to)) = n
  BY <1>1, <1>2, <1>3
<1>5. Run(Iota(from, to), from - 1)
  BY <1>1, <1>2, <1>4 DEF Run
<1> QED
  BY <1>4, <1>5 DEF n

(* Parts of a stream, and two that follow each other.                      *)
LEMMA RunOfParts ==
    ASSUME NEW s \in Seq(Nat), NEW n \in Nat, Run(s, n), NEW k \in 0 .. Len(s)
    PROVE  /\ SubSeq(s, 1, k) \in Seq(Nat) /\ Len(SubSeq(s, 1, k)) = k
           /\ Run(SubSeq(s, 1, k), n)
           /\ SubSeq(s, k + 1, Len(s)) \in Seq(Nat)
           /\ Len(SubSeq(s, k + 1, Len(s))) = Len(s) - k
           /\ Run(SubSeq(s, k + 1, Len(s)), n + k)
BY DEF Run

LEMMA RunOfConcat ==
    ASSUME NEW s \in Seq(Nat), NEW t \in Seq(Nat), NEW n \in Nat,
           Run(s, n), Run(t, n + Len(s))
    PROVE  /\ s \o t \in Seq(Nat) /\ Len(s \o t) = Len(s) + Len(t)
           /\ Run(s \o t, n)
BY DEF Run

(* The segments of the peer, and where in its stream they are.             *)
Probe == IF ProbesWindow THEN 1 ELSE 0

PartOfStream(m, from, to, k) ==
    /\ edge > 0 /\ to <= edge + Probe
    /\ m.seq = Plus(PeerIsn, from) /\ m.ack = Plus(Isn, 1 + k)
    /\ Len(m.data) = (IF from <= to THEN to - from + 1 ELSE 0) /\ Run(m.data, from - 1)
    /\ m.flags = {"ACK"} \/ (m.flags = {"FIN", "ACK"} /\ to = PeerBytes)

LEMMA PeerSegments ==
    ASSUME TypeOK, NEW m \in FromPeer
    PROVE  /\ m \in Segments
           /\ \/ m.flags = {"SYN", "ACK"} /\ m.seq = PeerIsn /\ m.data = <<>> /\ m.ack = Plus(Isn, 1)
              \/ m.flags = {"RST"} /\ m.data = <<>>
              \/ \E from \in 1 .. PeerBytes + 1, to \in 0 .. PeerBytes, k \in 0 .. PeerHas :
                    PartOfStream(m, from, to, k)
<1>1. /\ PeerHas \in Nat /\ Plus(Isn, 1) \in Seqs
      /\ PeerLimit \in 0 .. PeerBytes /\ PeerLimit <= edge + Probe /\ PeerBytes \in Nat
      /\ PeerLimit < PeerBytes => PeerLimit = edge + Probe
  BY SpaceSuffices, PlusType, LenProperties DEF PeerHas, PeerLimit, Probe, TypeOK
<1>2. CASE m = Segment({"SYN", "ACK"}, PeerIsn, Plus(Isn, 1), <<>>)
  BY <1>1, <1>2, SpaceSuffices DEF Segment, Segments, Seqs
<1>3. CASE m = Segment({"RST"}, 0, 0, <<>>)
  BY <1>3, SpaceSuffices DEF Segment, Segments, Seqs
<1>4. ASSUME NEW from \in 1 .. PeerBytes + 1, NEW to \in 0 .. PeerLimit, edge # 0,
             NEW flags \in {{"ACK"}, {"FIN", "ACK"}}, m \in PeerData(from, to, flags),
             flags = {"ACK"} \/ to = PeerBytes
      PROVE  m \in Segments /\ \E k \in 0 .. PeerHas : PartOfStream(m, from, to, k)
  <2>1. PICK k \in 0 .. PeerHas :
           m = Segment(flags, Plus(PeerIsn, from), Plus(Isn, 1 + k), Iota(from, to))
    BY <1>4 DEF PeerData
  <2>2. Plus(PeerIsn, from) \in Seqs /\ Plus(Isn, 1 + k) \in Seqs
    BY <1>1, PlusType, SpaceSuffices
  <2>3. /\ Iota(from, to) \in Seq(Nat) /\ Run(Iota(from, to), from - 1)
        /\ Len(Iota(from, to)) = IF from <= to THEN to - from + 1 ELSE 0
    <3>1. from \in Nat \ {0} /\ to \in Nat
      BY <1>1
    <3> QED
      BY <3>1, IotaProperties
  <2>4. m \in Segments
    BY <2>1, <2>2, <2>3 DEF Segment, Segments, Seqs
  <2>5. edge > 0 /\ to <= edge + Probe
    BY <1>1, <1>4 DEF TypeOK, Probe
  <2>6. PartOfStream(m, from, to, k)
    BY <1>4, <2>1, <2>3, <2>5 DEF PartOfStream, Segment
  <2> QED
    BY <2>4, <2>6
<1>5. CASE edge # 0 /\ m \in UNION {PeerData(from, to, {"ACK"}) :
                                       from \in 1 .. PeerLimit + 1, to \in 0 .. PeerLimit}
  <2>1. PICK from \in 1 .. PeerLimit + 1, to \in 0 .. PeerLimit : m \in PeerData(from, to, {"ACK"})
    BY <1>5
  <2>2. from \in 1 .. PeerBytes + 1 /\ to \in 0 .. PeerBytes
    BY <1>1
  <2> QED
    BY <1>4, <1>5, <2>1, <2>2
<1>6. CASE /\ edge # 0 /\ ~(PeerLimit < PeerBytes)
           /\ m \in UNION {PeerData(from, PeerBytes, {"FIN", "ACK"}) :
                                from \in 1 .. PeerBytes + 1}
  <2>1. PICK from \in 1 .. PeerBytes + 1 : m \in PeerData(from, PeerBytes, {"FIN", "ACK"})
    BY <1>6
  <2>2. PeerBytes \in 0 .. PeerLimit /\ PeerBytes \in 0 .. PeerBytes
    BY <1>1, <1>6
  <2> QED
    BY <1>4, <1>6, <2>1, <2>2
<1> QED
  BY <1>2, <1>3, <1>5, <1>6 DEF FromPeer

-----------------------------------------------------------------------------
(* Types.                                                                  *)
LEMMA TransmittedType ==
    ASSUME TypeOK, NEW S, NEW rcv \in Seqs, NEW buf \in Seq(Nat), Len(buf) <= RxCapacity,
           Transmitted(S, rcv, buf)
    PROVE  sent' = sent \cup S /\ edge' \in Nat
<1>1. (rcv - PeerIsn - 1) % SeqSpace \in Nat
  BY SpaceSuffices DEF Seqs
<1>2. Window(rcv, buf) \in Nat
  BY <1>1, SpaceSuffices DEF Window
<1> QED
  BY <1>2 DEF Transmitted, Highest, TypeOK

LEMMA SendAckType ==
    ASSUME TypeOK, NEW rcv \in Seqs, NEW buf \in Seq(Nat), Len(buf) <= RxCapacity,
           SendAck(rcv, buf)
    PROVE  sent' = sent /\ edge' \in Nat
<1>1. CASE Transmitted({}, rcv, buf)
  <2>1. sent' = sent \cup {} /\ edge' \in Nat
    BY <1>1, TransmittedType
  <2> QED
    BY <2>1
<1> QED
  BY <1>1 DEF SendAck, TypeOK

(* What Accept puts in the buffer.                                         *)
AcceptedPart(m) ==
    LET room == RxCapacity - Len(receive_buffer)
    IN  SubSeq(m.data, 1, IF Len(m.data) < room THEN Len(m.data) ELSE room)

LEMMA AcceptType ==
    ASSUME TypeOK, NEW m \in Segments, Accept(m)
    PROVE  /\ receive_buffer' \in Seq(Nat) /\ Len(receive_buffer') <= RxCapacity
           /\ receive_next' \in Seqs /\ state' \in {state, "TIME_WAIT", "CLOSE_WAIT"}
<1> DEFINE taken == AcceptedPart(m)
           n == IF "FIN" \in m.flags THEN 1 ELSE 0
<1>1. /\ m.data \in Seq(Nat) /\ receive_buffer \in Seq(Nat)
      /\ Len(receive_buffer) <= RxCapacity /\ RxCapacity \in Nat
  BY SpaceSuffices DEF TypeOK, Segments
<1>2. /\ taken \in Seq(Nat)
      /\ Len(taken) <= RxCapacity - Len(receive_buffer)
  BY <1>1 DEF AcceptedPart
<1>3. /\ receive_buffer' = receive_buffer \o taken
      /\ receive_next' = Plus(receive_next, Len(taken) + n)
      /\ state' \in {state, "TIME_WAIT", "CLOSE_WAIT"}
  BY DEF Accept, AcceptedPart
<1> HIDE DEF taken
<1>4. Len(taken) + n \in Nat /\ receive_next \in Seqs
  BY <1>2 DEF TypeOK, Seqs
<1> QED
  BY <1>1, <1>2, <1>3, <1>4, PlusType

LEMMA TypeInit == Init => TypeOK
<1>1. <<>> \in Seq(Nat) /\ Len(<<>>) = 0
  OBVIOUS
<1> QED
  BY <1>1, SpaceSuffices DEF Init, TypeOK, States, Calls, Seqs

LEMMA TypeStep == TypeOK /\ [Next]_vars => TypeOK'
<1> SUFFICES ASSUME TypeOK, [Next]_vars PROVE TypeOK'
  OBVIOUS
<1> USE SpaceSuffices DEF TypeOK, States, Calls, endpoint, peerVars
<1>a. <<>> \in Seq(Nat) /\ Len(<<>>) = 0 /\ Seqs = 0 .. SeqSpace - 1 /\ 0 \in Seqs
      /\ Isn \in Seqs /\ send_next \in Seqs
  BY DEF Seqs
<1>b. \A n \in Nat : Plus(Isn, n) \in Seqs /\ Plus(send_next, n) \in Seqs
  BY <1>a, PlusType
<1>0. <<>> \in Seq(Nat) /\ Len(<<>>) = 0 /\ Plus(Isn, 1) \in Seqs /\ Plus(send_next, 1) \in Seqs
      /\ \A n \in Nat : Plus(send_next, n) \in Seqs
  BY <1>a, <1>b
<1>1. CASE Connect
  <2> DEFINE syn == Segment({"SYN"}, Isn, 0, <<>>)
  <2>1. syn \in Segments
    BY <1>a DEF Segment, Segments
  <2> HIDE DEF syn
  <2>2. \/ /\ state' = "SYN_SENT" /\ pc' = "connect" /\ result' = result /\ sent' = {syn}
           /\ outstanding' = syn /\ retries' = 0 /\ send_next' = Plus(Isn, 1)
        \/ /\ state' = "CLOSED" /\ pc' = "idle" /\ result' = "failed" /\ sent' = {}
           /\ send_next' = Isn /\ UNCHANGED <<outstanding, retries>>
    BY <1>1 DEF Connect, syn
  <2>3. /\ send_unacknowledged' = Isn /\ receive_next' = 0 /\ receive_buffer' = <<>>
        /\ edge' = 0 /\ written' = 0 /\ read' = <<>> /\ peer' = "listen" /\ accepted' = <<>>
    BY <1>1 DEF Connect
  <2>4. sent' \subseteq Segments /\ outstanding' \in Segments \cup {Nothing, Garbled}
    BY <2>1, <2>2
  <2>6. send_next' \in 0 .. SeqSpace - 1
    BY <1>a, <1>0, <2>2
  <2>7. retries' \in 0 .. MaxRetries
    BY <2>2
  <2>5. /\ state' \in States /\ pc' \in Calls \cup {"idle"}
        /\ result' \in {"none", "ok", "failed", "timeout", "ended"}
    BY <2>2
  <2> QED
    BY <1>a, <2>3, <2>4, <2>5, <2>6, <2>7
<1>2. CASE Return
  BY <1>2 DEF Return, ConnectReturns, SendReturns, ReadWaitReturns, CloseReturns
<1>3. CASE Send
  <2>1. PICK length \in 1 .. MaxPayload :
           LET segment == Segment({"ACK"}, send_next, receive_next,
                                  Iota(written + 1, written + length))
           IN  /\ written + length <= MaxSend /\ written' = written + length
               /\ outstanding' = segment /\ retries' = 0
               /\ send_next' = Plus(send_next, length)
               /\ Transmitted({segment}, receive_next, receive_buffer)
    BY <1>3 DEF Send, SendNextAfter
  <2> DEFINE data == Iota(written + 1, written + length)
             segment == Segment({"ACK"}, send_next, receive_next, data)
  <2>2. written + 1 \in Nat \ {0} /\ written + length \in Nat
    OBVIOUS
  <2>3. data \in Seq(Nat)
    BY <2>2, IotaProperties
  <2>4. segment \in Segments
    BY <2>3 DEF Segment, Segments
  <2> HIDE DEF data, segment
  <2>5. Transmitted({segment}, receive_next, receive_buffer)
    BY <2>1 DEF segment, data
  <2>6. sent' = sent \cup {segment} /\ edge' \in Nat
    BY <2>5, TransmittedType DEF Seqs
  <2>7. outstanding' = segment /\ send_next' \in Seqs /\ written' \in 0 .. MaxSend
        /\ retries' \in 0 .. MaxRetries
    BY <1>0, <2>1 DEF segment, data
  <2> QED
    BY <1>3, <2>4, <2>6, <2>7 DEF Send, Seqs
<1>4. CASE Read
  <2>1. PICK length \in 1 .. Len(receive_buffer) :
           /\ read' = read \o SubSeq(receive_buffer, 1, length)
           /\ receive_buffer' = SubSeq(receive_buffer, length + 1, Len(receive_buffer))
    BY <1>4 DEF Read
  <2>2. /\ read' \in Seq(Nat) /\ receive_buffer' \in Seq(Nat)
        /\ Len(receive_buffer') <= RxCapacity
    <3>1. /\ SubSeq(receive_buffer, 1, length) \in Seq(Nat)
          /\ SubSeq(receive_buffer, length + 1, Len(receive_buffer)) \in Seq(Nat)
          /\ Len(SubSeq(receive_buffer, length + 1, Len(receive_buffer)))
             = Len(receive_buffer) - length
      OBVIOUS
    <3> QED
      BY <2>1, <3>1
  <2>3. sent' = sent /\ edge' \in Nat
    BY <1>4, <2>2, SendAckType DEF Read, Seqs
  <2> QED
    BY <1>4, <2>2, <2>3 DEF Read
<1>5. CASE ReadWait
  BY <1>5 DEF ReadWait
<1>6. CASE Close
  <2> DEFINE fin == Segment({"FIN", "ACK"}, send_next, receive_next, <<>>)
  <2>1. fin \in Segments
    BY <1>0 DEF Segment, Segments
  <2> HIDE DEF fin
  <2>2. CASE /\ state' = "FIN_WAIT" /\ pc' = "close" /\ result' = result
             /\ Track(fin, 1) /\ Transmitted({fin}, receive_next, receive_buffer)
    <3>1. sent' = sent \cup {fin} /\ edge' \in Nat
      BY <2>2, TransmittedType DEF Seqs
    <3> QED
      BY <1>0, <1>6, <2>1, <2>2, <3>1 DEF Close, Track, Seqs
  <2>3. CASE /\ state' = "RESET" /\ pc' = "idle" /\ result' = "failed"
             /\ outstanding' = IF outstanding = Nothing THEN Nothing ELSE Garbled
             /\ UNCHANGED <<retries, send_next, sent, edge>>
    BY <1>6, <2>3 DEF Close
  <2> QED
    BY <1>6, <2>2, <2>3 DEF Close, fin
<1>7. CASE Poll
  BY SMTT(30), <1>7 DEF Poll, Retransmit, GiveUp, MayRetry, RetriesAfter
<1>8. CASE ReceiveReset
  BY <1>8 DEF ReceiveReset
<1>9. CASE ReceiveSynAck
  <2>1. PICK m \in FromPeer : /\ IsSynAck(m) /\ m.ack = send_next
                              /\ receive_next' = Plus(m.seq, 1)
                              /\ send_unacknowledged' = m.ack
    BY <1>9 DEF ReceiveSynAck
  <2>2. receive_next' \in Seqs /\ send_unacknowledged' \in Seqs
    BY <2>1, PeerSegments, PlusType DEF Segments, Seqs
  <2>3. sent' = sent /\ edge' \in Nat
    BY <1>9, <2>2, SendAckType DEF ReceiveSynAck
  <2> QED
    BY <1>9, <2>2, <2>3 DEF ReceiveSynAck, Seqs
<1>10. CASE ReceiveSegment
  <2>1. PICK m \in FromPeer :
          /\ Acknowledge(m)
          /\ IF Expected(m) THEN Accept(m) ELSE UNCHANGED <<receive_buffer, receive_next, state>>
          /\ IF m.data # <<>> \/ "FIN" \in m.flags
             THEN SendAck(receive_next', receive_buffer') ELSE UNCHANGED <<sent, edge>>
    BY <1>10 DEF ReceiveSegment
  <2>2. m \in Segments
    BY PeerSegments
  <2>3. send_unacknowledged' \in Seqs /\ outstanding' \in {outstanding, Nothing}
    BY <2>1, <2>2 DEF Acknowledge, Segments, Seqs
  <2>4. /\ receive_buffer' \in Seq(Nat) /\ Len(receive_buffer') <= RxCapacity
        /\ receive_next' \in Seqs /\ state' \in {state, "TIME_WAIT", "CLOSE_WAIT"}
    BY <2>1, <2>2, AcceptType DEF Seqs
  <2>5. sent' = sent /\ edge' \in Nat
    BY <2>1, <2>4, SendAckType
  <2> QED
    BY <1>10, <2>3, <2>4, <2>5 DEF ReceiveSegment, Seqs
<1>11. CASE PeerReceive
  <2>1. PICK m \in sent :
           /\ peer' \in {"open", "eof"} /\ accepted' \in {accepted, accepted \o m.data}
    BY <1>11 DEF PeerReceive
  <2>2. accepted \o m.data \in Seq(Nat)
    <3>1. m.data \in Seq(Nat)
      BY DEF Segments
    <3> QED
      BY <3>1
  <2>3. accepted' \in Seq(Nat)
    BY <2>1, <2>2
  <2> QED
    BY <1>11, <2>1, <2>3 DEF PeerReceive
<1>12. CASE UNCHANGED vars
  BY <1>12 DEF vars
<1> QED
  BY <1>1, <1>2, <1>3, <1>4, <1>5, <1>6, <1>7, <1>8, <1>9, <1>10, <1>11, <1>12
  DEF Next, Call, Receive

-----------------------------------------------------------------------------
(* Every step keeps the invariant.                                         *)

(* The window that a segment gives the peer is that of the invariant.      *)
LEMMA EdgeBound ==
    ASSUME TypeOK, NEW r \in 0 .. PeerBytes + 1, NEW buf \in Seq(Nat), NEW S,
           edge <= r + RxCapacity - Len(buf), Transmitted(S, Plus(PeerIsn, 1 + r), buf)
    PROVE  edge' <= r + RxCapacity - Len(buf)
<1>1. r \in Nat /\ r + 1 < SeqSpace /\ PeerIsn \in Seqs
  BY SpaceSuffices
<1>2. Window(Plus(PeerIsn, 1 + r), buf) = r + RxCapacity - Len(buf)
  <2>1. (Plus(PeerIsn, 1 + r) - PeerIsn - 1) % SeqSpace = r
    BY <1>1, DistanceOfPlus
  <2> QED
    BY <2>1 DEF Window
<1>3. r + RxCapacity - Len(buf) \in Int
  BY <1>1, SpaceSuffices
<1> QED
  BY <1>2, <1>3 DEF Transmitted, Highest

LEMMA AckBound ==
    ASSUME TypeOK, NEW r \in 0 .. PeerBytes + 1, NEW buf \in Seq(Nat), Len(buf) <= RxCapacity,
           edge <= r + RxCapacity - Len(buf),
           SendAck(Plus(PeerIsn, 1 + r), buf) \/ UNCHANGED <<sent, edge>>
    PROVE  edge' <= r + RxCapacity - Len(buf) /\ sent' = sent
<1>1. Plus(PeerIsn, 1 + r) \in Seqs
  BY PlusType, SpaceSuffices
<1>2. CASE SendAck(Plus(PeerIsn, 1 + r), buf)
  <2>1. edge' <= r + RxCapacity - Len(buf)
    BY <1>2, EdgeBound DEF SendAck
  <2> QED
    BY <1>1, <1>2, <2>1, SendAckType
<1> QED
  BY <1>2

(* A step that moves no byte and no sequence number.                       *)
LEMMA QuietStep ==
    ASSUME IInv, TypeOK',
           UNCHANGED <<receive_next, receive_buffer, read, edge, send_next, written, sent,
                       accepted, peer>>,
           state' \in {state, "RESET", "CLOSED"},
           state' = "ESTABLISHED" /\ outstanding' = Nothing => outstanding = Nothing,
           pc' \in {pc, "idle", "read_wait"}
    PROVE  IInv'
<1>1. StreamsOK'
  BY DEF IInv, StreamsOK, Run
<1>2. CASE NotSynced
  BY <1>1, <1>2 DEF NotSynced, IInv
<1>3. CASE Synced
  <2>1. PICK r \in 0 .. PeerBytes + 1, f \in 0 .. 3 : Receiving(r) /\ Sending(r, f) /\ SentOK(f)
    BY <1>3 DEF Synced
  <2>2. Receiving(r)'
    BY <2>1 DEF Receiving, Taken
  <2>3. Sending(r, f)'
    BY <2>1 DEF Sending, Fins
  <2>4. SentOK(f)'
    BY <2>1 DEF SentOK, InStream, AtEnd, Run
  <2>5. state' # "SYN_SENT"
    BY <1>3 DEF Synced
  <2> QED
    BY <1>1, <2>2, <2>3, <2>4, <2>5 DEF Synced, IInv
<1> QED
  BY <1>2, <1>3 DEF IInv

LEMMA ConnectStep == ASSUME IInv, TypeOK', Connect PROVE IInv'
<1>1. /\ read' = <<>> /\ receive_buffer' = <<>> /\ accepted' = <<>> /\ written' = 0
      /\ edge' = 0 /\ receive_next' = 0 /\ peer' = "listen"
  BY DEF Connect
<1>2. StreamsOK'
  BY <1>1 DEF StreamsOK, Run
<1>3. \/ /\ state' = "SYN_SENT" /\ pc' = "connect" /\ send_next' = Plus(Isn, 1)
         /\ sent' = {Segment({"SYN"}, Isn, 0, <<>>)}
      \/ state' = "CLOSED" /\ pc' = "idle" /\ sent' = {}
  BY DEF Connect
<1>4. \A m \in sent' : m.flags = {"SYN"}
  BY <1>3 DEF Segment
<1>5. NotSynced'
  BY <1>1, <1>3, <1>4 DEF NotSynced
<1> QED
  BY <1>2, <1>5 DEF IInv

(* Bytes that tcp_send takes come behind the others.                       *)
LEMMA SendStep == ASSUME IInv, TypeOK', Send PROVE IInv'
<1>1. TypeOK /\ StreamsOK /\ state = "ESTABLISHED"
  BY DEF IInv, Send
<1>2. PICK r \in 0 .. PeerBytes + 1, f \in 0 .. 3 : Receiving(r) /\ Sending(r, f) /\ SentOK(f)
  BY <1>1 DEF IInv, NotSynced, Synced
<1>3. PICK length \in 1 .. MaxPayload :
        LET segment == Segment({"ACK"}, send_next, receive_next,
                               Iota(written + 1, written + length))
        IN  /\ written + length <= MaxSend /\ written' = written + length
            /\ outstanding' = segment
            /\ send_next' = Plus(send_next, length)
            /\ Transmitted({segment}, receive_next, receive_buffer)
  BY DEF Send, SendNextAfter
<1> DEFINE data == Iota(written + 1, written + length)
           segment == Segment({"ACK"}, send_next, receive_next, data)
<1>4. /\ UNCHANGED <<state, receive_next, receive_buffer, read, accepted, peer>>
      /\ pc' = "send"
  BY DEF Send, peerVars
<1>5. /\ f = 0 /\ send_next = Plus(Isn, 1 + written)
      /\ written \in Nat /\ length \in Nat /\ written + length <= MaxSend
      /\ peer # "eof" /\ receive_next = Plus(PeerIsn, 1 + r)
  BY <1>1, <1>2, <1>3, SpaceSuffices DEF Sending, Receiving, TypeOK
<1>6. /\ segment.flags = {"ACK"} /\ segment.seq = Plus(Isn, 1 + written)
      /\ segment.data = data /\ Len(data) = length /\ Run(data, written)
  <2>1. written + 1 \in Nat \ {0} /\ written + length \in Nat
    BY <1>5
  <2>2. /\ Len(data) = IF written + 1 <= written + length
                       THEN (written + length) - (written + 1) + 1 ELSE 0
        /\ Run(data, (written + 1) - 1)
    BY <2>1, IotaProperties
  <2> QED
    BY <1>3, <1>5, <2>2 DEF Segment
<1>7. PICK new :
        /\ new.flags = {"ACK"} /\ new.seq = Plus(Isn, 1 + written)
        /\ Len(new.data) = length /\ Run(new.data, written)
        /\ written' = written + length /\ outstanding' = new
        /\ send_next' = Plus(send_next, length)
        /\ Transmitted({new}, receive_next, receive_buffer)
  BY <1>3, <1>6
<1>8. sent' = sent \cup {new}
  BY <1>7 DEF Transmitted
<1>9. send_next' = Plus(Isn, 1 + written')
  <2>1. (1 + written) + length < SeqSpace /\ 1 + written \in Nat
    BY <1>5, SpaceSuffices
  <2>2. Plus(Plus(Isn, 1 + written), length) = Plus(Isn, (1 + written) + length)
    BY <1>5, <2>1, PlusPlus, SpaceSuffices
  <2>3. (1 + written) + length = 1 + written'
    BY <1>5, <1>7
  <2> QED
    BY <1>5, <1>7, <2>2, <2>3
<1>10. outstanding' # Nothing
  BY <1>7 DEF Nothing
<1>11. edge' <= r + RxCapacity - Len(receive_buffer)
  <2>1. /\ receive_buffer \in Seq(Nat) /\ edge <= r + RxCapacity - Len(receive_buffer)
        /\ Transmitted({new}, Plus(PeerIsn, 1 + r), receive_buffer)
    BY <1>1, <1>2, <1>5, <1>7 DEF Receiving, TypeOK
  <2> QED
    BY <1>1, <2>1, EdgeBound
<1>12. Receiving(r)'
  BY <1>2, <1>4, <1>11 DEF Receiving, Taken
<1>13. Sending(r, 0)'
  <2>1. written' \in Nat /\ 1 + written' + 0 = 1 + written'
    BY <1>5, <1>7
  <2>2. 0 <= 1 + Fins(r) /\ Fins(r)' = Fins(r)
    BY SpaceSuffices DEF Fins
  <2> QED
    BY <1>1, <1>4, <1>5, <1>9, <1>10, <2>1, <2>2 DEF Sending
<1>14. SentOK(0)'
  <2>1. ASSUME NEW m \in sent PROVE m.flags = {"SYN"} \/ InStream(m)'
    <3>1. CASE InStream(m)
      <4>1. PICK a \in 0 .. written :
               m.seq = Plus(Isn, 1 + a) /\ Len(m.data) <= written - a /\ Run(m.data, a)
        BY <3>1 DEF InStream
      <4>2. m.data \in Seq(Nat)
        BY <1>1 DEF TypeOK, Segments
      <4>3. a \in 0 .. written' /\ Len(m.data) <= written' - a
        BY <1>5, <1>7, <4>1, <4>2
      <4> QED
        BY <3>1, <4>1, <4>3 DEF InStream, Run
    <3>2. ~AtEnd(m, 0)
      <4>1. 0 .. 0 - 1 = {}
        OBVIOUS
      <4> QED
        BY <4>1 DEF AtEnd
    <3>3. m.flags = {"SYN"} \/ InStream(m) \/ AtEnd(m, 0)
      BY <1>2, <1>5 DEF SentOK
    <3> QED
      BY <3>1, <3>2, <3>3
  <2>2. InStream(new)'
    <3>1. written \in 0 .. written' /\ Len(new.data) <= written' - written
      BY <1>5, <1>7
    <3> QED
      BY <1>7, <3>1 DEF InStream, Run
  <2> QED
    BY <1>8, <2>1, <2>2 DEF SentOK
<1>15. StreamsOK'
  BY <1>1, <1>4, <1>5, <1>7 DEF StreamsOK, Run, TypeOK
<1> QED
  BY <1>1, <1>4, <1>12, <1>13, <1>14, <1>15 DEF IInv, Synced

(* Reading makes room, and says so.                                        *)
LEMMA ReadStep == ASSUME IInv, TypeOK', Read PROVE IInv'
<1>1. TypeOK /\ StreamsOK /\ receive_buffer # <<>>
  BY DEF IInv, Read
<1>2. PICK r \in 0 .. PeerBytes + 1, f \in 0 .. 3 : Receiving(r) /\ Sending(r, f) /\ SentOK(f)
  BY <1>1 DEF IInv, NotSynced, Synced
<1>3. PICK length \in 1 .. Len(receive_buffer) :
         /\ read' = read \o SubSeq(receive_buffer, 1, length)
         /\ receive_buffer' = SubSeq(receive_buffer, length + 1, Len(receive_buffer))
  BY DEF Read
<1>4. /\ UNCHANGED <<state, send_next, receive_next, outstanding, written, accepted, peer>>
      /\ pc' = "idle"
      /\ SendAck(receive_next, receive_buffer') \/ UNCHANGED <<sent, edge>>
  BY DEF Read, peerVars
<1>5. /\ read' \in Seq(Nat) /\ receive_buffer' \in Seq(Nat)
      /\ Len(read') = Len(read) + length /\ Len(receive_buffer') = Len(receive_buffer) - length
      /\ Run(read', 0) /\ Run(receive_buffer', Len(read'))
  <2> DEFINE head == SubSeq(receive_buffer, 1, length)
             rest == SubSeq(receive_buffer, length + 1, Len(receive_buffer))
  <2>1. /\ read \in Seq(Nat) /\ receive_buffer \in Seq(Nat) /\ Len(read) \in Nat
        /\ length \in 0 .. Len(receive_buffer)
    BY <1>1, LenProperties DEF TypeOK
  <2>6. Run(receive_buffer, Len(read)) /\ Run(read, 0)
    BY <1>1 DEF StreamsOK
  <2>2. /\ head \in Seq(Nat) /\ Len(head) = length /\ Run(head, Len(read))
        /\ rest \in Seq(Nat) /\ Len(rest) = Len(receive_buffer) - length
        /\ Run(rest, Len(read) + length)
    BY <2>1, <2>6, RunOfParts
  <2> HIDE DEF head, rest
  <2>3. Run(head, 0 + Len(read))
    BY <2>1, <2>2
  <2>4. /\ read \o head \in Seq(Nat) /\ Len(read \o head) = Len(read) + length
        /\ Run(read \o head, 0)
    BY <2>1, <2>2, <2>3, <2>6, RunOfConcat
  <2>5. read' = read \o head /\ receive_buffer' = rest
    BY <1>3 DEF head, rest
  <2> QED
    BY <2>2, <2>4, <2>5
<1>6. StreamsOK'
  BY <1>1, <1>4, <1>5 DEF StreamsOK
<1>7. /\ Len(read) \in Nat /\ Len(receive_buffer) \in Nat /\ length \in Nat
      /\ receive_next = Plus(PeerIsn, 1 + r) /\ edge \in Nat /\ r \in Nat /\ RxCapacity \in Nat
      /\ edge <= r + RxCapacity - Len(receive_buffer)
      /\ Len(receive_buffer) <= RxCapacity
  <2>1. /\ receive_next = Plus(PeerIsn, 1 + r)
        /\ edge <= r + RxCapacity - Len(receive_buffer)
    BY <1>2 DEF Receiving
  <2>2. Len(read) \in Nat /\ Len(receive_buffer) \in Nat
    BY <1>1, LenProperties DEF TypeOK
  <2> QED
    BY <1>1, <2>1, <2>2, SpaceSuffices DEF TypeOK
<1>8. Taken' = Taken
  BY <1>5, <1>7 DEF Taken
<1>9. edge' <= r + RxCapacity - Len(receive_buffer') /\ sent' = sent
  <2>1. /\ edge <= r + RxCapacity - Len(receive_buffer')
        /\ Len(receive_buffer') <= RxCapacity
    BY <1>5, <1>7
  <2>2. SendAck(Plus(PeerIsn, 1 + r), receive_buffer') \/ UNCHANGED <<sent, edge>>
    BY <1>4, <1>7
  <2> QED
    BY <1>1, <1>5, <2>1, <2>2, AckBound
<1>10. Receiving(r)'
  BY <1>2, <1>4, <1>8, <1>9 DEF Receiving
<1>11. Sending(r, f)' /\ SentOK(f)'
  BY <1>2, <1>4, <1>9 DEF Sending, Fins, SentOK, InStream, AtEnd, Run
<1>12. state' # "SYN_SENT"
  BY <1>1, <1>4 DEF IInv, Synced, NotSynced
<1> QED
  BY <1>6, <1>10, <1>11, <1>12 DEF IInv, Synced

(* A FIN comes behind all that was written.                                *)
LEMMA CloseStep == ASSUME IInv, TypeOK', Close PROVE IInv'
<1>1. TypeOK /\ StreamsOK /\ state \in {"ESTABLISHED", "CLOSE_WAIT"}
  BY DEF IInv, Close
<1>2. PICK r \in 0 .. PeerBytes + 1, f \in 0 .. 3 : Receiving(r) /\ Sending(r, f) /\ SentOK(f)
  BY <1>1 DEF IInv, NotSynced, Synced
<1>3. UNCHANGED <<receive_next, receive_buffer, read, written, accepted, peer>>
  BY DEF Close, peerVars
<1>4. CASE state' = "RESET" /\ pc' = "idle" /\ UNCHANGED <<send_next, sent, edge>>
  BY <1>3, <1>4, QuietStep
<1>5. CASE /\ state' = "FIN_WAIT" /\ pc' = "close"
           /\ LET fin == Segment({"FIN", "ACK"}, send_next, receive_next, <<>>)
              IN  Track(fin, 1) /\ Transmitted({fin}, receive_next, receive_buffer)
  <2>1. PICK fin : /\ fin.flags = {"FIN", "ACK"} /\ fin.seq = send_next /\ fin.data = <<>>
                   /\ Transmitted({fin}, receive_next, receive_buffer)
                   /\ send_next' = Plus(send_next, 1)
    BY <1>5 DEF Track, Segment
  <2>2. /\ Fins(r) \in 0 .. 2 /\ f \in 0 .. 2 /\ f <= Fins(r)
        /\ send_next = Plus(Isn, 1 + written + f) /\ receive_next = Plus(PeerIsn, 1 + r)
        /\ written \in 0 .. MaxSend /\ MaxSend \in Nat
        /\ edge <= r + RxCapacity - Len(receive_buffer) /\ receive_buffer \in Seq(Nat)
    <3>1. Fins(r) \in 0 .. 2
      BY SpaceSuffices DEF Fins
    <3>2. f <= Fins(r)
      BY <1>1, <1>2, <3>1 DEF Sending
    <3>3. /\ written \in 0 .. MaxSend /\ MaxSend \in Nat /\ receive_buffer \in Seq(Nat)
      BY <1>1, SpaceSuffices DEF TypeOK
    <3>4. /\ send_next = Plus(Isn, 1 + written + f) /\ receive_next = Plus(PeerIsn, 1 + r)
          /\ edge <= r + RxCapacity - Len(receive_buffer)
      BY <1>2 DEF Sending, Receiving
    <3> QED
      BY <3>1, <3>2, <3>3, <3>4
  <2>3. send_next' = Plus(Isn, 1 + written + (f + 1))
    <3>1. /\ 1 + written + f \in Nat /\ (1 + written + f) + 1 < SeqSpace
          /\ (1 + written + f) + 1 = 1 + written + (f + 1)
      BY <2>2, SpaceSuffices
    <3>2. Plus(Plus(Isn, 1 + written + f), 1) = Plus(Isn, (1 + written + f) + 1)
      BY <3>1, PlusPlus, SpaceSuffices
    <3> QED
      BY <2>1, <2>2, <3>1, <3>2
  <2>4. Sending(r, f + 1)'
    <3>1. f + 1 <= 1 + Fins(r) /\ f + 1 >= 1 /\ Fins(r)' = Fins(r)
      BY <2>2 DEF Fins
    <3> QED
      BY <1>2, <1>3, <1>5, <2>3, <3>1 DEF Sending
  <2>5. edge' <= r + RxCapacity - Len(receive_buffer)
    BY <1>1, <2>1, <2>2, EdgeBound
  <2>6. Receiving(r)'
    BY <1>2, <1>3, <1>5, <2>5 DEF Receiving, Taken
  <2>7. SentOK(f + 1)'
    <3>1. \A m \in sent : m.flags = {"SYN"} \/ InStream(m)' \/ AtEnd(m, f + 1)'
      <4>1. 0 .. f - 1 \subseteq 0 .. (f + 1) - 1
        BY <2>2
      <4>2. \A m \in sent : AtEnd(m, f) => AtEnd(m, f + 1)'
        BY <1>3, <4>1 DEF AtEnd
      <4>3. \A m \in sent : InStream(m) => InStream(m)'
        BY <1>3 DEF InStream, Run
      <4> QED
        BY <1>2, <4>2, <4>3 DEF SentOK
    <3>2. AtEnd(fin, f + 1)'
      <4>1. f \in 0 .. (f + 1) - 1
        BY <2>2
      <4> QED
        BY <1>3, <2>1, <2>2, <4>1 DEF AtEnd
    <3> QED
      BY <2>1, <3>1, <3>2 DEF SentOK, Transmitted
  <2>8. StreamsOK'
    BY <1>1, <1>3 DEF StreamsOK, Run
  <2> QED
    BY <1>5, <2>2, <2>4, <2>6, <2>7, <2>8 DEF IInv, Synced
<1> QED
  BY <1>4, <1>5 DEF Close

(* The connection opens, with both streams at their beginning.             *)
LEMMA SynAckStep == ASSUME IInv, TypeOK', ReceiveSynAck PROVE IInv'
<1>1. TypeOK /\ StreamsOK /\ NotSynced /\ state = "SYN_SENT"
  BY DEF IInv, ReceiveSynAck, Synced
<1>2. PICK m \in FromPeer : IsSynAck(m) /\ receive_next' = Plus(m.seq, 1)
  BY DEF ReceiveSynAck
<1>3. m.seq = PeerIsn
  <2>1. ~(m.flags = {"RST"}) /\ ~(m.flags = {"ACK"}) /\ ~(m.flags = {"FIN", "ACK"})
    BY <1>2 DEF IsSynAck
  <2> QED
    BY <1>1, <2>1, PeerSegments DEF PartOfStream
<1>4. /\ state' = "ESTABLISHED" /\ receive_next' = Plus(PeerIsn, 1 + 0)
      /\ SendAck(Plus(PeerIsn, 1 + 0), receive_buffer)
      /\ UNCHANGED <<send_next, receive_buffer, pc, read, written, accepted, peer>>
  BY <1>2, <1>3 DEF ReceiveSynAck, peerVars
<1>5. /\ edge = 0 /\ receive_buffer = <<>> /\ read = <<>> /\ written = 0
      /\ send_next = Plus(Isn, 1) /\ accepted = <<>> /\ peer # "eof" /\ pc # "close"
  BY <1>1 DEF NotSynced
<1>6. edge' <= 0 + RxCapacity - Len(receive_buffer) /\ sent' = sent
  <2>1. /\ 0 \in 0 .. PeerBytes + 1 /\ receive_buffer \in Seq(Nat)
        /\ Len(receive_buffer) <= RxCapacity /\ edge <= 0 + RxCapacity - Len(receive_buffer)
    BY <1>1, <1>5, SpaceSuffices DEF TypeOK
  <2> QED
    BY <1>1, <1>4, <2>1, AckBound
<1>7. Receiving(0)'
  <2>1. Taken' = 0
    BY <1>4, <1>5 DEF Taken
  <2> QED
    BY <1>4, <1>6, <2>1, SpaceSuffices DEF Receiving
<1>8. Sending(0, 0)'
  <2>1. 1 + 0 + 0 = 1 /\ 0 <= 1 + Fins(0) /\ Len(<<>>) = 0
    BY SpaceSuffices DEF Fins
  <2> QED
    BY <1>4, <1>5, <2>1 DEF Sending
<1>9. SentOK(0)'
  BY <1>1, <1>6 DEF NotSynced, SentOK
<1>10. StreamsOK'
  BY <1>1, <1>4 DEF StreamsOK, Run
<1>11. 0 \in 0 .. PeerBytes + 1 /\ 0 \in 0 .. 3
  BY SpaceSuffices
<1> QED
  BY <1>4, <1>7, <1>8, <1>9, <1>10, <1>11 DEF IInv, Synced

(* Where in the peer's stream an expected segment is, and how much of it   *)
(* the buffer has room for: all, but for a byte beyond the window.         *)
LEMMA ExpectedPart ==
    ASSUME TypeOK, NEW r \in 0 .. PeerBytes + 1, Receiving(r),
           NEW m \in FromPeer, "RST" \notin m.flags, Expected(m)
    PROVE  /\ r <= PeerBytes /\ m.data \in Seq(Nat) /\ Run(m.data, r)
           /\ Len(m.data) <= PeerBytes - r
           /\ Len(m.data) <= RxCapacity - Len(receive_buffer) + Probe
           /\ m.flags = {"ACK"} \/ (m.flags = {"FIN", "ACK"} /\ Len(m.data) = PeerBytes - r)
<1>1. m.seq = Plus(PeerIsn, 1 + r) /\ edge <= r + RxCapacity - Len(receive_buffer)
  BY DEF Expected, Receiving
<1>2. r \in Nat /\ 1 + r \in Seqs /\ 0 \in Seqs /\ PeerIsn \in Seqs /\ PeerBytes \in Nat
  BY SpaceSuffices DEF Seqs
<1>3. m.seq # PeerIsn
  <2>1. Plus(PeerIsn, 0) = PeerIsn
    BY <1>2, SpaceSuffices, PlusByCase DEF Seqs
  <2> QED
    BY <1>1, <1>2, <2>1, PlusInjective
<1>4. PICK from \in 1 .. PeerBytes + 1, to \in 0 .. PeerBytes, k \in 0 .. PeerHas :
         PartOfStream(m, from, to, k)
  BY <1>3, PeerSegments
<1>5. from = 1 + r
  <2>1. from \in Seqs
    BY <1>2, SpaceSuffices DEF Seqs
  <2> QED
    BY <1>1, <1>2, <1>4, <2>1, PlusInjective DEF PartOfStream
<1>6. m.data \in Seq(Nat)
  BY PeerSegments DEF Segments
<1>7. /\ Len(m.data) = (IF from <= to THEN to - from + 1 ELSE 0)
      /\ Run(m.data, from - 1) /\ to <= edge + Probe
      /\ m.flags = {"ACK"} \/ (m.flags = {"FIN", "ACK"} /\ to = PeerBytes)
  BY <1>4 DEF PartOfStream
<1>8. /\ from - 1 = r /\ edge \in Nat /\ Probe \in Nat /\ RxCapacity \in Nat
      /\ Len(receive_buffer) \in Nat /\ Len(receive_buffer) <= RxCapacity
  BY <1>2, <1>5, SpaceSuffices, LenProperties DEF TypeOK, Probe
<1> QED
  BY <1>1, <1>2, <1>5, <1>6, <1>7, <1>8

(* How far an expected segment takes the stream.                           *)
LEMMA AcceptStep ==
    ASSUME TypeOK, StreamsOK, NEW r \in 0 .. PeerBytes + 1, Receiving(r),
           NEW m \in FromPeer, "RST" \notin m.flags, Expected(m), Accept(m), read' = read,
           SendAck(receive_next', receive_buffer') \/ UNCHANGED <<sent, edge>>
    PROVE  /\ Run(receive_buffer', Len(read')) /\ sent' = sent
           /\ state' # state => state' \in {"TIME_WAIT", "CLOSE_WAIT"}
           /\ \E q \in r .. PeerBytes + 1 :
                 /\ Receiving(q)'
                 /\ state' # state => Fins(q) >= Fins(r) + 1
<1> DEFINE room == RxCapacity - Len(receive_buffer)
           taken == AcceptedPart(m)
           n == Len(taken)
           fin == IF "FIN" \in m.flags THEN 1 ELSE 0
           q == r + (n + fin)
<1>1. /\ r <= PeerBytes /\ m.data \in Seq(Nat) /\ Run(m.data, r)
      /\ Len(m.data) <= PeerBytes - r /\ Len(m.data) <= room + Probe
      /\ m.flags = {"ACK"} \/ (m.flags = {"FIN", "ACK"} /\ Len(m.data) = PeerBytes - r)
  BY ExpectedPart
<1>2. /\ room \in Nat /\ Len(receive_buffer) \in Nat /\ receive_buffer \in Seq(Nat)
      /\ Len(read) \in Nat /\ edge \in Nat /\ RxCapacity \in Nat /\ r \in Nat
      /\ Len(receive_buffer) <= RxCapacity /\ PeerBytes \in Nat \ {0} /\ fin \in 0 .. 1
      /\ fin = 1 => Len(m.data) = PeerBytes - r
  <2>1. "FIN" \notin {"ACK"}
    OBVIOUS
  <2>2. fin \in 0 .. 1 /\ (fin = 1 => Len(m.data) = PeerBytes - r)
    BY <1>1, <2>1
  <2>3. Len(receive_buffer) \in Nat /\ Len(read) \in Nat
    BY LenProperties DEF TypeOK
  <2> QED
    BY <2>2, <2>3, SpaceSuffices DEF TypeOK
<1>3. /\ taken \in Seq(Nat) /\ Run(taken, r)
      /\ n = IF Len(m.data) < room THEN Len(m.data) ELSE room
  <2> DEFINE k == IF Len(m.data) < room THEN Len(m.data) ELSE room
  <2>1. k \in 0 .. Len(m.data)
    BY <1>1, <1>2
  <2>2. taken = SubSeq(m.data, 1, k)
    BY DEF AcceptedPart
  <2> HIDE DEF k
  <2>3. /\ SubSeq(m.data, 1, k) \in Seq(Nat) /\ Len(SubSeq(m.data, 1, k)) = k
        /\ Run(SubSeq(m.data, 1, k), r)
    <3> HIDE DEF room, taken, n, fin, q
    <3> QED
      BY <1>1, <1>2, <2>1, RunOfParts
  <2> HIDE DEF taken
  <2>4. n = k
    BY <2>2, <2>3
  <2> QED
    BY <2>2, <2>3, <2>4 DEF k
<1>4. /\ receive_buffer' = receive_buffer \o taken
      /\ receive_next' = Plus(receive_next, n + fin)
      /\ fin = 0 => state' = state
      /\ state' # state => state' \in {"TIME_WAIT", "CLOSE_WAIT"}
  BY DEF Accept, AcceptedPart
<1> HIDE DEF taken, fin
<1>5. /\ n \in Nat /\ n <= PeerBytes - r
      /\ n = Len(m.data) \/ (ProbesWindow /\ n = Len(m.data) - 1)
  <2>1. Len(m.data) \in Nat
    BY <1>1, LenProperties
  <2>2. Probe = 0 \/ (ProbesWindow /\ Probe = 1)
    BY DEF Probe
  <2>3. /\ room \in Nat /\ PeerBytes \in Nat /\ r \in Nat /\ Len(m.data) <= PeerBytes - r
        /\ Len(m.data) <= room + Probe
        /\ n = IF Len(m.data) < room THEN Len(m.data) ELSE room
    BY <1>1, <1>2, <1>3
  <2> HIDE DEF n, room
  <2>4. CASE Len(m.data) <= room
    BY <2>1, <2>3, <2>4
  <2>5. CASE Len(m.data) > room
    <3>1. Probe = 1 /\ ProbesWindow /\ Len(m.data) = room + 1 /\ n = room
      BY <2>1, <2>2, <2>3, <2>5
    <3> QED
      BY <2>3, <3>1
  <2> QED
    BY <2>1, <2>3, <2>4, <2>5
<1>6. /\ Taken = (IF r > PeerBytes THEN PeerBytes ELSE r)
         \/ (ProbesWindow /\ r >= PeerBytes /\ Taken = PeerBytes - 1)
      /\ receive_next = Plus(PeerIsn, 1 + r)
      /\ edge <= r + RxCapacity - Len(receive_buffer)
      /\ state \in {"CLOSE_WAIT", "TIME_WAIT"} =>
            r = PeerBytes + 1 \/ (ProbesWindow /\ r = PeerBytes)
  BY DEF Receiving
<1>7. /\ receive_buffer' \in Seq(Nat) /\ Len(receive_buffer') = Len(receive_buffer) + n
      /\ Run(receive_buffer', Len(read))
  <2>1. Run(receive_buffer, Len(read))
    BY DEF StreamsOK
  <2>2. Run(taken, Len(read) + Len(receive_buffer))
    <3>1. CASE n = 0
      <4>1. 1 .. n = {}
        BY <3>1
      <4> QED
        BY <4>1 DEF Run
    <3>2. CASE n # 0
      <4>1. Taken = r
        BY <1>2, <1>5, <1>6, <3>2
      <4> QED
        BY <1>3, <4>1 DEF Taken
    <3> QED
      BY <3>1, <3>2
  <2> QED
    BY <1>2, <1>3, <1>4, <2>1, <2>2, RunOfConcat
<1>8. Taken' = Taken + n
  <2> HIDE DEF n
  <2> QED
    BY <1>2, <1>5, <1>7 DEF Taken
<1> HIDE DEF n
<1>9. /\ q \in r .. PeerBytes + 1
      /\ Taken' = (IF q > PeerBytes THEN PeerBytes ELSE q)
         \/ (ProbesWindow /\ q >= PeerBytes /\ Taken' = PeerBytes - 1)
      /\ edge <= q + RxCapacity - Len(receive_buffer')
      /\ fin = 1 => q = PeerBytes + 1 \/ (ProbesWindow /\ q = PeerBytes /\ r < PeerBytes)
      /\ fin = 0 /\ r >= PeerBytes => q = r
  <2>1. Taken \in Nat /\ Len(m.data) \in Nat
    BY <1>1, <1>2, LenProperties DEF Taken
  <2> QED
    BY SMTT(30), <1>1, <1>2, <1>5, <1>6, <1>7, <1>8, <2>1
<1>10. receive_next' = Plus(PeerIsn, 1 + q)
  <2>1. /\ 1 + r \in Nat /\ n + fin \in Nat /\ (1 + r) + (n + fin) < SeqSpace
        /\ (1 + r) + (n + fin) = 1 + q
    <3>1. r \in Nat /\ n \in Nat /\ fin \in 0 .. 1 /\ PeerBytes \in Nat /\ r + n <= PeerBytes
      BY <1>2, <1>5
    <3>2. PeerBytes + 4 <= SeqSpace /\ SeqSpace \in Nat
      BY SpaceSuffices
    <3> QED
      BY <3>1, <3>2
  <2>2. Plus(Plus(PeerIsn, 1 + r), n + fin) = Plus(PeerIsn, (1 + r) + (n + fin))
    BY <2>1, PlusPlus, SpaceSuffices
  <2> QED
    BY <1>4, <1>6, <2>1, <2>2
<1>11. edge' <= q + RxCapacity - Len(receive_buffer') /\ sent' = sent
  <2>1. q \in 0 .. PeerBytes + 1 /\ Len(receive_buffer') <= RxCapacity
    <3>1. /\ n \in Nat /\ n <= room /\ Len(receive_buffer') = Len(receive_buffer) + n
          /\ Len(receive_buffer) \in Nat /\ RxCapacity \in Nat
      BY <1>2, <1>3, <1>5, <1>7, <1>1
    <3>2. Len(receive_buffer') <= RxCapacity
      BY <3>1
    <3> QED
      BY <1>2, <1>9, <3>2
  <2>2. SendAck(Plus(PeerIsn, 1 + q), receive_buffer') \/ UNCHANGED <<sent, edge>>
    BY <1>10
  <2> HIDE DEF q
  <2> QED
    BY <1>7, <1>9, <2>1, <2>2, AckBound
<1>12. state' \in {"CLOSE_WAIT", "TIME_WAIT"} =>
          q = PeerBytes + 1 \/ (ProbesWindow /\ q = PeerBytes)
  BY SMTT(30), <1>1, <1>2, <1>4, <1>6, <1>9
<1>13. state' # state => Fins(q) >= Fins(r) + 1
  BY <1>1, <1>2, <1>4, <1>9 DEF Fins
<1>14. q \in r .. PeerBytes + 1
  BY <1>9
<1> HIDE DEF q
<1>15. PICK p : p = q
  OBVIOUS
<1>16. Receiving(p)'
  BY <1>9, <1>10, <1>11, <1>12, <1>15 DEF Receiving
<1> QED
  BY <1>4, <1>7, <1>11, <1>13, <1>14, <1>15, <1>16

(* The timer stops in an open connection only when the peer has it all.    *)
LEMMA AcknowledgedAll ==
    ASSUME TypeOK, StreamsOK, NEW r \in 0 .. PeerBytes + 1, NEW f \in 0 .. 3, Sending(r, f),
           NEW m \in FromPeer, "RST" \notin m.flags, Acknowledge(m),
           state = "ESTABLISHED", outstanding' = Nothing
    PROVE  Len(accepted) = written
<1>1. /\ f = 0 /\ send_next = Plus(Isn, 1 + written) /\ peer # "eof"
      /\ written \in 0 .. MaxSend /\ MaxSend \in Nat
      /\ Len(accepted) \in Nat /\ Len(accepted) <= written
      /\ outstanding = Nothing => Len(accepted) = written
  <2>1. Len(accepted) \in Nat /\ written \in 0 .. MaxSend /\ MaxSend \in Nat
    BY LenProperties, SpaceSuffices DEF TypeOK
  <2>2. f = 0 /\ 1 + written + 0 = 1 + written
    BY <2>1 DEF Sending
  <2> QED
    BY <2>1, <2>2 DEF Sending, StreamsOK
<1>2. CASE outstanding = Nothing
  BY <1>1, <1>2
<1>3. CASE outstanding # Nothing
  <2>1. m.ack = Plus(Isn, 1 + written)
    BY <1>1, <1>3 DEF Acknowledge, AllAcknowledged
  <2>2. PICK k \in 0 .. PeerHas : m.ack = Plus(Isn, 1 + k)
    <3>1. PeerHas = Len(accepted)
      BY <1>1 DEF PeerHas
    <3>2. 0 \in 0 .. PeerHas /\ 1 + 0 = 1
      BY <1>1, <3>1
    <3> QED
      BY <3>2, PeerSegments DEF PartOfStream
  <2>3. k \in Nat /\ k <= Len(accepted)
    BY <1>1 DEF PeerHas
  <2>4. 1 + k \in Seqs /\ 1 + written \in Seqs /\ Isn \in Seqs
    BY <1>1, <2>3, SpaceSuffices DEF Seqs
  <2>5. 1 + k = 1 + written
    BY <2>1, <2>2, <2>4, PlusInjective
  <2> QED
    BY <1>1, <2>3, <2>5
<1> QED
  BY <1>2, <1>3

LEMMA SegmentStep == ASSUME IInv, TypeOK', ReceiveSegment PROVE IInv'
<1>1. TypeOK /\ StreamsOK /\ (NotSynced \/ Synced) /\ state # "CLOSED"
  BY DEF IInv, ReceiveSegment
<1>2. PICK m \in FromPeer :
        /\ "RST" \notin m.flags /\ (state = "SYN_SENT" => ~IsSynAck(m)) /\ Acknowledge(m)
        /\ IF Expected(m) THEN Accept(m) ELSE UNCHANGED <<receive_buffer, receive_next, state>>
        /\ IF m.data # <<>> \/ "FIN" \in m.flags
           THEN SendAck(receive_next', receive_buffer') ELSE UNCHANGED <<sent, edge>>
  BY DEF ReceiveSegment
<1>3. UNCHANGED <<send_next, pc, read, written, accepted, peer>>
  BY DEF ReceiveSegment, peerVars
<1>4. CASE NotSynced
  <2>1. /\ edge = 0 /\ receive_buffer = <<>> /\ receive_next = 0
        /\ state \in {"CLOSED", "SYN_SENT", "RESET"}
    BY <1>4 DEF NotSynced
  <2>2. m.flags = {"SYN", "ACK"} /\ m.data = <<>>
    <3>1. \A from \in 1 .. PeerBytes + 1, to \in 0 .. PeerBytes, k \in 0 .. PeerHas :
             ~PartOfStream(m, from, to, k)
      BY <2>1 DEF PartOfStream
    <3> QED
      BY <1>1, <1>2, <3>1, PeerSegments
  <2>3. state = "RESET" /\ UNCHANGED <<sent, edge>>
    BY <1>1, <1>2, <2>1, <2>2 DEF IsSynAck
  <2>4. UNCHANGED <<receive_buffer, receive_next, state>>
    <3>1. CASE Expected(m)
      <4>1. RxCapacity - Len(<<>>) = RxCapacity /\ RxCapacity > 0 /\ RxCapacity \in Nat
        BY SpaceSuffices
      <4>2. AcceptedPart(m) = <<>> /\ Len(AcceptedPart(m)) = 0
        BY <2>1, <2>2, <4>1 DEF AcceptedPart
      <4>3. /\ receive_buffer' = receive_buffer \o AcceptedPart(m)
            /\ receive_next' = Plus(receive_next, Len(AcceptedPart(m)) + 0) /\ state' = state
        BY <1>2, <2>2, <3>1 DEF Accept, AcceptedPart
      <4>4. Plus(0, 0) = 0
        <5>1. 0 \in Seqs /\ 0 \in 0 .. SeqSpace
          BY SpaceSuffices DEF Seqs
        <5> QED
          BY <5>1, PlusByCase, SpaceSuffices DEF Seqs
      <4>5. <<>> \o <<>> = <<>> /\ 0 + 0 = 0
        OBVIOUS
      <4> QED
        BY <2>1, <4>2, <4>3, <4>4, <4>5
    <3> QED
      BY <1>2, <3>1
  <2>5. NotSynced'
    BY <1>3, <1>4, <2>3, <2>4 DEF NotSynced
  <2>6. StreamsOK'
    BY <1>1, <1>3, <2>4 DEF StreamsOK, Run
  <2> QED
    BY <2>5, <2>6 DEF IInv
<1>5. CASE Synced
  <2>1. PICK r \in 0 .. PeerBytes + 1, f \in 0 .. 3 : Receiving(r) /\ Sending(r, f) /\ SentOK(f)
    BY <1>5 DEF Synced
  <2>2. /\ Run(receive_buffer', Len(read')) /\ sent' = sent
        /\ state' # state => state' \in {"TIME_WAIT", "CLOSE_WAIT"}
        /\ \E q \in r .. PeerBytes + 1 :
              Receiving(q)' /\ (state' # state => Fins(q) >= Fins(r) + 1)
    <3>1. CASE Expected(m)
      BY <1>1, <1>2, <1>3, <2>1, <3>1, AcceptStep
    <3>2. CASE ~Expected(m)
      <4>1. UNCHANGED <<receive_buffer, receive_next, state, read>>
        BY <1>2, <1>3, <3>2
      <4>2. /\ receive_next = Plus(PeerIsn, 1 + r)
            /\ edge <= r + RxCapacity - Len(receive_buffer)
        BY <2>1 DEF Receiving
      <4>3. edge' <= r + RxCapacity - Len(receive_buffer) /\ sent' = sent
        <5>1. /\ receive_buffer \in Seq(Nat) /\ Len(receive_buffer) <= RxCapacity
              /\ SendAck(Plus(PeerIsn, 1 + r), receive_buffer) \/ UNCHANGED <<sent, edge>>
          BY <1>1, <1>2, <4>1, <4>2 DEF TypeOK
        <5> QED
          BY <1>1, <4>2, <5>1, AckBound
      <4>4. Receiving(r)'
        BY <2>1, <4>1, <4>3 DEF Receiving, Taken
      <4>5. Run(receive_buffer', Len(read'))
        BY <1>1, <4>1 DEF StreamsOK, Run
      <4>6. r \in r .. PeerBytes + 1
        BY SpaceSuffices
      <4> QED
        BY <4>1, <4>3, <4>4, <4>5, <4>6
    <3> QED
      BY <3>1, <3>2
  <2>3. PICK q \in r .. PeerBytes + 1 :
           Receiving(q)' /\ (state' # state => Fins(q) >= Fins(r) + 1)
    BY <2>2
  <2>4. /\ q \in 0 .. PeerBytes + 1 /\ Fins(q) \in Nat /\ Fins(r) \in Nat /\ Fins(q) >= Fins(r)
        /\ Fins(q)' = Fins(q)
    BY SpaceSuffices DEF Fins
  <2>5. state' = "ESTABLISHED" /\ outstanding' = Nothing => Len(accepted) = written
    BY <1>1, <1>2, <2>1, <2>2, AcknowledgedAll
  <2>6. Sending(q, f)'
    <3>1. /\ send_next' = Plus(Isn, 1 + written' + f)
          /\ state' = "ESTABLISHED" => f = 0
          /\ pc' = "close" => f >= 1
          /\ peer' = "eof" => f >= 1 /\ Len(accepted') = written'
      BY <1>3, <2>1, <2>2 DEF Sending
    <3>2. f <= 1 + Fins(q) /\ (state' = "CLOSE_WAIT" => f <= Fins(q))
      <4>1. f <= 1 + Fins(r) /\ (state = "CLOSE_WAIT" => f <= Fins(r))
        BY <2>1 DEF Sending
      <4> QED
        BY <2>3, <2>4, <4>1
    <3> QED
      BY <1>3, <2>4, <2>5, <3>1, <3>2 DEF Sending
  <2>7. SentOK(f)'
    BY <1>3, <2>1, <2>2 DEF SentOK, InStream, AtEnd, Run
  <2>8. StreamsOK'
    BY <1>1, <1>3, <2>2 DEF StreamsOK, Run
  <2>9. state' # "SYN_SENT"
    BY <1>5, <2>2 DEF Synced
  <2> QED
    BY <2>3, <2>4, <2>6, <2>7, <2>8, <2>9 DEF IInv, Synced
<1> QED
  BY <1>1, <1>4, <1>5

(* What the peer takes is the next part of the stream, and the first FIN.  *)
LEMMA PeerStep == ASSUME IInv, TypeOK', PeerReceive PROVE IInv'
<1>1. TypeOK /\ StreamsOK /\ (NotSynced \/ Synced)
  BY DEF IInv
<1>2. PICK m \in sent :
        \/ "SYN" \in m.flags /\ peer = "listen" /\ peer' = "open" /\ accepted' = accepted
        \/ /\ "ACK" \in m.flags /\ peer = "open" /\ m.seq = Plus(Isn, 1 + Len(accepted))
           /\ accepted' = accepted \o m.data
           /\ peer' = IF "FIN" \in m.flags THEN "eof" ELSE "open"
  BY DEF PeerReceive
<1>3. UNCHANGED <<state, send_next, receive_next, outstanding, receive_buffer, pc, read, sent,
                  edge, written>>
  BY DEF PeerReceive, endpoint
<1>4. CASE peer' = "open" /\ accepted' = accepted
  <2>1. StreamsOK'
    BY <1>1, <1>3, <1>4 DEF StreamsOK, Run
  <2>2. NotSynced => NotSynced'
    BY <1>3, <1>4 DEF NotSynced
  <2>3. ASSUME NEW r \in 0 .. PeerBytes + 1, NEW f \in 0 .. 3,
               Receiving(r) /\ Sending(r, f) /\ SentOK(f)
        PROVE  Receiving(r)' /\ Sending(r, f)' /\ SentOK(f)'
    <3>1. Receiving(r)'
      BY <1>3, <1>4, <2>3 DEF Receiving, Taken
    <3>2. Sending(r, f)'
      BY <1>3, <1>4, <2>3 DEF Sending, Fins
    <3>3. SentOK(f)'
      BY <1>3, <1>4, <2>3 DEF SentOK, InStream, AtEnd, Run
    <3> QED
      BY <3>1, <3>2, <3>3
  <2>4. Synced => Synced'
    BY <1>3, <2>3 DEF Synced
  <2> QED
    BY <1>1, <2>1, <2>2, <2>4 DEF IInv
<1>5. CASE /\ "ACK" \in m.flags /\ peer = "open" /\ m.seq = Plus(Isn, 1 + Len(accepted))
           /\ accepted' = accepted \o m.data
           /\ peer' = IF "FIN" \in m.flags THEN "eof" ELSE "open"
  <2>1. PICK r \in 0 .. PeerBytes + 1, f \in 0 .. 3 : Receiving(r) /\ Sending(r, f) /\ SentOK(f)
    BY <1>1, <1>5 DEF NotSynced, Synced
  <2>2. /\ m.data \in Seq(Nat) /\ accepted \in Seq(Nat) /\ Len(accepted) \in Nat
        /\ written \in 0 .. MaxSend /\ MaxSend \in Nat /\ Len(accepted) <= written
        /\ Run(accepted, 0) /\ 1 + Len(accepted) \in Seqs /\ Isn \in Seqs
    <3>1. m.data \in Seq(Nat) /\ accepted \in Seq(Nat) /\ written \in 0 .. MaxSend
      BY <1>1 DEF TypeOK, Segments
    <3>2. Len(accepted) \in Nat /\ Len(accepted) <= written /\ Run(accepted, 0)
      BY <1>1, <3>1, LenProperties DEF StreamsOK
    <3> QED
      BY <3>1, <3>2, SpaceSuffices DEF Seqs
  <2>3. /\ accepted' \in Seq(Nat) /\ Len(accepted') <= written /\ Run(accepted', 0)
        /\ peer' = "eof" => f >= 1 /\ Len(accepted') = written
        /\ Len(accepted) = written => Len(accepted') = written
    <3>1. CASE InStream(m)
      <4>1. PICK a \in 0 .. written :
               m.seq = Plus(Isn, 1 + a) /\ Len(m.data) <= written - a /\ Run(m.data, a)
        BY <3>1 DEF InStream
      <4>2. 1 + a \in Seqs
        BY <2>2, SpaceSuffices DEF Seqs
      <4>3. 1 + a = 1 + Len(accepted)
        BY <1>5, <2>2, <4>1, <4>2, PlusInjective
      <4>4. a = 0 + Len(accepted) /\ Len(m.data) \in Nat
        BY <2>2, <4>3, LenProperties
      <4>5. /\ accepted' \in Seq(Nat) /\ Len(accepted') = Len(accepted) + Len(m.data)
            /\ Run(accepted', 0)
        <5>1. Run(m.data, 0 + Len(accepted))
          BY <4>1, <4>4
        <5> QED
          BY <1>5, <2>2, <5>1, RunOfConcat
      <4>6. peer' = "open"
        BY <1>5, <3>1 DEF InStream
      <4> QED
        BY <2>2, <4>1, <4>4, <4>5, <4>6
    <3>2. CASE AtEnd(m, f)
      <4>1. PICK k \in 0 .. f - 1 : m.data = <<>> /\ m.seq = Plus(Isn, 1 + written + k)
        BY <3>2 DEF AtEnd
      <4>2. 1 + written + k \in Seqs /\ k \in 0 .. 2 /\ f >= 1
        BY <2>2, SpaceSuffices DEF Seqs
      <4>3. 1 + written + k = 1 + Len(accepted)
        BY <1>5, <2>2, <4>1, <4>2, PlusInjective
      <4>4. Len(accepted) = written
        BY <2>2, <4>2, <4>3
      <4>5. accepted' = accepted
        BY <1>5, <2>2, <4>1, ConcatEmptySeq
      <4> QED
        BY <2>2, <4>2, <4>4, <4>5
    <3> QED
      BY <1>5, <2>1, <3>1, <3>2 DEF SentOK
  <2>4. StreamsOK'
    <3>1. peer' # "listen"
      BY <1>5
    <3> QED
      BY <1>1, <1>3, <2>3, <3>1 DEF StreamsOK, Run
  <2>5. Sending(r, f)'
    BY <1>3, <2>1, <2>3 DEF Sending, Fins
  <2>6. Receiving(r)'
    BY <1>3, <2>1 DEF Receiving, Taken
  <2>8. SentOK(f)'
    BY <1>3, <2>1 DEF SentOK, InStream, AtEnd, Run
  <2>7. state' # "SYN_SENT"
    BY <1>1, <1>3, <1>5 DEF NotSynced, Synced
  <2> QED
    BY <2>4, <2>5, <2>6, <2>7, <2>8 DEF IInv, Synced
<1> QED
  BY <1>2, <1>4, <1>5

LEMMA InvariantStep == IInv /\ [Next]_vars => IInv'
<1> SUFFICES ASSUME IInv, [Next]_vars PROVE IInv'
  OBVIOUS
<1>1. TypeOK'
  BY TypeStep DEF IInv
<1>2. CASE Connect \/ Send \/ Read \/ Close
  BY <1>1, <1>2, ConnectStep, SendStep, ReadStep, CloseStep
<1>3. CASE ReadWait
  BY <1>1, <1>3, QuietStep DEF ReadWait, endpoint, peerVars
<1>4. CASE Return
  <2>1. CASE ConnectReturns
    BY <1>1, <2>1, QuietStep DEF ConnectReturns, peerVars
  <2>2. CASE SendReturns
    BY <1>1, <2>2, QuietStep DEF SendReturns, endpoint, peerVars
  <2>3. CASE ReadWaitReturns
    BY <1>1, <2>3, QuietStep DEF ReadWaitReturns, endpoint, peerVars
  <2>4. CASE CloseReturns
    BY <1>1, <2>4, QuietStep DEF CloseReturns, peerVars
  <2> QED
    BY <1>4, <2>1, <2>2, <2>3, <2>4 DEF Return
<1>5. CASE Poll
  <2>1. CASE Retransmit
    BY <1>1, <2>1, QuietStep DEF Retransmit, peerVars
  <2>2. CASE GiveUp
    BY <1>1, <2>2, QuietStep DEF GiveUp, peerVars
  <2> QED
    BY <1>5, <2>1, <2>2 DEF Poll
<1>6. CASE ReceiveReset
  BY <1>1, <1>6, QuietStep DEF ReceiveReset, peerVars
<1>7. CASE ReceiveSynAck \/ ReceiveSegment \/ PeerReceive
  BY <1>1, <1>7, SynAckStep, SegmentStep, PeerStep
<1>8. CASE UNCHANGED vars
  BY <1>1, <1>8, QuietStep DEF vars, endpoint, peerVars
<1> QED
  BY <1>2, <1>3, <1>4, <1>5, <1>6, <1>7, <1>8 DEF Next, Call, Receive

-----------------------------------------------------------------------------
(* The theorems.                                                           *)

(* The inductive invariant holds: the segments and calls of tcp.c keep the *)
(* four sequence variables, the two streams and the segments in the        *)
(* network in the relation that the other theorems follow from.            *)
THEOREM Invariant == Spec => []IInv
<1>1. Init => IInv
  <2> SUFFICES ASSUME Init PROVE IInv
    OBVIOUS
  <2>1. TypeOK
    BY TypeInit
  <2>2. StreamsOK
    BY DEF Init, StreamsOK, Run
  <2>3. NotSynced
    BY DEF Init, NotSynced
  <2> QED
    BY <2>1, <2>2, <2>3 DEF IInv
<1> QED
  BY <1>1, InvariantStep, PTL DEF Spec

(* Every variable of tcp.c's connection keeps its type: sequence numbers   *)
(* stay in their width, the buffer within receive_buffer, the              *)
(* retransmissions within TCP_MAX_RETRIES.                                 *)
THEOREM Types == Spec => []TypeOK
<1>1. IInv => TypeOK
  BY DEF IInv
<1> QED
  BY <1>1, Invariant, PTL

(* A sequence of bytes from the first one on, as far as a stream goes.     *)
LEMMA RunIsPrefix ==
    ASSUME NEW s \in Seq(Nat), NEW n \in Nat, Run(s, 0), Len(s) <= n
    PROVE  /\ IsPrefix(s, [i \in 1 .. n |-> i])
           /\ Len(s) = n => s = [i \in 1 .. n |-> i]
<1> DEFINE t == [i \in 1 .. n |-> i]
<1>1. t \in Seq(Nat) /\ Len(t) = n /\ (\A i \in 1 .. n : t[i] = i)
  OBVIOUS
<1>2. Len(s) \in Nat /\ (\A i \in 1 .. Len(s) : s[i] = i)
  BY DEF Run
<1> HIDE DEF t
<1>3. SubSeq(s, 1, Len(s)) = SubSeq(t, 1, Len(s))
  BY <1>1, <1>2
<1>4. Len(s) = n => s = t
  BY <1>1, <1>2, SeqEqual
<1> QED
  BY <1>1, <1>3, <1>4 DEF IsPrefix, t

LEMMA TakenIsRun ==
    ASSUME IInv
    PROVE  /\ read \o receive_buffer \in Seq(Nat) /\ Run(read \o receive_buffer, 0)
           /\ Len(read \o receive_buffer) = Taken /\ Taken \in Nat /\ Taken <= PeerBytes
<1>1. read \in Seq(Nat) /\ receive_buffer \in Seq(Nat)
  BY DEF IInv, TypeOK
<1>2. Len(read) \in Nat /\ Len(receive_buffer) \in Nat
  BY <1>1, LenProperties
<1>3. Run(read, 0) /\ Run(receive_buffer, 0 + Len(read))
  BY <1>2 DEF IInv, StreamsOK
<1>4. Taken <= PeerBytes
  <2>1. CASE NotSynced
    BY <2>1, SpaceSuffices DEF NotSynced, Taken
  <2>2. CASE Synced
    BY <2>2, SpaceSuffices DEF Synced, Receiving
  <2> QED
    BY <2>1, <2>2 DEF IInv
<1> QED
  BY <1>1, <1>2, <1>3, <1>4, RunOfConcat DEF Taken

(* tcp_read hands over the peer's bytes once each and in order, whatever   *)
(* the network loses, repeats and reorders, for any sizes of the streams,  *)
(* of the buffer and of the sequence space, also when the peer probes a    *)
(* closed window.                                                          *)
THEOREM ReadInOrder == Spec => []ReadsInOrder
<1>1. IInv => ReadsInOrder
  BY TakenIsRun, RunIsPrefix, SpaceSuffices DEF ReadsInOrder, PeerStream
<1> QED
  BY <1>1, Invariant, PTL

(* The peer takes what tcp_send was given once and in order, and no FIN of *)
(* tcp_close is ever taken before it, although close replaces the segment  *)
(* that is retransmitted.                                                  *)
THEOREM SentInOrder == Spec => []PeerReadsInOrder
<1>1. ASSUME IInv PROVE PeerReadsInOrder
  <2>1. /\ accepted \in Seq(Nat) /\ written \in Nat /\ Run(accepted, 0)
        /\ Len(accepted) <= written
    BY <1>1, SpaceSuffices DEF IInv, TypeOK, StreamsOK
  <2>2. 1 .. written - 1 + 1 = 1 .. written /\ (\A i \in 1 .. written : 1 + i - 1 = i)
    BY <2>1
  <2>3. Iota(1, written) = [i \in 1 .. written |-> i]
    BY <2>2 DEF Iota
  <2>4. peer = "eof" => Len(accepted) = written
    BY <1>1 DEF IInv, NotSynced, Synced, Sending
  <2> QED
    BY <2>1, <2>3, <2>4, RunIsPrefix DEF PeerReadsInOrder
<1> QED
  BY <1>1, Invariant, PTL

(* What the peer may send fits receive_buffer whenever it arrives, if the  *)
(* peer keeps to the windows that tcp.c advertised: the room is never less *)
(* than what an earlier segment promised.                                  *)
THEOREM WindowIsKept == ASSUME ~ProbesWindow PROVE Spec => []WindowKept
<1>1. ASSUME IInv, state # "CLOSED", NEW m \in FromPeer, Expected(m)
      PROVE  Len(m.data) <= RxCapacity - Len(receive_buffer)
  <2>1. TypeOK /\ RxCapacity - Len(receive_buffer) \in Nat /\ Len(<<>>) = 0
    <3>1. TypeOK
      BY <1>1 DEF IInv
    <3>2. receive_buffer \in Seq(Nat) /\ Len(receive_buffer) <= RxCapacity
      BY <3>1 DEF TypeOK
    <3> QED
      BY <3>1, <3>2, SpaceSuffices
  <2>2. CASE m.data = <<>>
    BY <2>1, <2>2
  <2>3. CASE m.data # <<>>
    <3>1. edge > 0 /\ "RST" \notin m.flags
      BY <2>1, <2>3, PeerSegments DEF PartOfStream
    <3>2. Synced
      BY <1>1, <3>1 DEF IInv, NotSynced
    <3>3. PICK r \in 0 .. PeerBytes + 1 : Receiving(r)
      BY <3>2 DEF Synced
    <3>4. Len(m.data) <= RxCapacity - Len(receive_buffer) + Probe
      BY <1>1, <2>1, <3>1, <3>3, ExpectedPart
    <3> QED
      BY <2>1, <3>4 DEF Probe
  <2> QED
    BY <2>2, <2>3
<1>2. IInv => WindowKept
  BY <1>1 DEF WindowKept
<1> QED
  BY <1>2, Invariant, PTL

(* With such a peer, the states in which tcp_read_wait reports the end are *)
(* reached only when all the peer wrote was read or waits in the buffer.   *)
THEOREM EndIsTheEnd == ASSUME ~ProbesWindow PROVE Spec => []EofBehindAll
<1>1. ASSUME IInv, state \in {"CLOSE_WAIT", "TIME_WAIT"} PROVE read \o receive_buffer = PeerStream
  <2>1. Synced
    BY <1>1 DEF IInv, NotSynced
  <2>2. Taken = PeerBytes
    BY <1>1, <2>1, SpaceSuffices DEF Synced, Receiving
  <2> QED
    BY <1>1, <2>2, TakenIsRun, RunIsPrefix, SpaceSuffices DEF PeerStream
<1>2. IInv => EofBehindAll
  BY <1>1 DEF EofBehindAll
<1> QED
  BY <1>2, Invariant, PTL

(* tcp_send returns 0 in an established connection only when the peer has  *)
(* taken every byte that was ever sent on it.                              *)
THEOREM OkMeansTaken == Spec => SendOkWhileOpen
<1>1. ASSUME IInv, [Next]_vars
      PROVE  [SendReturnsOk /\ state = "ESTABLISHED" => Len(accepted) = written]_vars
  <2> SUFFICES ASSUME SendReturnsOk, state = "ESTABLISHED" PROVE Len(accepted) = written
    OBVIOUS
  <2>1. pc = "send" /\ pc' = "idle" /\ result' = "ok"
    BY DEF SendReturnsOk
  <2>2. ~Call
    BY <2>1 DEF Call, Connect, Send, Read, ReadWait, Close
  <2>3. ~Poll /\ ~Receive /\ ~PeerReceive /\ ~UNCHANGED vars
    BY <2>1 DEF Poll, Retransmit, GiveUp, Receive, ReceiveReset, ReceiveSynAck, ReceiveSegment,
                PeerReceive, vars
  <2>4. Return
    BY <1>1, <2>2, <2>3 DEF Next
  <2>5. outstanding = Nothing
    BY <2>1, <2>4 DEF Return, ConnectReturns, SendReturns, ReadWaitReturns, CloseReturns
  <2> QED
    BY <1>1, <2>1, <2>5 DEF IInv, NotSynced, Synced, Sending
<1> QED
  BY <1>1, Invariant, PTL DEF Spec, SendOkWhileOpen
=============================================================================
