---------------------------- MODULE NetworkProofs ----------------------------
(***************************************************************************)
(* For every number of hosts, leases, names, cache entries and retries:    *)
(* what the DHCP client, the resolver and the ping report of the network   *)
(* is what hosts said of this machine's own requests, however many answers *)
(* are lost, repeated and late.                                            *)
(*                                                                         *)
(* The state is one record that the operators of the model pass on from    *)
(* one to the other, so the invariant is a predicate of such a record, and *)
(* each operator is shown to preserve it.                                  *)
(*                                                                         *)
(* The last part is about the descriptor rings below, for every number of  *)
(* descriptors.                                                            *)
(***************************************************************************)
EXTENDS Network, E1000, SequenceTheorems, TLAPS

(* What the properties need of the frames that were sent.                  *)
Requested(wire, xid, address) ==
    \E f \in wire : f.t = "request" /\ f.xid = xid /\ f.address = address

Asked(wire, name) == \E f \in wire : f.t = "query" /\ f.name = name

Echoed(wire, id, to) == \E f \in wire : f.t = "echo" /\ f.id = id /\ f.to = to

FramesOK(wire) == \A f \in wire : f.t = "request" => f.address \in Leases

(* Whoever asks for an address or keeps one asks for one of the server's.  *)
DhcpOK(dhcp, cfg, wire, calls) ==
    /\ DOMAIN dhcp = {"state", "xid", "retries", "offered", "due", "age"}
    /\ dhcp.state \in States /\ dhcp.xid \in 0 .. 1 + calls /\ dhcp.retries \in 0 .. MaxRetries
    /\ cfg \in {"never", "zero"} \cup Leases
    /\ dhcp.state = "REQUESTING" => dhcp.offered \in Leases
    /\ dhcp.state \in Leased => cfg \in Leases /\ Requested(wire, dhcp.xid, cfg)

ArpOK(arp) ==
    /\ DOMAIN arp = {"slot", "next"} /\ arp.next \in 1 .. ArpSlots

(* A cached name was asked for.                                            *)
DnsOK(dns, wire) ==
    /\ DOMAIN dns = {"cache", "next"} /\ dns.next \in 1 .. DnsSlots
    /\ DOMAIN dns.cache = 1 .. DnsSlots
    /\ \A i \in 1 .. DnsSlots : dns.cache[i] # Nobody => Asked(wire, dns.cache[i])

(* A ping waits for a reply only after its request went out, and has a     *)
(* result only then; a lookup has a result only by the answer to a query.  *)
CallOK(call, wire, calls) ==
    \/ call = Idle
    \/ /\ DOMAIN call = {"op", "arg", "target", "id", "stage", "wait", "from", "result", "by",
                         "retried"}
       /\ call.op \in {"ping", "dns", "arp"} /\ call.id \in 0 .. calls - 1
       /\ call.op = "ping" =>
             /\ call.by = call.id
             /\ call.stage = "reply" => Echoed(wire, call.id, call.arg)
             /\ call.result # Nobody => call.stage = "reply"
       /\ call.op = "dns" =>
             /\ call.arg \in Names
             /\ call.result \in {Nobody, "failed"}
                \/ (call.result = call.arg /\ Asked(wire, call.arg))

LastOK(last, wire) ==
    /\ last.op = "dns" => last.answer = last.arg /\ Asked(wire, last.arg)
    /\ last.op = "ping" => last.by = last.id /\ Echoed(wire, last.id, last.arg)

Fields == {"link", "sent", "todo", "dhcp", "cfg", "arp", "dns", "call", "calls", "last", "phase"}

Good(n) ==
    /\ DOMAIN n = Fields /\ n.phase \in {"poll", "rest"} /\ n.calls \in Nat
    /\ FramesOK(n.sent) /\ DhcpOK(n.dhcp, n.cfg, n.sent, n.calls) /\ ArpOK(n.arp)
    /\ DnsOK(n.dns, n.sent) /\ CallOK(n.call, n.sent, n.calls) /\ LastOK(n.last, n.sent)

(* The addresses that the server grants are its leases.                    *)
GrantsLeases == \A xid \in Nat : Grants(xid) \in Leases

-----------------------------------------------------------------------------
(* What was sent stays sent.                                               *)
LEMMA MoreSent ==
    ASSUME NEW S, NEW T, S \subseteq T
    PROVE  /\ \A dhcp, cfg, calls : DhcpOK(dhcp, cfg, S, calls) => DhcpOK(dhcp, cfg, T, calls)
           /\ \A dns : DnsOK(dns, S) => DnsOK(dns, T)
           /\ \A call, calls : CallOK(call, S, calls) => CallOK(call, T, calls)
           /\ \A last : LastOK(last, S) => LastOK(last, T)
<1>1. /\ \A xid, address : Requested(S, xid, address) => Requested(T, xid, address)
      /\ \A name : Asked(S, name) => Asked(T, name)
      /\ \A id, to : Echoed(S, id, to) => Echoed(T, id, to)
  BY DEF Requested, Asked, Echoed
<1>2. ASSUME NEW dhcp, NEW cfg, NEW calls, DhcpOK(dhcp, cfg, S, calls)
      PROVE  DhcpOK(dhcp, cfg, T, calls)
  BY <1>1, <1>2 DEF DhcpOK
<1>3. ASSUME NEW dns, DnsOK(dns, S) PROVE DnsOK(dns, T)
  BY <1>1, <1>3 DEF DnsOK
<1>4. ASSUME NEW call, NEW calls, CallOK(call, S, calls) PROVE CallOK(call, T, calls)
  BY <1>1, <1>4 DEF CallOK
<1>5. ASSUME NEW last, LastOK(last, S) PROVE LastOK(last, T)
  BY <1>1, <1>5 DEF LastOK
<1> QED
  BY <1>2, <1>3, <1>4, <1>5

(* Sending changes nothing but what was sent, by frames that may be sent.  *)
Adds(n, m) ==
    m = n \/ \E S : n.sent \subseteq S /\ FramesOK(S) /\ m = [n EXCEPT !.sent = S]

MaySend(f) == f.t = "request" => f.address \in Leases

LEMMA AddsKeeps ==
    ASSUME NEW n, Good(n), NEW m, Adds(n, m)
    PROVE  /\ Good(m) /\ n.sent \subseteq m.sent
           /\ m.link = n.link /\ m.todo = n.todo /\ m.dhcp = n.dhcp /\ m.cfg = n.cfg
           /\ m.arp = n.arp /\ m.dns = n.dns /\ m.call = n.call /\ m.calls = n.calls
           /\ m.last = n.last /\ m.phase = n.phase
<1>1. CASE m = n
  BY <1>1
<1>2. ASSUME NEW S, n.sent \subseteq S, FramesOK(S), m = [n EXCEPT !.sent = S]
      PROVE  /\ DOMAIN m = Fields /\ m.sent = S
             /\ m.link = n.link /\ m.todo = n.todo /\ m.dhcp = n.dhcp /\ m.cfg = n.cfg
             /\ m.arp = n.arp /\ m.dns = n.dns /\ m.call = n.call /\ m.calls = n.calls
             /\ m.last = n.last /\ m.phase = n.phase
  BY <1>2 DEF Good, Fields
<1>3. ASSUME NEW S, n.sent \subseteq S, FramesOK(S), m = [n EXCEPT !.sent = S] PROVE Good(m)
  BY <1>2, <1>3, MoreSent DEF Good
<1> QED
  BY <1>1, <1>2, <1>3 DEF Adds

LEMMA TransmitAdds ==
    ASSUME NEW n, Good(n), NEW f, MaySend(f)
    PROVE  /\ Adds(n, Transmit(n, f).n)
           /\ Transmit(n, f).ok /\ AnswersTo(f) # {} => f \in Transmit(n, f).n.sent
<1>1. CASE n.link
  <2> DEFINE S == n.sent \cup Answerable(f)
  <2>1. Transmit(n, f).n = [n EXCEPT !.sent = S]
    BY <1>1 DEF Transmit, Sent
  <2>2. n.sent \subseteq S /\ FramesOK(S)
    BY DEF Good, FramesOK, MaySend, Answerable
  <2>3. AnswersTo(f) # {} => f \in S
    BY DEF Answerable
  <2> HIDE DEF S
  <2>4. [n EXCEPT !.sent = S].sent = S
    BY DEF Good, Fields
  <2> QED
    BY <2>1, <2>2, <2>3, <2>4 DEF Adds
<1>2. CASE ~n.link
  BY <1>2 DEF Transmit, Sent, Adds
<1> QED
  BY <1>1, <1>2

LEMMA IpSendAdds ==
    ASSUME NEW n, Good(n), NEW to, NEW f, MaySend(f)
    PROVE  /\ Adds(n, IpSend(n, to, f).n)
           /\ IpSend(n, to, f).ok /\ AnswersTo(f) # {} => f \in IpSend(n, to, f).n.sent
<1>1. CASE to = "all" \/ ArpKnows(n, Route(n, to))
  BY <1>1, TransmitAdds DEF IpSend
<1>2. CASE ~(to = "all" \/ ArpKnows(n, Route(n, to)))
  <2>1. MaySend(ArpRequest(Route(n, to)))
    BY DEF MaySend, ArpRequest
  <2>2. /\ ~IpSend(n, to, f).ok
        /\ IpSend(n, to, f).n \in {n, Transmit(n, ArpRequest(Route(n, to))).n}
    BY <1>2 DEF IpSend, Sent
  <2> QED
    BY <2>1, <2>2, TransmitAdds DEF Adds
<1> QED
  BY <1>1, <1>2

LEMMA ArpLearnKeeps ==
    ASSUME NEW n, Good(n), NEW address
    PROVE  /\ Good(ArpLearn(n, address))
           /\ ArpLearn(n, address).sent = n.sent /\ ArpLearn(n, address).dhcp = n.dhcp
<1>1. CASE ArpKnows(n, address)
  BY <1>1 DEF ArpLearn
<1>2. CASE ~ArpKnows(n, address)
  <2> DEFINE arp == [slot |-> [n.arp.slot EXCEPT ![n.arp.next] = address],
                     next |-> 1 + (n.arp.next % ArpSlots)]
             m == [n EXCEPT !.arp = arp]
  <2>1. ArpLearn(n, address) = m
    BY <1>2 DEF ArpLearn
  <2>2. ArpOK(arp)
    <3>1. ArpSlots \in Nat \ {0} /\ n.arp.next \in 1 .. ArpSlots
      BY NetworkAssumption DEF Good, ArpOK
    <3>2. 1 + (n.arp.next % ArpSlots) \in 1 .. ArpSlots
      BY <3>1
    <3> QED
      BY <3>2 DEF ArpOK
  <2> HIDE DEF arp
  <2> QED
    BY <2>1, <2>2 DEF Good, Fields
<1> QED
  BY <1>1, <1>2

-----------------------------------------------------------------------------
(* DHCP.                                                                   *)
LEMMA DhcpChange ==
    ASSUME NEW n, Good(n), NEW dhcp, DhcpOK(dhcp, n.cfg, n.sent, n.calls)
    PROVE  Good([n EXCEPT !.dhcp = dhcp]) /\ [n EXCEPT !.dhcp = dhcp].dhcp = dhcp
BY DEF Good, Fields

LEMMA DhcpSendKeeps ==
    ASSUME NEW n, Good(n), n.dhcp.state \in Negotiating \cup {"RENEWING", "REBINDING"}
    PROVE  Good(DhcpSend(n).n)
<1> DEFINE dhcp == [n.dhcp EXCEPT !.due = FALSE]
           m == [n EXCEPT !.dhcp = dhcp]
           to == IF n.dhcp.state = "RENEWING" THEN Gateway ELSE "all"
<1>1. DhcpSend(n) = IpSend(m, to, DhcpMessage(n))
  BY DEF DhcpSend
<1>2. DhcpOK(n.dhcp, n.cfg, n.sent, n.calls)
  BY DEF Good
<1>3. DhcpOK(dhcp, n.cfg, n.sent, n.calls)
  BY <1>2 DEF DhcpOK
<1>4. MaySend(DhcpMessage(n))
  BY <1>2 DEF MaySend, DhcpMessage, Discover, Request, DhcpOK, Negotiating, Leased
<1> HIDE DEF dhcp, to
<1>5. Good(m)
  BY <1>3, DhcpChange
<1> HIDE DEF m
<1> QED
  BY <1>1, <1>4, <1>5, IpSendAdds, AddsKeeps

LEMMA OrFailedKeeps == ASSUME NEW s, Good(s.n) PROVE Good(OrFailed(s))
<1> DEFINE dhcp == [s.n.dhcp EXCEPT !.state = "FAILED"]
<1>1. DhcpOK(dhcp, s.n.cfg, s.n.sent, s.n.calls)
  BY DEF Good, DhcpOK, States, Leased
<1>2. OrFailed(s) \in {s.n, [s.n EXCEPT !.dhcp = dhcp]}
  BY DEF OrFailed
<1> HIDE DEF dhcp
<1> QED
  BY <1>1, <1>2, DhcpChange

LEMMA DhcpStartKeeps ==
    ASSUME NEW n, Good(n), n.dhcp.xid <= n.calls
    PROVE  Good(DhcpStart(n))
<1>0. DhcpOK(n.dhcp, n.cfg, n.sent, n.calls) /\ n.calls \in Nat /\ 0 \in 0 .. MaxRetries
  BY NetworkAssumption DEF Good
<1>1. CASE ~n.link
  <2> DEFINE dhcp == [n.dhcp EXCEPT !.state = "FAILED"]
  <2>1. DhcpOK(dhcp, n.cfg, n.sent, n.calls)
    BY <1>0 DEF DhcpOK, States, Leased
  <2>2. DhcpStart(n) = [n EXCEPT !.dhcp = dhcp]
    BY <1>1 DEF DhcpStart
  <2> HIDE DEF dhcp
  <2> QED
    BY <2>1, <2>2, DhcpChange
<1>2. CASE n.link
  <2> DEFINE dhcp == [n.dhcp EXCEPT !.state = "DISCOVERING", !.xid = @ + 1, !.retries = 0,
                                    !.offered = Nobody]
             m == [n EXCEPT !.dhcp = dhcp]
  <2>1. DhcpOK(dhcp, n.cfg, n.sent, n.calls)
    BY <1>0 DEF DhcpOK, States, Leased
  <2>2. DhcpStart(n) = OrFailed(DhcpSend(m))
    BY <1>2 DEF DhcpStart
  <2>3. dhcp.state \in Negotiating
    BY <1>0 DEF Negotiating, DhcpOK
  <2> HIDE DEF dhcp
  <2>4. Good(m) /\ m.dhcp = dhcp
    BY <2>1, DhcpChange
  <2> HIDE DEF m
  <2>5. Good(DhcpSend(m).n)
    BY <2>3, <2>4, DhcpSendKeeps
  <2> QED
    BY <2>2, <2>5, OrFailedKeeps
<1> QED
  BY <1>1, <1>2

LEMMA DhcpPollKeeps == ASSUME NEW n, Good(n) PROVE Good(DhcpPoll(n))
<1>0. DhcpOK(n.dhcp, n.cfg, n.sent, n.calls) /\ n.calls \in Nat /\ MaxRetries \in Nat
  BY NetworkAssumption DEF Good
<1>1. ASSUME n.dhcp.state \in Leased, NEW state \in {"RENEWING", "REBINDING"}
      PROVE  Good(DhcpSend([n EXCEPT !.dhcp.state = state, !.dhcp.retries = 0]).n)
  <2> DEFINE dhcp == [n.dhcp EXCEPT !.state = state, !.retries = 0]
             m == [n EXCEPT !.dhcp = dhcp]
  <2>1. DhcpOK(dhcp, n.cfg, n.sent, n.calls) /\ dhcp.state = state
    BY <1>0, <1>1 DEF DhcpOK, States, Leased
  <2>2. m = [n EXCEPT !.dhcp.state = state, !.dhcp.retries = 0]
    BY DEF Good, Fields
  <2> HIDE DEF dhcp
  <2>3. Good(m) /\ m.dhcp = dhcp
    BY <2>1, DhcpChange
  <2> HIDE DEF m
  <2> QED
    BY <2>1, <2>2, <2>3, DhcpSendKeeps
<1>2. ASSUME n.dhcp.state = "BOUND" PROVE Good(DhcpBoundPoll(n))
  <2>1. Good([n EXCEPT !.cfg = "zero", !.dhcp.state = "FAILED"])
    <3> DEFINE dhcp == [n.dhcp EXCEPT !.state = "FAILED"]
               m == [n EXCEPT !.cfg = "zero", !.dhcp.state = "FAILED"]
    <3>1. DhcpOK(dhcp, "zero", n.sent, n.calls)
      BY <1>0 DEF DhcpOK, States, Leased
    <3>2. /\ DOMAIN m = Fields /\ m.dhcp = dhcp /\ m.cfg = "zero" /\ m.sent = n.sent
          /\ m.arp = n.arp /\ m.dns = n.dns /\ m.call = n.call /\ m.calls = n.calls
          /\ m.last = n.last /\ m.phase = n.phase
      BY DEF Good, Fields
    <3> QED
      BY <3>1, <3>2 DEF Good
  <2> QED
    BY <1>1, <1>2, <2>1 DEF DhcpBoundPoll, Leased
<1>3. ASSUME n.dhcp.state \in Negotiating \cup {"RENEWING", "REBINDING"} PROVE Good(DhcpRetry(n))
  <2>1. CASE GivesUp(n)
    <3> DEFINE dhcp == [n.dhcp EXCEPT !.state = "FAILED"]
    <3>1. DhcpOK(dhcp, n.cfg, n.sent, n.calls)
      BY <1>0 DEF DhcpOK, States, Leased
    <3>2. DhcpRetry(n) = [n EXCEPT !.dhcp = dhcp]
      BY <2>1 DEF DhcpRetry
    <3> HIDE DEF dhcp
    <3> QED
      BY <3>1, <3>2, DhcpChange
  <2>2. CASE ~GivesUp(n)
    <3> DEFINE retries == IF n.dhcp.state \in Negotiating THEN n.dhcp.retries + 1
                          ELSE n.dhcp.retries
               dhcp == [n.dhcp EXCEPT !.retries = retries]
               m == [n EXCEPT !.dhcp = dhcp]
    <3>1. retries \in 0 .. MaxRetries
      BY <1>0, <2>2 DEF GivesUp, DhcpOK
    <3> HIDE DEF retries
    <3>2. DhcpOK(dhcp, n.cfg, n.sent, n.calls) /\ dhcp.state = n.dhcp.state
      BY <1>0, <3>1 DEF DhcpOK
    <3>3. DhcpRetry(n) = OrFailed(DhcpSend(m))
      BY <2>2 DEF DhcpRetry, retries
    <3> HIDE DEF dhcp
    <3>4. Good(m) /\ m.dhcp = dhcp
      BY <3>2, DhcpChange
    <3> HIDE DEF m
    <3>5. Good(DhcpSend(m).n)
      BY <1>3, <3>2, <3>4, DhcpSendKeeps
    <3> QED
      BY <3>3, <3>5, OrFailedKeeps
  <2> QED
    BY <2>1, <2>2
<1> QED
  BY <1>1, <1>2, <1>3 DEF DhcpPoll, Leased

(* The hosts answer what they were asked.                                  *)
LEMMA AnswersMatch ==
    ASSUME NEW g, NEW f \in AnswersTo(g)
    PROVE  /\ f.t = "offer" => f.address = Grants(f.xid)
           /\ f.t = "ack" => g.t = "request" /\ f.xid = g.xid /\ f.address = g.address
           /\ f.t = "answer" => g.t = "query" /\ f.name = g.name
           /\ f.t \in {"offer", "ack", "arpReply", "answer", "echoReply"}
BY DEF AnswersTo

(* An acknowledgement of the transaction grants what it asked for.         *)
LEMMA DhcpReceiveKeeps ==
    ASSUME GrantsLeases, NEW n, Good(n), NEW f, f.t \in {"offer", "ack"},
           NEW g \in n.sent, f \in AnswersTo(g)
    PROVE  Good(DhcpReceive(n, f))
<1>0. /\ DhcpOK(n.dhcp, n.cfg, n.sent, n.calls) /\ n.calls \in Nat /\ FramesOK(n.sent)
      /\ 0 \in 0 .. MaxRetries
  BY NetworkAssumption DEF Good
<1>1. CASE DhcpXidMatches(n, f) /\ f.t = "offer" /\ n.dhcp.state = "DISCOVERING"
  <2> DEFINE dhcp == [n.dhcp EXCEPT !.state = "REQUESTING", !.retries = 0, !.offered = f.address]
             m == [n EXCEPT !.dhcp = dhcp]
  <2>1. f.address \in Leases
    BY <1>0, <1>1, AnswersMatch DEF GrantsLeases, DhcpXidMatches, DhcpOK
  <2>2. DhcpOK(dhcp, n.cfg, n.sent, n.calls) /\ dhcp.state \in Negotiating
    BY <1>0, <2>1 DEF DhcpOK, States, Leased, Negotiating
  <2>3. DhcpReceive(n, f) = OrFailed(DhcpSend(m))
    BY <1>1 DEF DhcpReceive
  <2> HIDE DEF dhcp
  <2>4. Good(m) /\ m.dhcp = dhcp
    BY <2>2, DhcpChange
  <2> HIDE DEF m
  <2>5. Good(DhcpSend(m).n)
    BY <2>2, <2>4, DhcpSendKeeps
  <2> QED
    BY <2>3, <2>5, OrFailedKeeps
<1>2. CASE /\ DhcpXidMatches(n, f) /\ f.t = "ack"
           /\ n.dhcp.state \in {"REQUESTING", "RENEWING", "REBINDING"}
  <2> DEFINE dhcp == [n.dhcp EXCEPT !.state = "BOUND", !.age = "fresh", !.due = FALSE]
             m == [n EXCEPT !.cfg = f.address, !.dhcp.state = "BOUND", !.dhcp.age = "fresh",
                            !.dhcp.due = FALSE]
  <2>1. f.address \in Leases /\ Requested(n.sent, n.dhcp.xid, f.address)
    BY <1>0, <1>2, AnswersMatch DEF FramesOK, Requested, DhcpXidMatches
  <2>2. DhcpOK(dhcp, f.address, n.sent, n.calls)
    BY <1>0, <2>1 DEF DhcpOK, States
  <2>3. DhcpReceive(n, f) = m
    BY <1>2 DEF DhcpReceive
  <2>4. /\ DOMAIN m = Fields /\ m.dhcp = dhcp /\ m.cfg = f.address /\ m.sent = n.sent
        /\ m.arp = n.arp /\ m.dns = n.dns /\ m.call = n.call /\ m.calls = n.calls
        /\ m.last = n.last /\ m.phase = n.phase
    BY DEF Good, Fields
  <2> HIDE DEF dhcp, m
  <2> QED
    BY <2>2, <2>3, <2>4 DEF Good
<1> QED
  BY <1>1, <1>2 DEF DhcpReceive

-----------------------------------------------------------------------------
(* The other handlers of a frame.                                          *)
LEMMA CallChange ==
    ASSUME NEW n, Good(n), NEW call, CallOK(call, n.sent, n.calls)
    PROVE  /\ Good([n EXCEPT !.call = call])
           /\ [n EXCEPT !.call = call].call = call /\ [n EXCEPT !.call = call].sent = n.sent
BY DEF Good, Fields

LEMMA DnsReceiveKeeps ==
    ASSUME NEW n, Good(n), NEW f, f.t = "answer", NEW g \in n.sent, f \in AnswersTo(g)
    PROVE  Good(DnsReceive(n, f))
<1>0. DnsOK(n.dns, n.sent) /\ CallOK(n.call, n.sent, n.calls) /\ Asked(n.sent, f.name)
  BY AnswersMatch DEF Good, Asked
<1>1. CASE ~DnsExpects(n, f)
  BY <1>1 DEF DnsReceive
<1>2. CASE DnsExpects(n, f) /\ (f.kind = "error" \/ f.name # n.call.arg)
  <2> DEFINE call == [n.call EXCEPT !.result = "failed"]
  <2>1. CallOK(call, n.sent, n.calls)
    BY <1>0, <1>2 DEF DnsExpects, CallOK, Idle
  <2>2. DnsReceive(n, f) = [n EXCEPT !.call = call]
    BY <1>2 DEF DnsReceive
  <2> HIDE DEF call
  <2> QED
    BY <2>1, <2>2, CallChange
<1>3. CASE DnsExpects(n, f) /\ ~(f.kind = "error" \/ f.name # n.call.arg)
  <2> DEFINE call == [n.call EXCEPT !.result = f.name, !.by = f.id]
             cache == IF f.kind = "kept" THEN [n.dns.cache EXCEPT ![n.dns.next] = n.call.arg]
                      ELSE n.dns.cache
             dns == [n.dns EXCEPT !.cache = cache, !.next = 1 + (n.dns.next % DnsSlots)]
             m == DnsReceive(n, f)
  <2>1. CallOK(call, n.sent, n.calls)
    BY <1>0, <1>3 DEF DnsExpects, CallOK, Idle
  <2>2. DnsOK(dns, n.sent)
    <3>1. DnsSlots \in Nat \ {0} /\ n.dns.next \in 1 .. DnsSlots
      BY <1>0, NetworkAssumption DEF DnsOK
    <3>2. 1 + (n.dns.next % DnsSlots) \in 1 .. DnsSlots
      BY <3>1
    <3>3. /\ DOMAIN cache = 1 .. DnsSlots
          /\ \A i \in 1 .. DnsSlots : cache[i] # Nobody => Asked(n.sent, cache[i])
      BY <1>0, <1>3 DEF DnsOK
    <3> HIDE DEF cache
    <3> QED
      BY <1>0, <3>2, <3>3 DEF DnsOK
  <2>3. m = [n EXCEPT !.dns.cache = cache, !.dns.next = 1 + (n.dns.next % DnsSlots),
                      !.call.result = f.name, !.call.by = f.id]
    BY <1>3 DEF DnsReceive, DnsCacheStore, Good, Fields
  <2>4. /\ DOMAIN m = Fields /\ m.dns = dns /\ m.call = call /\ m.sent = n.sent
        /\ m.dhcp = n.dhcp /\ m.cfg = n.cfg /\ m.arp = n.arp /\ m.calls = n.calls
        /\ m.last = n.last /\ m.phase = n.phase
    BY <2>3 DEF Good, Fields
  <2> HIDE DEF call, dns, m
  <2>5. Good(m)
    BY <2>1, <2>2, <2>4 DEF Good
  <2> QED
    BY <2>5 DEF m
<1> QED
  BY <1>1, <1>2, <1>3

LEMMA IcmpReceiveKeeps == ASSUME NEW n, Good(n), NEW f PROVE Good(IcmpReceive(n, f))
<1>0. CallOK(n.call, n.sent, n.calls)
  BY DEF Good
<1>1. CASE f.t = "echoReply" /\ IcmpExpects(n, f)
  <2> DEFINE call == [n.call EXCEPT !.result = f.src, !.by = f.id]
  <2>1. CallOK(call, n.sent, n.calls)
    BY <1>0, <1>1 DEF IcmpExpects, CallOK, Idle
  <2>2. IcmpReceive(n, f) = [n EXCEPT !.call = call]
    BY <1>1 DEF IcmpReceive, Good, Fields
  <2> HIDE DEF call
  <2> QED
    BY <2>1, <2>2, CallChange
<1>2. MaySend(EchoReply(f.src))
  BY DEF MaySend, EchoReply
<1>3. Good(IpSend(n, f.src, EchoReply(f.src)).n)
  BY <1>2, IpSendAdds, AddsKeeps
<1> QED
  BY <1>1, <1>3 DEF IcmpReceive

(* Whatever frame a poll finds.                                            *)
LEMMA ReceiveKeeps ==
    ASSUME GrantsLeases, NEW n, Good(n),
           NEW f \in (UNION {AnswersTo(g) : g \in n.sent}) \cup Unasked
    PROVE  Good(EthernetReceive(n, f))
<1> DEFINE m == ArpLearn(n, f.src)
<1>1. Good(m) /\ m.sent = n.sent /\ m.dhcp = n.dhcp
  BY ArpLearnKeeps
<1>2. (\E g \in n.sent : f \in AnswersTo(g)) \/ f.t \in {"arpRequest", "echo"}
  BY DEF Unasked
<1>3. Good(ArpReceive(n, f))
  <2>1. MaySend(ArpReply(f.src))
    BY DEF MaySend, ArpReply
  <2>2. Good(Transmit(m, ArpReply(f.src)).n)
    BY <1>1, <2>1, TransmitAdds, AddsKeeps
  <2> QED
    BY <1>1, <2>2 DEF ArpReceive
<1>4. Good(IpReceive(n, f))
  <2>1. CASE ~IpAccepts(n, f)
    BY <2>1 DEF IpReceive
  <2>2. CASE f.t \in {"offer", "ack"}
    <3>1. PICK g \in m.sent : f \in AnswersTo(g)
      BY <1>1, <1>2, <2>2
    <3>2. Good(DhcpReceive(m, f))
      BY <1>1, <2>2, <3>1, DhcpReceiveKeeps
    <3> QED
      BY <2>1, <2>2, <3>2 DEF IpReceive
  <2>3. CASE f.t = "answer"
    <3>1. PICK g \in m.sent : f \in AnswersTo(g)
      BY <1>1, <1>2, <2>3
    <3>2. Good(DnsReceive(m, f))
      BY <1>1, <2>3, <3>1, DnsReceiveKeeps
    <3> QED
      BY <2>1, <2>3, <3>2 DEF IpReceive
  <2>4. Good(IcmpReceive(m, f))
    BY <1>1, IcmpReceiveKeeps
  <2> QED
    BY <2>1, <2>2, <2>3, <2>4 DEF IpReceive
<1> QED
  BY <1>3, <1>4 DEF EthernetReceive

-----------------------------------------------------------------------------
(* The calls and their waiting loops.                                      *)
LEMMA PollKeeps == ASSUME NEW n, Good(n) PROVE Good(Poll(n))
BY DEF Poll, Good, Fields

(* A call that succeeds was answered.                                      *)
MayAnswer(n, answer) ==
    /\ n.call.op = "dns" => answer = n.call.arg /\ Asked(n.sent, n.call.arg)
    /\ n.call.op = "ping" => n.call.by = n.call.id /\ Echoed(n.sent, n.call.id, n.call.arg)

LEMMA ReturnKeeps ==
    ASSUME NEW n, Good(n), NEW answer, answer # "failed" => MayAnswer(n, answer)
    PROVE  Good(Return(n, answer))
<1> DEFINE last == IF answer = "failed" THEN n.last
                   ELSE [op |-> n.call.op, arg |-> n.call.arg, id |-> n.call.id,
                         by |-> n.call.by, answer |-> answer]
           m == [n EXCEPT !.call = Idle, !.last = last]
<1>1. LastOK(last, n.sent)
  BY DEF LastOK, MayAnswer, Good
<1>2. /\ DOMAIN m = Fields /\ m.call = Idle /\ m.last = last /\ m.sent = n.sent
      /\ m.dhcp = n.dhcp /\ m.cfg = n.cfg /\ m.arp = n.arp /\ m.dns = n.dns
      /\ m.calls = n.calls /\ m.phase = n.phase
  BY DEF Good, Fields
<1>3. Return(n, answer) = Poll(m)
  BY DEF Return
<1> HIDE DEF m, last
<1>4. Good(m)
  BY <1>1, <1>2 DEF Good, CallOK
<1> QED
  BY <1>3, <1>4, PollKeeps

LEMMA ResolvedKeeps ==
    ASSUME NEW n, Good(n), n.call # Idle
    PROVE  Good(Resolved(n))
<1>0. CallOK(n.call, n.sent, n.calls)
  BY DEF Good
<1>1. CASE n.call.op = "ping"
  <2> DEFINE f == Echo(n.call.id, n.call.arg, n.cfg)
             s == IpSend(n, n.call.arg, f)
             call == [n.call EXCEPT !.stage = "reply", !.wait = "fresh"]
  <2>1. /\ MaySend(f) /\ AnswersTo(f) # {} /\ f.t = "echo" /\ f.id = n.call.id
        /\ f.to = n.call.arg
    BY DEF MaySend, AnswersTo, Echo
  <2>2. Resolved(n) = PingSend(n)
    BY <1>1 DEF Resolved
  <2>3. PingSend(n) = IF IsConfigured(n) /\ s.ok
                      THEN Poll([s.n EXCEPT !.call.stage = "reply", !.call.wait = "fresh"])
                      ELSE Return(IF IsConfigured(n) THEN s.n ELSE n, "failed")
    BY DEF PingSend
  <2> HIDE DEF f
  <2>4. Adds(n, s.n) /\ (s.ok => f \in s.n.sent)
    BY <2>1, IpSendAdds
  <2> HIDE DEF s
  <2>5. Good(s.n) /\ s.n.call = n.call /\ s.n.calls = n.calls
    BY <2>4, AddsKeeps
  <2>6. CASE IsConfigured(n) /\ s.ok
    <3>1. Echoed(s.n.sent, n.call.id, n.call.arg)
      BY <2>1, <2>4, <2>6 DEF Echoed
    <3>2. CallOK(n.call, s.n.sent, n.calls)
      BY <2>5 DEF Good
    <3>3. CallOK(call, s.n.sent, n.calls)
      BY <1>1, <3>1, <3>2 DEF CallOK, Idle
    <3>4. [s.n EXCEPT !.call.stage = "reply", !.call.wait = "fresh"] = [s.n EXCEPT !.call = call]
      BY <2>5 DEF Good, Fields
    <3> HIDE DEF call
    <3>5. Good([s.n EXCEPT !.call = call])
      BY <2>5, <3>3, CallChange
    <3> QED
      BY <2>2, <2>3, <2>6, <3>4, <3>5, PollKeeps
  <2>7. CASE ~(IsConfigured(n) /\ s.ok)
    BY <2>2, <2>3, <2>5, <2>7, ReturnKeeps
  <2> QED
    BY <2>6, <2>7
<1>2. CASE n.call.op = "dns"
  <2> DEFINE s == DnsQuery(n)
             call == [n.call EXCEPT !.stage = "answer", !.wait = "fresh"]
  <2>1. Resolved(n) = DnsSend(n)
    BY <1>2 DEF Resolved
  <2>2. DnsSend(n) = IF s.ok THEN Poll([s.n EXCEPT !.call.stage = "answer", !.call.wait = "fresh"])
                     ELSE Return(s.n, "failed")
    BY DEF DnsSend
  <2>3. Adds(n, s.n)
    BY IpSendAdds DEF DnsQuery, MaySend, Query
  <2> HIDE DEF s
  <2>4. Good(s.n) /\ s.n.call = n.call /\ s.n.calls = n.calls
    BY <2>3, AddsKeeps
  <2>5. CallOK(call, s.n.sent, n.calls)
    BY <1>2, <2>4 DEF Good, CallOK, Idle
  <2>6. [s.n EXCEPT !.call.stage = "answer", !.call.wait = "fresh"] = [s.n EXCEPT !.call = call]
    BY <2>4 DEF Good, Fields
  <2> HIDE DEF call
  <2>7. Good([s.n EXCEPT !.call = call])
    BY <2>4, <2>5, CallChange
  <2> QED
    BY <2>1, <2>2, <2>4, <2>6, <2>7, PollKeeps, ReturnKeeps
<1>3. CASE n.call.op = "arp"
  <2>1. Resolved(n) = Return(n, n.call.arg)
    BY <1>3 DEF Resolved
  <2> QED
    BY <1>3, <2>1, ReturnKeeps DEF MayAnswer
<1> QED
  BY <1>0, <1>1, <1>2, <1>3 DEF CallOK

LEMMA LoopHeadKeeps == ASSUME NEW n, Good(n) PROVE Good(LoopHead(n))
<1>0. CallOK(n.call, n.sent, n.calls) /\ Good(Poll(n)) /\ Good(Return(n, "failed"))
  BY PollKeeps, ReturnKeeps DEF Good
<1>1. CASE n.call # Idle /\ n.call.result # Nobody
  <2>1. n.call.result # "failed" => MayAnswer(n, n.call.result)
    BY <1>0, <1>1 DEF CallOK, MayAnswer
  <2> QED
    BY <1>0, <1>1, <2>1, ReturnKeeps DEF LoopHead
<1>2. CASE n.call # Idle /\ n.call.result = Nobody
  <2> DEFINE m == DnsQuery(n).n
             call == [n.call EXCEPT !.retried = TRUE]
  <2>1. Adds(n, m)
    BY IpSendAdds DEF DnsQuery, MaySend, Query
  <2> HIDE DEF m
  <2>2. Good(m) /\ m.call = n.call /\ m.calls = n.calls
    BY <2>1, AddsKeeps
  <2>3. CallOK(call, m.sent, m.calls)
    BY <1>2, <2>2 DEF Good, CallOK
  <2>4. [m EXCEPT !.call.retried = TRUE] = [m EXCEPT !.call = call]
    BY <2>2
  <2> HIDE DEF call
  <2>5. Good(Poll([m EXCEPT !.call.retried = TRUE]))
    BY <2>2, <2>3, <2>4, CallChange, PollKeeps
  <2> QED
    BY <1>0, <1>2, <2>5 DEF LoopHead, m
<1> QED
  BY <1>0, <1>1, <1>2 DEF LoopHead

LEMMA LoopBodyKeeps == ASSUME NEW n, Good(n) PROVE Good(LoopBody(n))
<1>1. Good([n EXCEPT !.phase = "rest"])
  BY DEF Good, Fields
<1> QED
  BY <1>1, ResolvedKeeps DEF LoopBody

LEMMA ResolveKeeps ==
    ASSUME NEW n, Good(n), NEW call, call # Idle, CallOK(call, n.sent, n.calls)
    PROVE  Good(Resolve(n, call))
<1> DEFINE m == [n EXCEPT !.call = call]
           request == Transmit(m, ArpRequest(call.target))
<1>1. Good(m) /\ m.call = call
  BY CallChange
<1>2. Resolve(n, call) \in {Resolved(m), Poll(request.n), Return(m, "failed")}
  BY DEF Resolve
<1> HIDE DEF m
<1>3. Good(request.n)
  BY <1>1, TransmitAdds, AddsKeeps DEF MaySend, ArpRequest
<1> HIDE DEF request
<1> QED
  BY <1>1, <1>2, <1>3, ResolvedKeeps, PollKeeps, ReturnKeeps

-----------------------------------------------------------------------------
(* The steps.                                                              *)
LEMMA LinkKeeps ==
    ASSUME Good(net), NEW up
    PROVE  /\ Good(Link(up)) /\ Link(up).sent = net.sent /\ Link(up).call = net.call
           /\ Link(up).dhcp = net.dhcp /\ Link(up).calls = net.calls /\ Link(up).dns = net.dns
BY DEF Link, Good, Fields, LastOK, Idle

LEMMA GoesKeeps == ASSUME NEW n, Good(n), Goes(n) PROVE Good(net')
<1> DEFINE m == [n EXCEPT !.link = TRUE]
<1>1. Good(m)
  BY DEF Good, Fields
<1>2. net' = m
  BY DEF Goes
<1> HIDE DEF m
<1> QED
  BY <1>1, <1>2

LEMMA AdvanceKeeps ==
    ASSUME NEW n, Good(n), NEW T, "wait" \in T => n.call # Idle, NEW age, NEW stale
    PROVE  Good(Advance(n, T, age, stale))
<1> DEFINE wait == IF n.call.wait = "fresh" /\ n.call.stage = "answer" THEN "half" ELSE "over"
           call == IF "wait" \in T THEN [n.call EXCEPT !.wait = wait] ELSE n.call
           dhcp == [n.dhcp EXCEPT !.due = @ \/ "due" \in T, !.age = age]
           cache == [i \in 1 .. DnsSlots |->
                       IF n.dns.cache[i] \in stale THEN Nobody ELSE n.dns.cache[i]]
           dns == [n.dns EXCEPT !.cache = cache]
           m == Advance(n, T, age, stale)
<1>1. CallOK(call, n.sent, n.calls)
  BY DEF Good, CallOK
<1>2. DhcpOK(dhcp, n.cfg, n.sent, n.calls)
  BY DEF Good, DhcpOK
<1>3. DnsOK(dns, n.sent)
  BY DEF Good, DnsOK
<1>4. /\ DOMAIN m = Fields /\ m.call = call /\ m.dhcp = dhcp /\ m.dns = dns /\ m.sent = n.sent
      /\ m.cfg = n.cfg /\ m.arp = n.arp /\ m.calls = n.calls /\ m.last = n.last
      /\ m.phase = n.phase
  BY DEF Advance, Good, Fields
<1> HIDE DEF call, dhcp, dns, m
<1>5. Good(m)
  BY <1>1, <1>2, <1>3, <1>4 DEF Good
<1> QED
  BY <1>5 DEF m

LEMMA CalledKeeps ==
    ASSUME NEW n, Good(n)
    PROVE  /\ Good(Called(n)) /\ Called(n).dhcp.xid <= Called(n).calls
           /\ Called(n).calls = n.calls + 1 /\ Called(n).dns = n.dns
           /\ Called(n).sent = n.sent
<1> DEFINE m == Called(n)
<1>1. /\ DOMAIN m = Fields /\ m.calls = n.calls + 1 /\ m.call = n.call /\ m.dhcp = n.dhcp
      /\ m.dns = n.dns /\ m.sent = n.sent /\ m.cfg = n.cfg /\ m.arp = n.arp
      /\ m.last = n.last /\ m.phase = n.phase
  BY DEF Called, Good, Fields
<1>2. n.calls \in Nat /\ DhcpOK(n.dhcp, n.cfg, n.sent, n.calls) /\ CallOK(n.call, n.sent, n.calls)
  BY DEF Good
<1>3. DhcpOK(n.dhcp, n.cfg, n.sent, n.calls + 1) /\ n.dhcp.xid <= n.calls + 1
  BY <1>2 DEF DhcpOK
<1>4. CallOK(n.call, n.sent, n.calls + 1)
  BY <1>2 DEF CallOK
<1> HIDE DEF m
<1>5. Good(m)
  BY <1>1, <1>2, <1>3, <1>4 DEF Good
<1> QED
  BY <1>1, <1>3, <1>5 DEF m

LEMMA ResolvingOK ==
    ASSUME NEW op \in {"ping", "dns", "arp"}, NEW arg, op = "dns" => arg \in Names, NEW target,
           NEW id \in Nat, NEW wire
    PROVE  /\ CallOK(Resolving(op, arg, target, id), wire, id + 1)
           /\ Resolving(op, arg, target, id) # Idle
<1> DEFINE call == Resolving(op, arg, target, id)
<1>1. CallOK(call, wire, id + 1) /\ call.op = op
  BY DEF CallOK, Resolving
<1>2. \A c : c.op = op => c # Idle
  BY DEF Idle
<1> HIDE DEF call
<1>3. call # Idle
  BY <1>1, <1>2
<1> QED
  BY <1>1, <1>3 DEF call

LEMMA GoodInit == ASSUME Init PROVE Good(net)
<1>1. PICK link \in BOOLEAN, session \in Sessions :
        net = DhcpStart([
             link |-> link, sent |-> {}, todo |-> session,
             dhcp |-> [state |-> "STOPPED", xid |-> 0, retries |-> 0, offered |-> Nobody,
                       due |-> FALSE, age |-> "fresh"],
             cfg |-> "never",
             arp |-> [slot |-> [i \in 1 .. ArpSlots |-> Nobody], next |-> 1],
             dns |-> [cache |-> [i \in 1 .. DnsSlots |-> Nobody], next |-> 1],
             call |-> Idle, calls |-> 0, last |-> Idle, phase |-> "poll"])
  BY DEF Init
<1> DEFINE dhcp == [state |-> "STOPPED", xid |-> 0, retries |-> 0, offered |-> Nobody,
                    due |-> FALSE, age |-> "fresh"]
           arp == [slot |-> [i \in 1 .. ArpSlots |-> Nobody], next |-> 1]
           dns == [cache |-> [i \in 1 .. DnsSlots |-> Nobody], next |-> 1]
           n == [link |-> link, sent |-> {}, todo |-> session, dhcp |-> dhcp, cfg |-> "never",
                 arp |-> arp, dns |-> dns, call |-> Idle, calls |-> 0, last |-> Idle,
                 phase |-> "poll"]
<1>2. /\ ArpSlots \in Nat \ {0} /\ DnsSlots \in Nat \ {0} /\ 0 \in 0 .. MaxRetries
      /\ 0 \in 0 .. 1 + 0
  BY NetworkAssumption
<1>3. DhcpOK(dhcp, "never", {}, 0) /\ dhcp.xid = 0
  BY <1>2 DEF DhcpOK, States, Leased
<1>4. ArpOK(arp) /\ DnsOK(dns, {})
  BY <1>2 DEF ArpOK, DnsOK
<1>5. CallOK(Idle, {}, 0) /\ LastOK(Idle, {}) /\ FramesOK({})
  BY DEF CallOK, LastOK, Idle, FramesOK
<1>6. net = DhcpStart(n)
  BY <1>1
<1> HIDE DEF dhcp, arp, dns
<1>7. Good(n) /\ n.dhcp.xid <= n.calls
  BY <1>3, <1>4, <1>5 DEF Good, Fields
<1> HIDE DEF n
<1> QED
  BY <1>6, <1>7, DhcpStartKeeps

LEMMA GoodStep == ASSUME GrantsLeases, Good(net), Next PROVE Good(net')
<1>1. CASE PollFrame
  <2>1. PICK f \in Arrivals, link \in BOOLEAN : Goes(EthernetReceive(Link(link), f))
    BY <1>1 DEF PollFrame
  <2> DEFINE n == Link(link)
  <2>2. Good(n) /\ n.sent = net.sent
    BY LinkKeeps
  <2> HIDE DEF n
  <2>3. Good(EthernetReceive(n, f))
    BY <2>2, ReceiveKeeps DEF Arrivals
  <2> QED
    BY <2>1, <2>3, GoesKeeps DEF n
<1>2. CASE PollEnd
  <2>1. PICK link \in BOOLEAN : Goes(LoopBody(DhcpPoll(Link(link))))
    BY <1>2 DEF PollEnd
  <2>2. Good(LoopBody(DhcpPoll(Link(link))))
    BY LinkKeeps, DhcpPollKeeps, LoopBodyKeeps
  <2> QED
    BY <2>1, <2>2, GoesKeeps
<1>3. ASSUME NEW T, Wake(T) PROVE Good(net')
  <2>1. /\ T \subseteq Timers
        /\ \E age, stale : \E up \in BOOLEAN : Goes(LoopHead(Advance(Link(up), T, age, stale)))
    BY <1>3 DEF Wake
  <2>4. PICK age, stale, link : Goes(LoopHead(Advance(Link(link), T, age, stale)))
    BY <2>1
  <2>2. Good(Link(link)) /\ ("wait" \in T => Link(link).call # Idle)
    BY <2>1, LinkKeeps DEF Timers
  <2>3. Good(LoopHead(Advance(Link(link), T, age, stale)))
    BY <2>2, AdvanceKeeps, LoopHeadKeeps
  <2> QED
    BY <2>3, <2>4, GoesKeeps
<1>4. CASE NetDhcp
  <2>1. PICK link \in BOOLEAN : Goes(Poll(DhcpStart(Called(Link(link)))))
    BY <1>4 DEF NetDhcp
  <2>2. Good(Poll(DhcpStart(Called(Link(link)))))
    BY LinkKeeps, CalledKeeps, DhcpStartKeeps, PollKeeps
  <2> QED
    BY <2>1, <2>2, GoesKeeps
<1>5. ASSUME NEW n, Good(n), n.calls = net.calls, NEW call, call # Idle,
             CallOK(call, Called(n).sent, net.calls + 1)
      PROVE  Good(Resolve(Called(n), call))
  BY <1>5, CalledKeeps, ResolveKeeps
<1>6. ASSUME NEW target, Ping(target) \/ NetArp(target) PROVE Good(net')
  <2>1. PICK link, op, to : link \in BOOLEAN /\ op \in {"ping", "arp"} /\
           Goes(Resolve(Called(Link(link)), Resolving(op, target, to, net.calls)))
    BY <1>6 DEF Ping, NetArp
  <2>2. net.calls \in Nat
    BY DEF Good
  <2>3. /\ CallOK(Resolving(op, target, to, net.calls), Called(Link(link)).sent, net.calls + 1)
        /\ Resolving(op, target, to, net.calls) # Idle
    BY <2>1, <2>2, ResolvingOK
  <2>4. Good(Resolve(Called(Link(link)), Resolving(op, target, to, net.calls)))
    BY <1>5, <2>3, LinkKeeps
  <2> QED
    BY <2>1, <2>4, GoesKeeps
<1>7. ASSUME NEW name \in Names, DnsResolveIpv4(name) PROVE Good(net')
  <2> DEFINE call == [Resolving("dns", name, Route(net, Resolver), net.calls) EXCEPT
                        !.from = net.cfg]
  <2>1. net.calls \in Nat
    BY DEF Good
  <2>2. /\ \A wire : CallOK(call, wire, net.calls + 1)
        /\ call # Idle /\ call.op = "dns" /\ call.arg = name
    <3>1. call.op = "dns" /\ call.arg = name /\ net.calls \in 0 .. (net.calls + 1) - 1
      BY <2>1 DEF Resolving
    <3>2. \A wire : CallOK(call, wire, net.calls + 1)
      BY <3>1 DEF CallOK, Resolving
    <3>3. \A c : c.op = "dns" => c # Idle
      BY DEF Idle
    <3> HIDE DEF call
    <3> QED
      BY <3>1, <3>2, <3>3
  <2>3. \/ \E i \in DnsCacheLookup(net, name) :
              Goes(Return([Called(net) EXCEPT !.call = call], net.dns.cache[i]))
        \/ \E link \in BOOLEAN : Goes(Resolve(Called(Link(link)), call))
    BY <1>7 DEF DnsResolveIpv4
  <2> HIDE DEF call
  <2>4. ASSUME NEW i \in DnsCacheLookup(net, name)
        PROVE  Good(Return([Called(net) EXCEPT !.call = call], net.dns.cache[i]))
    <3> DEFINE n == [Called(net) EXCEPT !.call = call]
    <3>1. Good(n) /\ n.call = call /\ n.sent = net.sent
      BY <2>2, CalledKeeps, CallChange
    <3>2. net.dns.cache[i] = name /\ Asked(net.sent, name)
      BY NetworkAssumption DEF DnsCacheLookup, CacheHit, Good, DnsOK, Nobody
    <3> HIDE DEF n
    <3>3. MayAnswer(n, net.dns.cache[i])
      BY <2>2, <3>1, <3>2 DEF MayAnswer
    <3> QED
      BY <3>1, <3>3, ReturnKeeps DEF n
  <2>5. ASSUME NEW link \in BOOLEAN PROVE Good(Resolve(Called(Link(link)), call))
    BY <1>5, <2>2, LinkKeeps
  <2> QED
    BY <2>3, <2>4, <2>5, GoesKeeps
<1> QED
  BY <1>1, <1>2, <1>3, <1>4, <1>6, <1>7 DEF Next, Thread, User

-----------------------------------------------------------------------------
(* The theorems.                                                           *)

(* The inductive invariant holds, whatever hosts answer and when, if the   *)
(* DHCP server offers addresses that are its own.                          *)
THEOREM Invariant == ASSUME GrantsLeases PROVE Spec => []Good(net)
<1>1. Init => Good(net)
  BY GoodInit
<1>2. Good(net) /\ [Next]_vars => Good(net)'
  BY GoodStep DEF vars
<1> QED
  BY <1>1, <1>2, PTL DEF Spec

(* The variables of src/net keep their types: the next slots of both       *)
(* caches stay within them, no transaction is retried beyond               *)
(* DHCP_MAX_RETRIES, the address in use is one that was leased.            *)
THEOREM Types == ASSUME GrantsLeases PROVE Spec => []TypeOK
<1>1. Good(net) => TypeOK
  BY DEF Good, TypeOK, DhcpOK, ArpOK, DnsOK, CallOK
<1> QED
  BY <1>1, Invariant, PTL

(* While dhcp.c believes in a lease, its address is the one it requested   *)
(* in this transaction, for any number of answers, however late.           *)
THEOREM LeaseIsGranted == ASSUME GrantsLeases PROVE Spec => []LeaseGranted
<1>1. Good(net) => LeaseGranted
  BY DEF Good, DhcpOK, Requested, LeaseGranted
<1> QED
  BY <1>1, Invariant, PTL

(* What dns_resolve_ipv4 returns is the address that the DNS server gave   *)
(* for this name in answer to a query, also from the cache, for any size   *)
(* of the cache and any number of names.                                   *)
THEOREM ResolvedIsTrue == ASSUME GrantsLeases PROVE Spec => []ResolvedTrue
<1>1. Good(net) => ResolvedTrue
  BY DEF Good, LastOK, Asked, ResolvedTrue
<1> QED
  BY <1>1, Invariant, PTL

(* A ping that icmp_ping reports as answered was answered by its host, and *)
(* the request that was answered is the one it sent.                       *)
THEOREM PingIsAnswered == ASSUME GrantsLeases PROVE Spec => []PingAnswered
<1>1. Good(net) => PingAnswered
  BY DEF Good, LastOK, Echoed, PingAnswered
<1> QED
  BY <1>1, Invariant, PTL

------------------------------------------------------------------------------
(***************************************************************************)
(* The rings, for every number of descriptors, every size of the history   *)
(* and any number of frames: they neither lose, repeat, reorder nor mix up *)
(* what the driver and the device hand each other.                         *)
(***************************************************************************)
Ring == [at : Slots, done : [Slots -> BOOLEAN], buf : [Slots -> Frames]]

Turn(i, j) == (i + j) % Descriptors

(* The slots from one on hold what follows the first n frames of a         *)
(* history: Holds, without the sequence of these.                          *)
Keeps(ring, from, frames, n, done) ==
    /\ n \in 0 .. Len(frames) /\ Len(frames) - n <= Descriptors
    /\ \A j \in Slots :
         /\ (ring.done[Turn(from, j)] = done) <=> j < Len(frames) - n
         /\ j < Len(frames) - n => ring.buf[Turn(from, j)] = frames[n + j + 1]

(* The driver's index follows the last frame that waits for the device,    *)
(* and the device's head the last one that waits for the driver, who gives *)
(* back the slot before its own.                                           *)
SendingOK ==
    /\ tx \in Ring /\ tdh \in Slots /\ sent \in Seq(Frames)
    /\ Keeps(tx, tdh, sent, fetched, FALSE) /\ tx.at = Turn(tdh, Len(sent) - fetched)

ReceivingOK ==
    /\ rx \in Ring /\ rdh \in Slots /\ rdt \in Slots /\ arrived \in Seq(Frames)
    /\ Keeps(rx, rx.at, arrived, handled, TRUE) /\ rdh = Turn(rx.at, Len(arrived) - handled)
    /\ Len(arrived) - handled < Descriptors /\ rdt = Turn(rx.at, Descriptors - 1)

RingsOK == SendingOK /\ ReceivingOK

(* The frames that were handled and had no error, in the order in which    *)
(* they arrived, and the last of them.                                     *)
PassedOK ==
    /\ passed \in Seq(Frames) /\ InOrder(passed)
    /\ \A i \in 1 .. Len(arrived) : arrived[i].id = i
    /\ \A k \in 1 .. Len(passed) :
         \E i \in 1 .. handled : arrived[i].ok /\ passed[k] = arrived[i]
    /\ \A i \in 1 .. handled :
         arrived[i].ok => \E k \in 1 .. Len(passed) : passed[k] = arrived[i]

(* The last frames of a sequence, element by element.                      *)
EndOf(last, frames) ==
    /\ Len(last) <= Len(frames)
    /\ \A i \in 1 .. Len(last) : last[i] = frames[Len(frames) - Len(last) + i]

HistoryOK ==
    /\ receive_queue \in Seq(Frames) /\ Len(receive_queue) <= QueueSize
    /\ EndOf(receive_queue, passed)

IInv == RingsOK /\ PassedOK /\ HistoryOK

-----------------------------------------------------------------------------
(* Slots, counted from one of them.                                        *)
LEMMA TurnByCase ==
    ASSUME NEW i \in Slots, NEW j \in 0 .. Descriptors
    PROVE  /\ Turn(i, j) = IF i + j < Descriptors THEN i + j ELSE i + j - Descriptors
           /\ Turn(i, j) \in Slots
<1>1. Descriptors \in Nat /\ Descriptors > 1
  BY E1000Assumption
<1>2. CASE i + j < Descriptors
  BY <1>1, <1>2 DEF Turn, Slots
<1>3. CASE i + j >= Descriptors
  <2>1. (i + j) % Descriptors = (i + j - Descriptors) % Descriptors
    BY <1>1, <1>3 DEF Slots
  <2> QED
    BY <1>1, <1>3, <2>1 DEF Turn, Slots
<1> QED
  BY <1>1, <1>2, <1>3 DEF Slots

LEMMA TurnProperties ==
    ASSUME NEW i \in Slots
    PROVE  /\ Turn(i, 0) = i /\ Turn(i, Descriptors) = i /\ After(i) = Turn(i, 1)
           /\ \A j, k \in Slots : Turn(i, j) = Turn(i, k) => j = k
           /\ \A j \in 0 .. Descriptors - 1 : Turn(After(i), j) = Turn(i, j + 1)
<1>1. /\ Descriptors \in Nat /\ Descriptors > 1 /\ i \in Nat /\ i < Descriptors
      /\ After(i) = Turn(i, 1)
  BY E1000Assumption DEF Slots, After, Turn
<1>2. Turn(i, 0) = i /\ Turn(i, Descriptors) = i
  BY <1>1, TurnByCase
<1>3. ASSUME NEW j \in Slots, NEW k \in Slots, Turn(i, j) = Turn(i, k) PROVE j = k
  <2>1. /\ j \in 0 .. Descriptors /\ k \in 0 .. Descriptors
        /\ j < Descriptors /\ k < Descriptors /\ j \in Nat /\ k \in Nat
    BY <1>1 DEF Slots
  <2>2. (IF i + j < Descriptors THEN i + j ELSE i + j - Descriptors)
        = (IF i + k < Descriptors THEN i + k ELSE i + k - Descriptors)
    BY <1>3, <2>1, TurnByCase
  <2> QED
    BY <1>1, <2>1, <2>2
<1>4. ASSUME NEW j \in 0 .. Descriptors - 1 PROVE Turn(After(i), j) = Turn(i, j + 1)
  <2>1. j \in 0 .. Descriptors /\ j + 1 \in 0 .. Descriptors /\ 1 \in 0 .. Descriptors
    BY <1>1
  <2> DEFINE a == Turn(i, 1)
  <2>2. a = (IF i + 1 < Descriptors THEN i + 1 ELSE i + 1 - Descriptors) /\ a \in Slots
    BY <2>1, TurnByCase
  <2>3. Turn(i, j + 1) = IF i + (j + 1) < Descriptors THEN i + (j + 1)
                         ELSE i + (j + 1) - Descriptors
    BY <2>1, TurnByCase
  <2> HIDE DEF a
  <2>4. Turn(a, j) = IF a + j < Descriptors THEN a + j ELSE a + j - Descriptors
    BY <2>1, <2>2, TurnByCase
  <2>5. Turn(a, j) = Turn(i, j + 1)
    BY <1>1, <2>1, <2>2, <2>3, <2>4
  <2> QED
    BY <1>1, <2>5 DEF a
<1> QED
  BY <1>1, <1>2, <1>3, <1>4

LEMMA AfterInSlots == \A i \in Slots : After(i) \in Slots
BY E1000Assumption DEF After, Slots

(* A frame is put behind the others.                                       *)
LEMMA PutKeeps ==
    ASSUME NEW ring \in Ring, NEW from \in Slots, NEW frames \in Seq(Frames), NEW n,
           NEW done \in BOOLEAN, Keeps(ring, from, frames, n, done),
           Len(frames) - n < Descriptors, NEW f \in Frames, NEW new \in Ring,
           new.done = [ring.done EXCEPT ![Turn(from, Len(frames) - n)] = done],
           new.buf = [ring.buf EXCEPT ![Turn(from, Len(frames) - n)] = f]
    PROVE  Keeps(new, from, Append(frames, f), n, done)
<1> DEFINE p == Len(frames) - n
           more == Append(frames, f)
<1>1. /\ Len(frames) \in Nat /\ n \in 0 .. Len(frames) /\ p \in Slots
      /\ Descriptors \in Nat
  BY E1000Assumption, LenProperties DEF Keeps, Slots
<1>2. /\ more \in Seq(Frames) /\ Len(more) = Len(frames) + 1 /\ more[Len(frames) + 1] = f
      /\ \A i \in 1 .. Len(frames) : more[i] = frames[i]
  BY AppendProperties
<1> HIDE DEF more
<1>3. ASSUME NEW j \in Slots
      PROVE  /\ (new.done[Turn(from, j)] = done) <=> j < Len(more) - n
             /\ j < Len(more) - n => new.buf[Turn(from, j)] = more[n + j + 1]
  <2>1. /\ j \in Nat /\ Turn(from, j) \in Slots /\ ring.done \in [Slots -> BOOLEAN]
        /\ ring.buf \in [Slots -> Frames]
    <3>1. j \in Nat /\ j \in 0 .. Descriptors
      BY <1>1 DEF Slots
    <3>2. Turn(from, j) \in Slots
      BY <3>1, TurnByCase
    <3> QED
      BY <3>1, <3>2 DEF Ring
  <2>2. CASE j = p
    <3>1. new.done[Turn(from, j)] = done /\ new.buf[Turn(from, j)] = f
      BY <2>1, <2>2
    <3>2. j < Len(more) - n /\ n + j + 1 = Len(frames) + 1
      BY <1>1, <1>2, <2>2
    <3> QED
      BY <1>2, <3>1, <3>2
  <2>3. CASE j # p
    <3>1. Turn(from, j) # Turn(from, p)
      BY <1>1, <2>3, TurnProperties
    <3>2. /\ new.done[Turn(from, j)] = ring.done[Turn(from, j)]
          /\ new.buf[Turn(from, j)] = ring.buf[Turn(from, j)]
      BY <2>1, <3>1
    <3>3. j < Len(more) - n <=> j < Len(frames) - n
      BY <1>1, <1>2, <2>1, <2>3
    <3>4. j < Len(frames) - n => more[n + j + 1] = frames[n + j + 1]
      BY <1>1, <1>2, <2>1
    <3> QED
      BY <3>2, <3>3, <3>4 DEF Keeps
  <2> QED
    BY <2>2, <2>3
<1>4. n \in 0 .. Len(more) /\ Len(more) - n <= Descriptors
  BY <1>1, <1>2
<1>5. Keeps(new, from, more, n, done)
  BY <1>3, <1>4 DEF Keeps
<1> QED
  BY <1>5 DEF more

(* The first of the frames is taken.                                       *)
LEMMA TakeKeeps ==
    ASSUME NEW ring \in Ring, NEW from \in Slots, NEW frames \in Seq(Frames), NEW n,
           NEW done \in BOOLEAN, Keeps(ring, from, frames, n, done), Len(frames) - n > 0,
           NEW new \in Ring, new.done = [ring.done EXCEPT ![from] = ~done], new.buf = ring.buf
    PROVE  Keeps(new, After(from), frames, n + 1, done)
<1>1. /\ Len(frames) \in Nat /\ n \in 0 .. Len(frames) /\ Len(frames) - n <= Descriptors
      /\ Descriptors \in Nat /\ Descriptors > 1 /\ from = Turn(from, 0) /\ 0 \in Slots
  BY E1000Assumption, LenProperties, TurnProperties DEF Keeps, Slots
<1>2. ASSUME NEW j \in Slots
      PROVE  /\ (new.done[Turn(After(from), j)] = done) <=> j < Len(frames) - (n + 1)
             /\ j < Len(frames) - (n + 1) =>
                   new.buf[Turn(After(from), j)] = frames[(n + 1) + j + 1]
  <2>1. /\ j \in Nat /\ j < Descriptors /\ Turn(After(from), j) = Turn(from, j + 1)
        /\ ring.done \in [Slots -> BOOLEAN]
    BY <1>1, TurnProperties DEF Slots, Ring
  <2>2. CASE j = Descriptors - 1
    <3>1. Turn(from, j + 1) = from
      BY <1>1, <2>1, <2>2, TurnProperties
    <3>2. new.done[from] # done
      BY <2>1
    <3>3. ~(j < Len(frames) - (n + 1))
      BY <1>1, <2>1, <2>2
    <3> QED
      BY <2>1, <3>1, <3>2, <3>3
  <2>3. CASE j # Descriptors - 1
    <3>1. j + 1 \in Slots /\ j + 1 # 0
      BY <1>1, <2>1, <2>3 DEF Slots
    <3>2. Turn(from, j + 1) # from /\ Turn(from, j + 1) \in Slots
      <4>1. j + 1 \in 0 .. Descriptors
        BY <1>1, <2>1
      <4>2. Turn(from, j + 1) \in Slots
        BY <4>1, TurnByCase
      <4>3. Turn(from, j + 1) # Turn(from, 0)
        BY <1>1, <3>1, TurnProperties
      <4> QED
        BY <1>1, <4>2, <4>3
    <3>3. new.done[Turn(from, j + 1)] = ring.done[Turn(from, j + 1)]
      BY <2>1, <3>2
    <3>4. /\ (ring.done[Turn(from, j + 1)] = done) <=> j + 1 < Len(frames) - n
          /\ j + 1 < Len(frames) - n => ring.buf[Turn(from, j + 1)] = frames[n + (j + 1) + 1]
      BY <3>1 DEF Keeps
    <3>5. /\ j + 1 < Len(frames) - n <=> j < Len(frames) - (n + 1)
          /\ n + (j + 1) + 1 = (n + 1) + j + 1
      BY <1>1, <2>1
    <3> QED
      BY <2>1, <3>3, <3>4, <3>5
  <2> QED
    BY <2>2, <2>3
<1>3. n + 1 \in 0 .. Len(frames) /\ Len(frames) - (n + 1) <= Descriptors
  BY <1>1
<1> QED
  BY <1>2, <1>3 DEF Keeps

LEMMA AfterTurn ==
    ASSUME NEW i \in Slots, NEW j \in Slots
    PROVE  After(Turn(i, j)) = Turn(i, j + 1) /\ Turn(i, j) \in Slots
<1>1. /\ Descriptors \in Nat /\ Descriptors > 1 /\ i \in Nat /\ j \in Nat
      /\ i < Descriptors /\ j < Descriptors
      /\ j \in 0 .. Descriptors /\ j + 1 \in 0 .. Descriptors /\ 1 \in 0 .. Descriptors
  BY E1000Assumption DEF Slots
<1> DEFINE k == Turn(i, j)
<1>2. k = (IF i + j < Descriptors THEN i + j ELSE i + j - Descriptors) /\ k \in Slots
  BY <1>1, TurnByCase
<1>3. Turn(i, j + 1) = IF i + (j + 1) < Descriptors THEN i + (j + 1)
                       ELSE i + (j + 1) - Descriptors
  BY <1>1, TurnByCase
<1> HIDE DEF k
<1>4. After(k) = IF k + 1 < Descriptors THEN k + 1 ELSE k + 1 - Descriptors
  BY <1>1, <1>2, TurnByCase, TurnProperties
<1>5. After(k) = Turn(i, j + 1)
  BY <1>1, <1>2, <1>3, <1>4
<1> QED
  BY <1>2, <1>5 DEF k

-----------------------------------------------------------------------------
(* The steps of the driver and of the device on the rings.                 *)
LEMMA RingsStart == ASSUME RingInit PROVE IInv
<1> USE DEF RingInit
<1>1. /\ Descriptors \in Nat /\ Descriptors > 1 /\ 0 \in Slots /\ Descriptors - 1 \in Slots
      /\ QueueSize \in Nat /\ NoFrame \in Frames
  BY E1000Assumption DEF Slots, NoFrame, Frames
<1>2. /\ tx \in Ring /\ rx \in Ring /\ tx.at = 0 /\ rx.at = 0
      /\ \A i \in Slots : tx.done[i] = TRUE /\ rx.done[i] = FALSE
  BY <1>1 DEF Ring
<1>3. \A j \in Slots : Turn(0, j) \in Slots /\ ~(j < 0)
  BY <1>1, AfterTurn DEF Slots
<1>4. <<>> \in Seq(Frames) /\ Len(<<>>) = 0 /\ 0 \in 0 .. 0 /\ 0 - 0 = 0
  OBVIOUS
<1>5. Keeps(tx, tdh, sent, fetched, FALSE) /\ Keeps(rx, rx.at, arrived, handled, TRUE)
  BY <1>1, <1>2, <1>3, <1>4 DEF Keeps
<1>6. Turn(0, 0) = 0 /\ Turn(0, Descriptors - 1) = Descriptors - 1
  <2>1. 0 \in 0 .. Descriptors /\ Descriptors - 1 \in 0 .. Descriptors
    BY <1>1
  <2> QED
    BY <1>1, <2>1, TurnByCase
<1>7. RingsOK
  BY <1>1, <1>2, <1>4, <1>5, <1>6 DEF RingsOK, SendingOK, ReceivingOK
<1>8. PassedOK /\ HistoryOK
  BY <1>1, <1>4 DEF PassedOK, HistoryOK, InOrder, EndOf
<1> QED
  BY <1>7, <1>8 DEF IInv

(* What the invariant says of numbers.                                     *)
LEMMA Numbers ==
    ASSUME RingsOK
    PROVE  /\ Descriptors \in Nat /\ Descriptors > 1
           /\ Len(sent) \in Nat /\ fetched \in 0 .. Len(sent)
           /\ Len(sent) - fetched \in 0 .. Descriptors
           /\ Len(arrived) \in Nat /\ handled \in 0 .. Len(arrived)
           /\ Len(arrived) - handled \in Slots
           /\ tx \in Ring /\ tdh \in Slots /\ sent \in Seq(Frames) /\ tx.at \in Slots
           /\ rx \in Ring /\ rdh \in Slots /\ arrived \in Seq(Frames) /\ rx.at \in Slots
           /\ 0 \in Slots
<1>1. Descriptors \in Nat /\ Descriptors > 1
  BY E1000Assumption
<1>2. Len(sent) \in Nat /\ Len(arrived) \in Nat
  BY LenProperties DEF RingsOK, SendingOK, ReceivingOK
<1>3. /\ fetched \in 0 .. Len(sent) /\ Len(sent) - fetched <= Descriptors
      /\ handled \in 0 .. Len(arrived) /\ Len(arrived) - handled < Descriptors
  BY DEF RingsOK, SendingOK, ReceivingOK, Keeps
<1>4. tx.at \in Slots /\ rx.at \in Slots
  BY DEF RingsOK, SendingOK, ReceivingOK, Ring
<1> QED
  BY <1>1, <1>2, <1>3, <1>4 DEF RingsOK, SendingOK, ReceivingOK, Slots

LEMMA QueueStep == ASSUME RingsOK, QueueFrame PROVE RingsOK'
<1> DEFINE f == [id |-> Len(sent) + 1, ok |-> TRUE]
           p == Len(sent) - fetched
<1>1. /\ CanTransmit /\ sent' = Append(sent, f)
      /\ tx' = [at |-> After(tx.at), done |-> [tx.done EXCEPT ![tx.at] = FALSE],
                buf |-> [tx.buf EXCEPT ![tx.at] = f]]
      /\ UNCHANGED <<rx, tdh, rdh, rdt, fetched, arrived, handled>>
  BY DEF QueueFrame
<1>2. f \in Frames
  BY Numbers DEF Frames
<1> HIDE DEF f
<1>3. tx.at = Turn(tdh, p) /\ Keeps(tx, tdh, sent, fetched, FALSE)
  BY DEF RingsOK, SendingOK, ReceivingOK
<1>4. p < Descriptors
  <2> SUFFICES ASSUME p = Descriptors PROVE FALSE
    BY Numbers
  <2>1. tx.at = Turn(tdh, 0)
    BY <1>3, Numbers, TurnProperties
  <2>2. 0 < Len(sent) - fetched
    BY Numbers
  <2>3. tx.done[Turn(tdh, 0)] = FALSE
    BY <1>3, <2>2, Numbers DEF Keeps
  <2> QED
    BY <1>1, <2>1, <2>3 DEF CanTransmit
<1>5. tx' \in Ring
  <2>1. After(tx.at) \in Slots
    BY Numbers, AfterInSlots, TurnProperties
  <2> QED
    <3>1. /\ [tx.done EXCEPT ![tx.at] = FALSE] \in [Slots -> BOOLEAN]
          /\ [tx.buf EXCEPT ![tx.at] = f] \in [Slots -> Frames]
      BY <1>2, Numbers DEF Ring
    <3> QED
      BY <1>1, <2>1, <3>1 DEF Ring
<1>6. /\ tx'.done = [tx.done EXCEPT ![Turn(tdh, p)] = FALSE]
      /\ tx'.buf = [tx.buf EXCEPT ![Turn(tdh, p)] = f] /\ tx'.at = After(tx.at)
  BY <1>1, <1>3
<1>7. /\ Keeps(tx', tdh, sent', fetched, FALSE) /\ sent' \in Seq(Frames)
      /\ Len(sent') = Len(sent) + 1
  <2>1. sent' = Append(sent, f)
    BY <1>1
  <2>2. Append(sent, f) \in Seq(Frames) /\ Len(Append(sent, f)) = Len(sent) + 1
    BY <1>2, Numbers, AppendProperties
  <2>3. Keeps(tx', tdh, Append(sent, f), fetched, FALSE)
    BY <1>2, <1>3, <1>4, <1>5, <1>6, Numbers, PutKeeps
  <2> QED
    BY <2>1, <2>2, <2>3
<1>8. tx'.at = Turn(tdh, Len(sent') - fetched)
  <2>1. p \in Slots /\ Len(sent') - fetched = p + 1
    BY SMTT(30), <1>4, <1>7, Numbers DEF Slots
  <2> QED
    BY <1>3, <1>6, <2>1, Numbers, AfterTurn
<1>9. SendingOK'
  BY <1>1, <1>5, <1>7, <1>8, Numbers DEF SendingOK, Keeps, Turn
<1>10. ReceivingOK'
  BY <1>1 DEF RingsOK, ReceivingOK, Keeps, Turn
<1> QED
  BY <1>9, <1>10 DEF RingsOK

LEMMA FetchStep == ASSUME RingsOK, Fetch PROVE RingsOK'
<1> DEFINE p == Len(sent) - fetched
<1>1. /\ tdh # tx.at /\ tx' = [tx EXCEPT !.done[tdh] = TRUE] /\ tdh' = After(tdh)
      /\ fetched' = fetched + 1 /\ UNCHANGED <<rx, rdh, rdt, sent, arrived, handled>>
  BY DEF Fetch
<1>2. tx.at = Turn(tdh, p) /\ Keeps(tx, tdh, sent, fetched, FALSE)
  BY DEF RingsOK, SendingOK, ReceivingOK
<1>3. p > 0
  BY <1>1, <1>2, Numbers, TurnProperties
<1>4. tx' \in Ring /\ tx'.done = [tx.done EXCEPT ![tdh] = TRUE] /\ tx'.buf = tx.buf /\ tx'.at = tx.at
  BY <1>1, Numbers DEF Ring
<1>5. Keeps(tx', After(tdh), sent, fetched + 1, FALSE)
  BY <1>2, <1>3, <1>4, Numbers, TakeKeeps
<1>6. tx.at = Turn(After(tdh), Len(sent) - (fetched + 1))
  <2>1. p - 1 \in 0 .. Descriptors - 1 /\ (p - 1) + 1 = p /\ Len(sent) - (fetched + 1) = p - 1
    BY <1>3, Numbers
  <2>2. Turn(After(tdh), p - 1) = Turn(tdh, (p - 1) + 1)
    BY <2>1, Numbers, TurnProperties
  <2> QED
    BY <1>2, <2>1, <2>2
<1>7. After(tdh) \in Slots
  BY Numbers, AfterInSlots, TurnProperties
<1>8. SendingOK'
  BY <1>1, <1>4, <1>5, <1>6, <1>7, Numbers DEF SendingOK, Keeps, Turn
<1>9. ReceivingOK'
  BY <1>1 DEF RingsOK, ReceivingOK, Keeps, Turn
<1> QED
  BY <1>8, <1>9 DEF RingsOK

LEMMA FillStep == ASSUME RingsOK, NEW ok \in BOOLEAN, Fill(ok) PROVE RingsOK'
<1> DEFINE f == [id |-> Len(arrived) + 1, ok |-> ok]
           p == Len(arrived) - handled
<1>1. /\ rdh # rdt /\ arrived' = Append(arrived, f)
      /\ rx' = [rx EXCEPT !.done[rdh] = TRUE, !.buf[rdh] = f]
      /\ rdh' = After(rdh) /\ UNCHANGED <<tx, tdh, rdt, sent, fetched, handled>>
  BY DEF Fill
<1>2. f \in Frames
  BY Numbers DEF Frames
<1> HIDE DEF f
<1>3. /\ rdh = Turn(rx.at, p) /\ Keeps(rx, rx.at, arrived, handled, TRUE)
      /\ rdt = Turn(rx.at, Descriptors - 1)
  BY DEF RingsOK, SendingOK, ReceivingOK
<1>4. p < Descriptors - 1
  BY <1>1, <1>3, Numbers DEF Slots
<1>5. /\ rx' \in Ring /\ rx'.done = [rx.done EXCEPT ![Turn(rx.at, p)] = TRUE]
      /\ rx'.buf = [rx.buf EXCEPT ![Turn(rx.at, p)] = f] /\ rx'.at = rx.at
  BY <1>1, <1>2, <1>3, Numbers DEF Ring
<1>6. /\ Keeps(rx', rx.at, arrived', handled, TRUE) /\ arrived' \in Seq(Frames)
      /\ Len(arrived') = Len(arrived) + 1
  <2>1. arrived' = Append(arrived, f) /\ p < Descriptors
    BY <1>1, <1>4, Numbers
  <2>2. Append(arrived, f) \in Seq(Frames) /\ Len(Append(arrived, f)) = Len(arrived) + 1
    BY <1>2, Numbers, AppendProperties
  <2>3. Keeps(rx', rx.at, Append(arrived, f), handled, TRUE)
    BY <1>2, <1>3, <1>5, <2>1, Numbers, PutKeeps
  <2> QED
    BY <2>1, <2>2, <2>3
<1>7. /\ rdh' = Turn(rx.at, Len(arrived') - handled) /\ Len(arrived') - handled < Descriptors
  <2>1. p \in Slots /\ Len(arrived') - handled = p + 1
    BY <1>6, Numbers
  <2> QED
    BY <1>1, <1>3, <1>4, <2>1, Numbers, AfterTurn
<1>8. rdh' \in Slots
  BY <1>1, Numbers, AfterInSlots
<1>9. ReceivingOK'
  BY ZenonT(60), <1>1, <1>3, <1>5, <1>6, <1>7, <1>8, Numbers DEF RingsOK, ReceivingOK, Keeps, Turn
<1>10. SendingOK'
  BY <1>1 DEF RingsOK, SendingOK, Keeps, Turn
<1> QED
  BY <1>9, <1>10 DEF RingsOK

(* The frame that the driver finds is the next one that arrived.           *)
LEMMA Polled ==
    ASSUME RingsOK, PollReceived
    PROVE  /\ handled < Len(arrived) /\ rx.buf[rx.at] = arrived[handled + 1]
           /\ rx.buf[rx.at] \in Frames
<1>1. Keeps(rx, rx.at, arrived, handled, TRUE) /\ Turn(rx.at, 0) = rx.at /\ rx.done[rx.at] = TRUE
  <2>1. rx.done[rx.at] /\ rx.done[rx.at] \in BOOLEAN
    BY Numbers DEF PollReceived, Ring
  <2> QED
    BY <2>1, Numbers, TurnProperties DEF RingsOK, SendingOK, ReceivingOK
<1>2. /\ 0 < Len(arrived) - handled
      /\ rx.buf[Turn(rx.at, 0)] = arrived[handled + 0 + 1]
  BY <1>1, Numbers DEF Keeps
<1>3. handled < Len(arrived) /\ handled + 0 + 1 = handled + 1
  BY <1>2, Numbers
<1> QED
  BY <1>1, <1>2, <1>3, Numbers DEF Ring

LEMMA PollStep == ASSUME RingsOK, PollReceived PROVE RingsOK'
<1> DEFINE p == Len(arrived) - handled
           i == rx.at
<1>1. /\ rx' = [rx EXCEPT !.done[i] = FALSE, !.at = After(i)] /\ rdt' = i /\ handled' = handled + 1
      /\ UNCHANGED <<tx, tdh, rdh, sent, fetched, arrived>>
  BY DEF PollReceived
<1>2. rdh = Turn(i, p) /\ Keeps(rx, i, arrived, handled, TRUE)
  BY DEF RingsOK, SendingOK, ReceivingOK
<1>3. p > 0
  BY Polled, Numbers
<1>4. After(i) \in Slots
  BY Numbers, AfterInSlots, TurnProperties
<1>5. /\ rx' \in Ring /\ rx'.done = [rx.done EXCEPT ![i] = FALSE] /\ rx'.buf = rx.buf
      /\ rx'.at = After(i)
  BY <1>1, <1>4, Numbers DEF Ring
<1>6. Keeps(rx', After(i), arrived, handled + 1, TRUE)
  BY <1>2, <1>3, <1>5, Numbers, TakeKeeps
<1>7. rdh = Turn(After(i), Len(arrived) - (handled + 1))
      /\ Len(arrived) - (handled + 1) < Descriptors
  <2>1. /\ p - 1 \in 0 .. Descriptors - 1 /\ (p - 1) + 1 = p
        /\ Len(arrived) - (handled + 1) = p - 1
    BY <1>3, Numbers DEF Slots
  <2>2. Turn(After(i), p - 1) = Turn(i, (p - 1) + 1)
    BY <2>1, Numbers, TurnProperties
  <2> QED
    BY <1>2, <2>1, <2>2, Numbers
<1>8. i = Turn(After(i), Descriptors - 1)
  <2>1. Descriptors - 1 \in 0 .. Descriptors - 1 /\ (Descriptors - 1) + 1 = Descriptors
    BY Numbers
  <2>2. Turn(After(i), Descriptors - 1) = Turn(i, (Descriptors - 1) + 1)
    BY <2>1, Numbers, TurnProperties
  <2> QED
    BY <2>1, <2>2, Numbers, TurnProperties
<1>9. i \in Slots
  BY Numbers
<1>10. ReceivingOK'
  BY <1>1, <1>2, <1>5, <1>6, <1>7, <1>8, <1>9, Numbers DEF ReceivingOK, Keeps, Turn
<1>11. SendingOK'
  BY <1>1 DEF RingsOK, SendingOK, Keeps, Turn
<1> QED
  BY <1>10, <1>11 DEF RingsOK
-----------------------------------------------------------------------------
(* What the protocols got.                                                 *)
LEMMA PassedAfterFill ==
    ASSUME RingsOK, PassedOK, NEW ok \in BOOLEAN, Fill(ok)
    PROVE  PassedOK'
<1> DEFINE f == [id |-> Len(arrived) + 1, ok |-> ok]
           more == Append(arrived, f)
<1>1. arrived' = more /\ UNCHANGED <<handled, passed>>
  BY DEF Fill
<1>2. f \in Frames /\ f.id = Len(arrived) + 1
  BY Numbers DEF Frames
<1> HIDE DEF f
<1>3. /\ Len(more) = Len(arrived) + 1 /\ more[Len(arrived) + 1] = f
      /\ \A i \in 1 .. Len(arrived) : more[i] = arrived[i]
  BY <1>2, Numbers, AppendProperties
<1> HIDE DEF more
<1>4. \A i \in 1 .. Len(more) : more[i].id = i
  <2> SUFFICES ASSUME NEW i \in 1 .. Len(more) PROVE more[i].id = i
    OBVIOUS
  <2>1. i \in 1 .. Len(arrived) \/ i = Len(arrived) + 1
    BY <1>3, Numbers
  <2> QED
    BY <1>2, <1>3, <2>1 DEF PassedOK
<1>5. \A i \in 1 .. handled : more[i] = arrived[i]
  BY <1>3, Numbers
<1>6. /\ \A k \in 1 .. Len(passed) : \E i \in 1 .. handled : more[i].ok /\ passed[k] = more[i]
      /\ \A i \in 1 .. handled : more[i].ok => \E k \in 1 .. Len(passed) : passed[k] = more[i]
  <2>1. \A k \in 1 .. Len(passed) : \E i \in 1 .. handled : more[i].ok /\ passed[k] = more[i]
    BY <1>5 DEF PassedOK
  <2>2. ASSUME NEW i \in 1 .. handled, more[i].ok
        PROVE  \E k \in 1 .. Len(passed) : passed[k] = more[i]
    BY <1>5, <2>2 DEF PassedOK
  <2> QED
    BY <2>1, <2>2
<1>7. passed \in Seq(Frames) /\ InOrder(passed)
  BY DEF PassedOK
<1> QED
  BY <1>1, <1>4, <1>6, <1>7 DEF PassedOK, InOrder

LEMMA PassedAfterPoll ==
    ASSUME RingsOK, PassedOK, PollReceived
    PROVE  PassedOK'
<1> DEFINE f == rx.buf[rx.at]
<1>1. /\ f \in Frames /\ f = arrived[handled + 1] /\ handled < Len(arrived)
      /\ handled \in Nat /\ handled + 1 \in 1 .. Len(arrived) /\ f.id = handled + 1
  <2>1. handled \in Nat /\ handled + 1 \in 1 .. Len(arrived)
    BY Numbers, Polled
  <2> QED
    BY <2>1, Polled DEF PassedOK
<1>2. /\ handled' = handled + 1 /\ arrived' = arrived
      /\ IF f.ok THEN passed' = Append(passed, f) ELSE passed' = passed
  BY DEF PollReceived, SubmitReceived
<1> HIDE DEF f
<1>3. passed \in Seq(Frames) /\ InOrder(passed) /\ Len(passed) \in Nat
  BY LenProperties DEF PassedOK
<1>4. \A i \in 1 .. Len(arrived) : arrived[i].id = i
  BY DEF PassedOK
<1>5. \A k \in 1 .. Len(passed) : passed[k].id <= handled /\ passed[k].id \in Nat
  <2> SUFFICES ASSUME NEW k \in 1 .. Len(passed)
               PROVE  passed[k].id <= handled /\ passed[k].id \in Nat
    OBVIOUS
  <2>1. PICK i \in 1 .. handled : passed[k] = arrived[i]
    BY DEF PassedOK
  <2>2. i \in 1 .. Len(arrived) /\ i <= handled /\ i \in Nat
    BY <1>1, Numbers
  <2>3. arrived[i].id = i
    BY <1>4, <2>2
  <2> QED
    BY <2>1, <2>2, <2>3
<1>6. \A i \in 1 .. handled + 1 : i \in 1 .. handled \/ i = handled + 1
  BY <1>1
<1>7. CASE f.ok
  <2> DEFINE more == Append(passed, f)
  <2>1. /\ more \in Seq(Frames) /\ Len(more) = Len(passed) + 1 /\ more[Len(passed) + 1] = f
        /\ \A k \in 1 .. Len(passed) : more[k] = passed[k]
    BY <1>1, <1>3, AppendProperties
  <2>2. passed' = more
    BY <1>2, <1>7
  <2> HIDE DEF more
  <2>3. InOrder(more)
    <3> SUFFICES ASSUME NEW k \in 1 .. Len(more) - 1 PROVE more[k].id < more[k + 1].id
      BY DEF InOrder
    <3>1. k \in 1 .. Len(passed) /\ more[k] = passed[k]
      BY <1>3, <2>1
    <3>2. CASE k = Len(passed)
      <4>1. more[k].id <= handled /\ more[k].id \in Nat
        BY <1>5, <3>1
      <4>2. more[k + 1].id = handled + 1
        BY <1>1, <2>1, <3>2
      <4> QED
        BY <1>1, <4>1, <4>2
    <3>3. CASE k # Len(passed)
      <4>1. k \in 1 .. Len(passed) - 1 /\ k + 1 \in 1 .. Len(passed)
        BY <1>3, <3>1, <3>3
      <4> QED
        BY <1>3, <2>1, <3>1, <4>1 DEF InOrder
    <3> QED
      BY <3>2, <3>3
  <2>4. ASSUME NEW k \in 1 .. Len(more)
        PROVE  \E i \in 1 .. handled + 1 : arrived[i].ok /\ more[k] = arrived[i]
    <3>1. CASE k \in 1 .. Len(passed)
      <4>1. PICK i \in 1 .. handled : arrived[i].ok /\ passed[k] = arrived[i]
        BY <3>1 DEF PassedOK
      <4>2. i \in 1 .. handled + 1 /\ more[k] = arrived[i]
        BY <1>1, <2>1, <3>1, <4>1
      <4> QED
        BY <4>1, <4>2
    <3>2. CASE k = Len(passed) + 1
      <4>1. handled + 1 \in 1 .. handled + 1
        BY <1>1
      <4> QED
        BY <1>1, <1>7, <2>1, <3>2, <4>1
    <3> QED
      BY <1>3, <2>1, <3>1, <3>2
  <2>5. ASSUME NEW i \in 1 .. handled + 1, arrived[i].ok
        PROVE  \E k \in 1 .. Len(more) : more[k] = arrived[i]
    <3>1. CASE i \in 1 .. handled
      <4>1. PICK k \in 1 .. Len(passed) : passed[k] = arrived[i]
        BY <2>5, <3>1 DEF PassedOK
      <4>2. k \in 1 .. Len(more) /\ more[k] = arrived[i]
        BY <1>3, <2>1, <4>1
      <4> QED
        BY <4>2
    <3>2. CASE i = handled + 1
      <4>1. Len(passed) + 1 \in 1 .. Len(more)
        BY <1>3, <2>1
      <4> QED
        BY <1>1, <2>1, <3>2, <4>1
    <3> QED
      BY <1>6, <3>1, <3>2
  <2> QED
    BY <1>2, <1>4, <2>1, <2>2, <2>3, <2>4, <2>5 DEF PassedOK, InOrder
<1>8. CASE ~ f.ok
  <2>1. passed' = passed
    BY <1>2, <1>8
  <2>2. ASSUME NEW k \in 1 .. Len(passed)
        PROVE  \E i \in 1 .. handled + 1 : arrived[i].ok /\ passed[k] = arrived[i]
    <3>1. PICK i \in 1 .. handled : arrived[i].ok /\ passed[k] = arrived[i]
      BY DEF PassedOK
    <3>2. i \in 1 .. handled + 1
      BY <1>1
    <3> QED
      BY <3>1, <3>2
  <2>3. ASSUME NEW i \in 1 .. handled + 1, arrived[i].ok
        PROVE  \E k \in 1 .. Len(passed) : passed[k] = arrived[i]
    <3>1. i \in 1 .. handled
      BY <1>1, <1>6, <1>8, <2>3
    <3> QED
      BY <2>3, <3>1 DEF PassedOK
  <2> QED
    BY <1>2, <1>3, <1>4, <2>1, <2>2, <2>3 DEF PassedOK, InOrder
<1> QED
  BY <1>7, <1>8

LEMMA EndsKept ==
    ASSUME NEW last \in Seq(Frames), NEW frames \in Seq(Frames), EndOf(last, frames)
    PROVE  /\ last # <<>> => EndOf(Tail(last), frames)
           /\ \A f \in Frames : EndOf(Append(last, f), Append(frames, f))
<1>1. Len(last) \in Nat /\ Len(frames) \in Nat /\ Len(last) <= Len(frames)
  BY LenProperties DEF EndOf
<1>2. ASSUME last # <<>> PROVE EndOf(Tail(last), frames)
  <2> DEFINE rest == Tail(last)
  <2>1. Len(rest) = Len(last) - 1 /\ \A i \in 1 .. Len(rest) : rest[i] = last[i + 1]
    BY <1>2, HeadTailProperties
  <2>2. Len(last) >= 1
    BY <1>1, <1>2, EmptySeq
  <2> HIDE DEF rest
  <2>3. ASSUME NEW i \in 1 .. Len(rest) PROVE rest[i] = frames[Len(frames) - Len(rest) + i]
    <3>1. i + 1 \in 1 .. Len(last) /\ Len(frames) - Len(last) + (i + 1) = Len(frames) - Len(rest) + i
      BY <1>1, <2>1, <2>2
    <3> QED
      BY <2>1, <3>1 DEF EndOf
  <2>4. Len(rest) <= Len(frames)
    BY <1>1, <2>1
  <2>5. EndOf(rest, frames)
    BY <2>3, <2>4 DEF EndOf
  <2> QED
    BY <2>5 DEF rest
<1>3. ASSUME NEW f \in Frames PROVE EndOf(Append(last, f), Append(frames, f))
  <2> DEFINE a == Append(last, f)
             b == Append(frames, f)
  <2>1. /\ Len(a) = Len(last) + 1 /\ a[Len(last) + 1] = f
        /\ \A i \in 1 .. Len(last) : a[i] = last[i]
    BY AppendProperties
  <2>2. /\ Len(b) = Len(frames) + 1 /\ b[Len(frames) + 1] = f
        /\ \A i \in 1 .. Len(frames) : b[i] = frames[i]
    BY AppendProperties
  <2> HIDE DEF a, b
  <2>3. ASSUME NEW i \in 1 .. Len(a) PROVE a[i] = b[Len(b) - Len(a) + i]
    <3>1. CASE i = Len(last) + 1
      <4>1. Len(b) - Len(a) + i = Len(frames) + 1
        BY <1>1, <2>1, <2>2, <3>1
      <4> QED
        BY <2>1, <2>2, <3>1, <4>1
    <3>2. CASE i # Len(last) + 1
      <4>1. /\ i \in 1 .. Len(last) /\ Len(b) - Len(a) + i = Len(frames) - Len(last) + i
            /\ Len(frames) - Len(last) + i \in 1 .. Len(frames)
        BY <1>1, <2>1, <2>2, <3>2
      <4> QED
        BY <2>1, <2>2, <4>1 DEF EndOf
    <3> QED
      BY <3>1, <3>2
  <2>4. Len(a) <= Len(b)
    BY <1>1, <2>1, <2>2
  <2>5. EndOf(a, b)
    BY <2>3, <2>4 DEF EndOf
  <2> QED
    BY <2>5 DEF a, b
<1> QED
  BY <1>2, <1>3

LEMMA HistoryStep ==
    ASSUME RingsOK, PassedOK, HistoryOK, RingNext
    PROVE  HistoryOK'
<1>1. /\ receive_queue \in Seq(Frames) /\ passed \in Seq(Frames) /\ EndOf(receive_queue, passed)
      /\ Len(receive_queue) <= QueueSize /\ Len(receive_queue) \in Nat
      /\ QueueSize \in Nat /\ QueueSize > 0
  BY LenProperties, E1000Assumption DEF HistoryOK, PassedOK
<1>2. CASE UNCHANGED <<receive_queue, passed>>
  BY <1>2 DEF HistoryOK, EndOf
<1>3. CASE ReceiveFrame
  <2>1. /\ receive_queue # <<>> /\ receive_queue' = Tail(receive_queue) /\ passed' = passed
    BY <1>3 DEF ReceiveFrame
  <2>2. /\ Tail(receive_queue) \in Seq(Frames)
        /\ Len(Tail(receive_queue)) = Len(receive_queue) - 1
    BY <1>1, <2>1, HeadTailProperties
  <2>3. EndOf(Tail(receive_queue), passed)
    BY <1>1, <2>1, EndsKept
  <2>4. Len(Tail(receive_queue)) <= QueueSize
    BY <1>1, <2>2
  <2> QED
    BY <2>1, <2>2, <2>3, <2>4 DEF HistoryOK, EndOf
<1>4. CASE PollReceived
  <2> DEFINE f == rx.buf[rx.at]
             room == IF Len(receive_queue) >= QueueSize THEN Tail(receive_queue)
                     ELSE receive_queue
  <2>1. f \in Frames
    BY <1>4, Polled
  <2>2. IF f.ok THEN receive_queue' = Append(room, f) /\ passed' = Append(passed, f)
        ELSE UNCHANGED <<receive_queue, passed>>
    BY <1>4 DEF PollReceived, SubmitReceived
  <2> HIDE DEF f
  <2>3. room \in Seq(Frames) /\ Len(room) < QueueSize /\ EndOf(room, passed)
    <3>1. CASE Len(receive_queue) >= QueueSize
      <4>1. receive_queue # <<>>
        BY <1>1, <3>1, EmptySeq
      <4>2. /\ Tail(receive_queue) \in Seq(Frames)
            /\ Len(Tail(receive_queue)) = Len(receive_queue) - 1
        BY <1>1, <4>1, HeadTailProperties
      <4>3. EndOf(Tail(receive_queue), passed)
        BY <1>1, <4>1, EndsKept
      <4> QED
        BY <1>1, <3>1, <4>2, <4>3
    <3>2. CASE Len(receive_queue) < QueueSize
      BY <1>1, <3>2
    <3> QED
      BY <1>1, <3>1, <3>2
  <2> HIDE DEF room
  <2>4. Append(room, f) \in Seq(Frames) /\ Len(Append(room, f)) = Len(room) + 1
    BY <2>1, <2>3, AppendProperties
  <2>5. EndOf(Append(room, f), Append(passed, f))
    BY <1>1, <2>1, <2>3, EndsKept
  <2>6. Len(Append(room, f)) <= QueueSize
    <3>1. Len(room) \in Nat
      BY <2>3, LenProperties
    <3> QED
      BY <1>1, <2>3, <2>4, <3>1
  <2>7. CASE f.ok
    BY <2>2, <2>4, <2>5, <2>6, <2>7 DEF HistoryOK, EndOf
  <2>8. CASE ~ f.ok
    BY <1>2, <2>2, <2>8
  <2> QED
    BY <2>7, <2>8
<1>5. QueueFrame \/ Fetch \/ (\E ok \in BOOLEAN : Fill(ok)) => UNCHANGED <<receive_queue, passed>>
  BY DEF QueueFrame, Fetch, Fill
<1> QED
  BY <1>2, <1>3, <1>4, <1>5 DEF RingNext

LEMMA RingStep == ASSUME IInv, [RingNext]_ringVars PROVE IInv'
<1> USE DEF IInv
<1>1. CASE UNCHANGED ringVars
  BY <1>1 DEF ringVars, RingsOK, SendingOK, ReceivingOK, Keeps, Turn,
              PassedOK, InOrder, HistoryOK, EndOf
<1>2. CASE QueueFrame
  <2>1. UNCHANGED <<arrived, handled, passed>>
    BY <1>2 DEF QueueFrame
  <2>2. PassedOK'
    BY <2>1 DEF PassedOK, InOrder
  <2> QED
    BY <1>2, <2>2, QueueStep, HistoryStep DEF RingNext
<1>3. CASE Fetch
  <2>1. UNCHANGED <<arrived, handled, passed>>
    BY <1>3 DEF Fetch
  <2>2. PassedOK'
    BY <2>1 DEF PassedOK, InOrder
  <2> QED
    BY <1>3, <2>2, FetchStep, HistoryStep DEF RingNext
<1>4. CASE PollReceived
  BY <1>4, PollStep, PassedAfterPoll, HistoryStep DEF RingNext
<1>5. CASE ReceiveFrame
  <2>1. UNCHANGED <<tx, rx, tdh, rdh, rdt, sent, fetched, arrived, handled, passed>>
    BY <1>5 DEF ReceiveFrame
  <2>2. PassedOK'
    BY <2>1 DEF PassedOK, InOrder
  <2>3. RingsOK'
    BY <2>1 DEF RingsOK, SendingOK, ReceivingOK, Keeps, Turn
  <2> QED
    BY <1>5, <2>2, <2>3, HistoryStep DEF RingNext
<1>6. ASSUME NEW ok \in BOOLEAN, Fill(ok) PROVE IInv'
  BY <1>6, FillStep, PassedAfterFill, HistoryStep DEF RingNext
<1> QED
  BY <1>1, <1>2, <1>3, <1>4, <1>5, <1>6 DEF RingNext

-----------------------------------------------------------------------------
(* From the invariant to what it is for.                                   *)
LEMMA KeptIsHeld ==
    ASSUME NEW ring \in Ring, NEW from \in Slots, NEW frames \in Seq(Frames), NEW n,
           NEW done \in BOOLEAN, Keeps(ring, from, frames, n, done)
    PROVE  Holds(ring, from, Pending(frames, n), done)
<1> DEFINE rest == Pending(frames, n)
<1>1. Len(frames) \in Nat /\ n \in 0 .. Len(frames) /\ Len(frames) - n <= Descriptors
  BY LenProperties DEF Keeps
<1>2. /\ Len(rest) = Len(frames) - n
      /\ \A k \in 1 .. Len(frames) - n : rest[k] = frames[n + k]
  <2>1. /\ n + 1 \in Int /\ Len(frames) \in Int
        /\ \A k \in n + 1 .. Len(frames) : frames[k] \in Frames
    BY <1>1, ElementOfSeq
  <2>2. /\ Len(rest) = IF n + 1 <= Len(frames) THEN Len(frames) - (n + 1) + 1 ELSE 0
        /\ \A k \in 1 .. Len(frames) - (n + 1) + 1 : rest[k] = frames[(n + 1) + k - 1]
    BY <2>1, SubSeqProperties DEF Pending
  <2> HIDE DEF rest
  <2>3. (IF n + 1 <= Len(frames) THEN Len(frames) - (n + 1) + 1 ELSE 0) = Len(frames) - n
    BY <1>1
  <2>4. ASSUME NEW k \in 1 .. Len(frames) - n PROVE rest[k] = frames[n + k]
    <3>1. k \in 1 .. Len(frames) - (n + 1) + 1 /\ (n + 1) + k - 1 = n + k
      BY <1>1
    <3> QED
      BY <2>2, <3>1
  <2> QED
    BY <2>2, <2>3, <2>4
<1> HIDE DEF rest
<1>3. ASSUME NEW j \in Slots
      PROVE  /\ (ring.done[Turn(from, j)] = done) <=> j < Len(rest)
             /\ j < Len(rest) => ring.buf[Turn(from, j)] = rest[j + 1]
  <2>1. /\ (ring.done[Turn(from, j)] = done) <=> j < Len(frames) - n
        /\ j < Len(frames) - n => ring.buf[Turn(from, j)] = frames[n + j + 1]
    BY DEF Keeps
  <2>2. j < Len(rest) => j + 1 \in 1 .. Len(frames) - n /\ n + (j + 1) = n + j + 1
    BY <1>1, <1>2, E1000Assumption DEF Slots
  <2> QED
    BY <1>2, <2>1, <2>2
<1>4. Holds(ring, from, rest, done)
  BY <1>1, <1>2, <1>3 DEF Holds, Turn
<1> QED
  BY <1>4 DEF rest

LEMMA EndIsSuffix ==
    ASSUME NEW last \in Seq(Frames), NEW frames \in Seq(Frames), EndOf(last, frames)
    PROVE  IsSuffix(last, frames)
<1> DEFINE a == Reverse(last)
           b == Reverse(frames)
<1>1. Len(last) \in Nat /\ Len(frames) \in Nat /\ Len(last) <= Len(frames)
  BY LenProperties DEF EndOf
<1>2. /\ a \in Seq(Frames) /\ Len(a) = Len(last)
      /\ \A i \in 1 .. Len(last) : a[i] = last[Len(last) - i + 1]
  BY <1>1 DEF Reverse
<1>3. /\ b \in Seq(Frames) /\ Len(b) = Len(frames)
      /\ \A i \in 1 .. Len(frames) : b[i] = frames[Len(frames) - i + 1]
  BY <1>1 DEF Reverse
<1> HIDE DEF a, b
<1>4. ASSUME NEW i \in 1 .. Len(last) PROVE a[i] = b[i]
  <2>1. /\ Len(last) - i + 1 \in 1 .. Len(last) /\ i \in 1 .. Len(frames)
        /\ Len(frames) - Len(last) + (Len(last) - i + 1) = Len(frames) - i + 1
    BY <1>1
  <2> QED
    BY <1>2, <1>3, <2>1 DEF EndOf
<1> DEFINE p == SubSeq(a, 1, Len(a))
           q == SubSeq(b, 1, Len(a))
<1>5. /\ p \in Seq(Frames) /\ Len(p) = Len(last)
      /\ \A i \in 1 .. Len(last) : p[i] = a[i]
  BY <1>1, <1>2, SubSeqFull
<1>6. /\ q \in Seq(Frames) /\ Len(q) = Len(last)
      /\ \A i \in 1 .. Len(last) : q[i] = b[i]
  <2>1. 1 \in Int /\ Len(a) \in Int /\ \A i \in 1 .. Len(a) : b[i] \in Frames
    BY <1>1, <1>2, <1>3, ElementOfSeq
  <2>2. /\ q \in Seq(Frames) /\ Len(q) = IF 1 <= Len(a) THEN Len(a) - 1 + 1 ELSE 0
        /\ \A i \in 1 .. Len(a) - 1 + 1 : q[i] = b[1 + i - 1]
    BY <2>1, SubSeqProperties
  <2> HIDE DEF q
  <2> QED
    BY <1>1, <1>2, <2>2
<1> HIDE DEF p, q
<1>7. p = q
  BY <1>4, <1>5, <1>6, SeqEqual
<1>8. IsPrefix(a, b)
  BY <1>1, <1>2, <1>3, <1>7 DEF IsPrefix, p, q
<1> QED
  BY <1>8 DEF IsSuffix, a, b

LEMMA PassedRange ==
    ASSUME RingsOK, PassedOK
    PROVE  Range(passed) = {f \in Range(SubSeq(arrived, 1, handled)) : f.ok}
<1> DEFINE s == SubSeq(arrived, 1, handled)
<1>1. handled \in Nat /\ handled <= Len(arrived) /\ arrived \in Seq(Frames) /\ Len(arrived) \in Nat
  BY Numbers
<1>2. s \in Seq(Frames) /\ Len(s) = handled /\ \A i \in 1 .. handled : s[i] = arrived[i]
  <2>1. 1 \in Int /\ handled \in Int /\ \A i \in 1 .. handled : arrived[i] \in Frames
    BY <1>1, ElementOfSeq
  <2>2. /\ s \in Seq(Frames) /\ Len(s) = IF 1 <= handled THEN handled - 1 + 1 ELSE 0
        /\ \A i \in 1 .. handled - 1 + 1 : s[i] = arrived[1 + i - 1]
    BY <2>1, SubSeqProperties
  <2> HIDE DEF s
  <2> QED
    BY <1>1, <2>2
<1> HIDE DEF s
<1>3. Range(s) = {s[i] : i \in 1 .. handled}
  BY <1>2 DEF Range
<1>4. Range(passed) = {passed[k] : k \in 1 .. Len(passed)}
  BY DEF Range, PassedOK
<1>5. ASSUME NEW f \in Range(passed) PROVE f \in Range(s) /\ f.ok
  <2>1. PICK k \in 1 .. Len(passed) : f = passed[k]
    BY <1>4
  <2>2. PICK i \in 1 .. handled : arrived[i].ok /\ passed[k] = arrived[i]
    BY DEF PassedOK
  <2> QED
    BY <1>2, <1>3, <2>1, <2>2
<1>6. ASSUME NEW f \in Range(s), f.ok PROVE f \in Range(passed)
  <2>1. PICK i \in 1 .. handled : f = arrived[i]
    BY <1>2, <1>3
  <2>2. PICK k \in 1 .. Len(passed) : passed[k] = arrived[i]
    BY <1>6, <2>1 DEF PassedOK
  <2> QED
    BY <1>4, <2>1, <2>2
<1>7. Range(passed) = {f \in Range(s) : f.ok}
  BY <1>5, <1>6
<1> QED
  BY <1>7 DEF s

-----------------------------------------------------------------------------
(* The strengthening: it says of every slot of both rings which frame it   *)
(* holds, and where the two indices of each ring stand to each other.      *)
THEOREM RingInvariant == RingSpec => []IInv
<1>1. RingInit => IInv
  BY RingsStart
<1>2. IInv /\ [RingNext]_ringVars => IInv'
  BY RingStep
<1> QED
  BY <1>1, <1>2, PTL DEF RingSpec

(* The rings of e1000.c lose, repeat, reorder and mix up no frame, however *)
(* many descriptors they have and however the driver and the device take   *)
(* turns; the history of network.c is the last of what the protocols got.  *)
THEOREM RingsKeep == RingSpec => []RingsKeepFrames
<1>1. IInv => RingsKeepFrames
  <2> SUFFICES ASSUME IInv PROVE RingsKeepFrames
    OBVIOUS
  <2>1. Holds(tx, tdh, Pending(sent, fetched), FALSE)
    BY KeptIsHeld DEF IInv, RingsOK, SendingOK
  <2>2. Holds(rx, rx.at, Pending(arrived, handled), TRUE)
    <3>1. /\ rx \in Ring /\ rx.at \in Slots /\ arrived \in Seq(Frames) /\ TRUE \in BOOLEAN
          /\ Keeps(rx, rx.at, arrived, handled, TRUE)
      BY Numbers DEF IInv, RingsOK, ReceivingOK
    <3> QED
      BY <3>1, KeptIsHeld
  <2>3. Range(passed) = {f \in Range(SubSeq(arrived, 1, handled)) : f.ok}
    BY PassedRange DEF IInv
  <2>4. InOrder(passed) /\ Len(receive_queue) <= QueueSize /\ IsSuffix(receive_queue, passed)
    BY EndIsSuffix DEF IInv, PassedOK, HistoryOK
  <2> QED
    BY <2>1, <2>2, <2>3, <2>4 DEF RingsKeepFrames
<1> QED
  BY <1>1, RingInvariant, PTL
=============================================================================
