------------------------------ MODULE Network ------------------------------
(***************************************************************************)
(* src/src/net between the driver and TCP: ARP, IPv4 routing, UDP, DHCP,   *)
(* DNS and ICMP echo of the one interface, polled by the one kernel thread *)
(* from the shell's idle loop and from the waiting loops of the calls.     *)
(*                                                                         *)
(* A step of the thread runs from one network_poll or hlt to the next, or  *)
(* handles one frame within a poll.  A frame that was sent may be answered *)
(* by conforming hosts at any later time, any number of times or never,    *)
(* which loses, duplicates, delays and reorders; a corrupted frame is a    *)
(* lost one.  The rings of E1000 add only delay and, when they are full,   *)
(* failures to send, which the link may cause at any poll.  A host keeps   *)
(* its hardware address, so the ARP cache is the addresses in its slots.   *)
(* Time passes at hlt: each timer may or may not run out there.            *)
(***************************************************************************)
EXTENDS Naturals, SequencesExt

CONSTANTS
    ArpSlots,     \* ARP_ADDRESS_CACHE_SIZE
    DnsSlots,     \* DNS_CACHE_ENTRIES
    MaxRetries,   \* DHCP_MAX_RETRIES
    Leases,       \* the addresses that the DHCP server grants
    Grants(_),    \* which of them in a transaction
    Hosts,        \* other hosts
    OnLink,       \* the hosts and leases in the subnet
    Gateway,      \* the router, which is the DHCP server as well
    Resolver,     \* the DNS server
    Names,        \* host names
    Sessions      \* bound: the sequences of commands that users give

ASSUME NetworkAssumption ==
    /\ {ArpSlots, DnsSlots} \subseteq Nat \ {0}
    /\ MaxRetries \in Nat /\ Sessions \subseteq
         Seq({"dhcp"} \X {"restart"} \cup {"ping", "arp"} \X Hosts \cup {"dns"} \X Names)
    /\ Gateway \in OnLink /\ Leases \subseteq OnLink
    /\ (Hosts \cup {Resolver}) \cap Leases = {} /\ "nobody" \notin Names

VARIABLES
    net  \* the network stack, the call in it, and what was sent and may be answered

vars == <<net>>

Nobody == "nobody"

Idle == [op |-> "idle"]

States == {"STOPPED", "DISCOVERING", "REQUESTING", "RENEWING", "REBINDING", "BOUND",
           "FAILED"}

Negotiating == {"DISCOVERING", "REQUESTING"}

Leased == {"BOUND", "RENEWING", "REBINDING"}

(* The frames that this machine sends.                                     *)
Discover(xid) == [t |-> "discover", xid |-> xid]

(* all: the broadcast flag, which asks for an answer by broadcast.         *)
Request(xid, address, all) ==
    [t |-> "request", xid |-> xid, address |-> address, all |-> all]

ArpRequest(target) == [t |-> "arpRequest", target |-> target]

ArpReply(to) == [t |-> "arpReply", to |-> to]

Query(id, name, from) == [t |-> "query", id |-> id, name |-> name, from |-> from]

Echo(id, to, from) == [t |-> "echo", id |-> id, to |-> to, from |-> from]

EchoReply(to) == [t |-> "echoReply", to |-> to]

(* What conforming hosts send: answers to what they heard, ARP and echo    *)
(* requests of their own.  An answer of DNS with time to live zero is      *)
(* "once"; the address in an answer is the one of the name.                *)
AnswersTo(f) ==
    CASE f.t = "discover" ->
           {[t |-> "offer", src |-> Gateway, to |-> "all", xid |-> f.xid,
             address |-> Grants(f.xid)]}
      [] f.t = "request" ->
           {[t |-> "ack", src |-> Gateway, to |-> IF f.all THEN "all" ELSE f.address,
             xid |-> f.xid, address |-> f.address]}
      [] f.t = "arpRequest" /\ f.target \in OnLink \ Leases ->
           {[t |-> "arpReply", src |-> f.target]}
      [] f.t = "query" ->
           {[t |-> "answer", src |-> Resolver, to |-> f.from, id |-> f.id,
             name |-> f.name, kind |-> kind] : kind \in {"kept", "once", "error"}}
      [] f.t = "echo" ->
           {[t |-> "echoReply", src |-> f.to, to |-> f.from, id |-> f.id]}
      [] OTHER -> {}

Unasked ==
    {[t |-> "arpRequest", src |-> h, target |-> a] :
        h \in (Hosts \cap OnLink) \ {Gateway}, a \in Leases}
    \cup {[t |-> "echo", src |-> h, to |-> a] : h \in Hosts \ OnLink, a \in Leases}

Answerable(f) == IF AnswersTo(f) = {} THEN {} ELSE {f}

Arrivals == (UNION {AnswersTo(f) : f \in net.sent}) \cup Unasked

-----------------------------------------------------------------------------
(* Sending: an operator gives the new state and whether the frame went out.*)

Sent(n, ok) == [n |-> n, ok |-> ok]

Transmit(n, f) ==
    IF n.link THEN Sent([n EXCEPT !.sent = @ \cup Answerable(f)], TRUE) ELSE Sent(n, FALSE)

IsConfigured(n) == n.cfg \in Leases

Route(n, address) ==
    IF IsConfigured(n) /\ address \notin OnLink THEN Gateway ELSE address

ArpKnows(n, address) == \E i \in 1 .. ArpSlots : n.arp.slot[i] = address

ArpLearn(n, address) ==
    IF ArpKnows(n, address) THEN n
    ELSE [n EXCEPT !.arp = [slot |-> [@.slot EXCEPT ![n.arp.next] = address],
                            next |-> 1 + (@.next % ArpSlots)]]

IpSend(n, to, f) ==
    IF to = "all" \/ ArpKnows(n, Route(n, to)) THEN Transmit(n, f)
    ELSE Sent(IF IsConfigured(n) THEN Transmit(n, ArpRequest(Route(n, to))).n ELSE n, FALSE)

-----------------------------------------------------------------------------
(* DHCP.                                                                   *)

DhcpMessage(n) ==
    CASE n.dhcp.state = "DISCOVERING" -> Discover(n.dhcp.xid)
      [] n.dhcp.state = "REQUESTING" -> Request(n.dhcp.xid, n.dhcp.offered, TRUE)
      [] n.dhcp.state = "RENEWING" -> Request(n.dhcp.xid, n.cfg, FALSE)
      [] OTHER -> Request(n.dhcp.xid, n.cfg, TRUE)

DhcpSend(n) ==
    IpSend([n EXCEPT !.dhcp.due = FALSE],
           IF n.dhcp.state = "RENEWING" THEN Gateway ELSE "all", DhcpMessage(n))

OrFailed(sent) == IF sent.ok THEN sent.n ELSE [sent.n EXCEPT !.dhcp.state = "FAILED"]

DhcpStart(n) ==
    IF ~ n.link THEN [n EXCEPT !.dhcp.state = "FAILED"]
    ELSE OrFailed(DhcpSend([n EXCEPT !.dhcp =
             [@ EXCEPT !.state = "DISCOVERING", !.xid = n.dhcp.xid + 1, !.retries = 0,
                       !.offered = Nobody]]))

(* The code without its comparison of transaction identifiers.             *)
DhcpXidIgnored(n, f) == TRUE

DhcpXidMatches(n, f) == f.xid = n.dhcp.xid

DhcpReceive(n, f) ==
    CASE DhcpXidMatches(n, f) /\ f.t = "offer" /\ n.dhcp.state = "DISCOVERING" ->
           OrFailed(DhcpSend([n EXCEPT !.dhcp =
               [@ EXCEPT !.state = "REQUESTING", !.retries = 0, !.offered = f.address]]))
      [] DhcpXidMatches(n, f) /\ f.t = "ack"
         /\ n.dhcp.state \in {"REQUESTING", "RENEWING", "REBINDING"} ->
           [n EXCEPT !.cfg = f.address, !.dhcp.state = "BOUND", !.dhcp.age = "fresh",
                     !.dhcp.due = FALSE]
      [] OTHER -> n

(* The whole lease time, half of it and seven eighths of it.  A lease      *)
(* without end is one that does not age.                                   *)
DhcpBoundPoll(n) ==
    CASE n.dhcp.age = "over" -> [n EXCEPT !.cfg = "zero", !.dhcp.state = "FAILED"]
      [] n.dhcp.age \in {"half", "late"} ->
           DhcpSend([n EXCEPT !.dhcp.state = "RENEWING", !.dhcp.retries = 0]).n
      [] OTHER -> n

(* The code with > for >= at the limit of retries.                         *)
GivesUpLate(n) == n.dhcp.retries > MaxRetries /\ n.dhcp.state \in Negotiating

GivesUp(n) == n.dhcp.retries >= MaxRetries /\ n.dhcp.state \in Negotiating

(* The counter of a renewal is not limited and stands still in the model.  *)
DhcpRetry(n) ==
    IF GivesUp(n) THEN [n EXCEPT !.dhcp.state = "FAILED"]
    ELSE OrFailed(DhcpSend([n EXCEPT !.dhcp.retries =
             IF n.dhcp.state \in Negotiating THEN @ + 1 ELSE @]))

DhcpPoll(n) ==
    CASE n.dhcp.state = "BOUND" -> DhcpBoundPoll(n)
      [] n.dhcp.state = "RENEWING" /\ n.dhcp.age \in {"late", "over"} ->
           DhcpSend([n EXCEPT !.dhcp.state = "REBINDING", !.dhcp.retries = 0]).n
      [] n.dhcp.state \in Negotiating \cup {"RENEWING", "REBINDING"} /\ n.dhcp.due
         /\ ~ (n.dhcp.state = "RENEWING" /\ n.dhcp.age \in {"late", "over"}) ->
           DhcpRetry(n)
      [] OTHER -> n

-----------------------------------------------------------------------------
(* Receiving: the handlers that a frame is dispatched to.                  *)

ArpReceive(n, f) ==
    IF f.t = "arpRequest" /\ f.target = n.cfg
    THEN Transmit(ArpLearn(n, f.src), ArpReply(f.src)).n
    ELSE ArpLearn(n, f.src)

DnsCacheStore(n, name, kind) ==
    [n EXCEPT !.dns.cache = IF kind = "kept" THEN [@ EXCEPT ![n.dns.next] = name] ELSE @,
              !.dns.next = 1 + (@ % DnsSlots)]

DnsExpects(n, f) ==
    /\ n.call.op = "dns" /\ n.call.stage = "answer"
    /\ f.id = n.call.id

DnsReceive(n, f) ==
    CASE ~ DnsExpects(n, f) -> n
      [] DnsExpects(n, f) /\ (f.kind = "error" \/ f.name # n.call.arg) ->
           [n EXCEPT !.call.result = "failed"]
      [] OTHER -> [DnsCacheStore(n, n.call.arg, f.kind) EXCEPT
                      !.call.result = f.name, !.call.by = f.id]

(* The code without its comparison of identifier and sequence number.      *)
IcmpExpectsAny(n, f) ==
    n.call.op = "ping" /\ n.call.stage = "reply" /\ f.src = n.call.arg

IcmpExpects(n, f) ==
    /\ n.call.op = "ping" /\ n.call.stage = "reply"
    /\ f.id = n.call.id /\ f.src = n.call.arg

IcmpReceive(n, f) ==
    CASE f.t = "echoReply" /\ IcmpExpects(n, f) ->
           [n EXCEPT !.call.result = f.src, !.call.by = f.id]
      [] f.t = "echo" /\ IsConfigured(n) -> IpSend(n, f.src, EchoReply(f.src)).n
      [] OTHER -> n

IpAccepts(n, f) == f.to = "all" \/ (IsConfigured(n) /\ f.to = n.cfg)

IpReceive(n, f) ==
    CASE ~ IpAccepts(n, f) -> n
      [] IpAccepts(n, f) /\ f.t \in {"offer", "ack"} -> DhcpReceive(ArpLearn(n, f.src), f)
      [] IpAccepts(n, f) /\ f.t = "answer" -> DnsReceive(ArpLearn(n, f.src), f)
      [] OTHER -> IcmpReceive(ArpLearn(n, f.src), f)

EthernetReceive(n, f) ==
    IF f.t \in {"arpRequest", "arpReply"} THEN ArpReceive(n, f) ELSE IpReceive(n, f)

-----------------------------------------------------------------------------
(* The calls of the user and their waiting loops.                          *)

Poll(n) == [n EXCEPT !.phase = "poll"]

(* The call returns to the shell, whose idle loop polls next.  For the     *)
(* properties, last is the last successful call, by what it was answered.  *)
Return(n, answer) ==
    Poll([n EXCEPT !.call = Idle,
                   !.last = IF answer = "failed" THEN @
                            ELSE [op |-> n.call.op, arg |-> n.call.arg,
                                  id |-> n.call.id, by |-> n.call.by,
                                  answer |-> answer]])

Resolving(op, arg, target, id) ==
    [op |-> op, arg |-> arg, target |-> target, id |-> id, stage |-> "resolve",
     wait |-> "fresh", from |-> Nobody, result |-> Nobody, by |-> id, retried |-> FALSE]

(* The address is resolved: send the echo request or the query.            *)
PingSend(n) ==
    LET sent == IpSend(n, n.call.arg, Echo(n.call.id, n.call.arg, n.cfg))
    IN  IF IsConfigured(n) /\ sent.ok
        THEN Poll([sent.n EXCEPT !.call.stage = "reply", !.call.wait = "fresh"])
        ELSE Return(IF IsConfigured(n) THEN sent.n ELSE n, "failed")

(* The configuration is the one that was copied when the call began.       *)
DnsQuery(n) == IpSend(n, Resolver, Query(n.call.id, n.call.arg, n.call.from))

DnsSend(n) ==
    LET sent == DnsQuery(n)
    IN  IF sent.ok
        THEN Poll([sent.n EXCEPT !.call.stage = "answer", !.call.wait = "fresh"])
        ELSE Return(sent.n, "failed")

Resolved(n) ==
    CASE n.call.op = "ping" -> PingSend(n)
      [] n.call.op = "dns" -> DnsSend(n)
      [] OTHER -> Return(n, n.call.arg)

(* The code with its deadline counted from the retry.                      *)
ExpiredAfterRetry(n) == n.call.wait = "over" /\ n.call.retried

(* The head of the loop that the thread waits in, after hlt.               *)
Expired(n) == n.call.wait = "over"

LoopHead(n) ==
    CASE n.call = Idle -> Poll(n)
      [] n.call # Idle /\ n.call.result # Nobody -> Return(n, n.call.result)
      [] n.call # Idle /\ n.call.result = Nobody /\ Expired(n) -> Return(n, "failed")
      [] n.call # Idle /\ n.call.result = Nobody /\ n.call.wait = "half"
         /\ ~ n.call.retried -> Poll([DnsQuery(n).n EXCEPT !.call.retried = TRUE])
      [] OTHER -> Poll(n)

(* The body of the loop after network_poll: resolve looks in the ARP cache.*)
LoopBody(n) ==
    IF n.call # Idle /\ n.call.stage = "resolve" /\ ArpKnows(n, n.call.target)
    THEN Resolved(n) ELSE [n EXCEPT !.phase = "rest"]

Resolve(n, call) ==
    LET m == [n EXCEPT !.call = call]
        request == Transmit(m, ArpRequest(call.target))
    IN  CASE call.op # "arp" /\ ArpKnows(m, call.target) -> Resolved(m)
          [] request.ok /\ (call.op = "arp" \/ ~ ArpKnows(m, call.target)) -> Poll(request.n)
          [] OTHER -> Return(m, "failed")

-----------------------------------------------------------------------------
(* link: do frames go out in this step?                                    *)
Init ==
    \E link \in BOOLEAN, session \in Sessions :
        net = DhcpStart([
             link |-> link, sent |-> {}, todo |-> session,
             dhcp |-> [state |-> "STOPPED", xid |-> 0, retries |-> 0, offered |-> Nobody,
                       due |-> FALSE, age |-> "fresh"],
             cfg |-> "never",
             arp |-> [slot |-> [i \in 1 .. ArpSlots |-> Nobody], next |-> 1],
             dns |-> [cache |-> [i \in 1 .. DnsSlots |-> Nobody], next |-> 1],
             call |-> Idle, calls |-> 0, last |-> Idle, phase |-> "poll"])

(* A step of the thread, in which frames go out or do not.  What the last  *)
(* call was answered is kept for one state only, for the properties.       *)
Link(up) == [net EXCEPT !.link = up, !.last = Idle]

Goes(n) == net' = [n EXCEPT !.link = TRUE]

(* A frame that a poll finds; the rings bound how many there are.          *)
PollFrame ==
    /\ net.phase = "poll"
    /\ \E f \in Arrivals, link \in BOOLEAN :
         Goes(EthernetReceive(Link(link), f))

(* The rest of network_poll, and of the loop that called it.               *)
PollEnd ==
    /\ net.phase = "poll"
    /\ \E link \in BOOLEAN : Goes(LoopBody(DhcpPoll(Link(link))))

(* The timers that may run out while the thread halts; due is whether the  *)
(* time of the next retransmission has come, and each send puts it off.    *)
Timers ==
    {x \in {"wait", "due", "age"} :
        CASE x = "wait" -> net.call # Idle
          [] x = "due" -> net.dhcp.state \in Negotiating \cup {"RENEWING", "REBINDING"}
          [] OTHER -> net.dhcp.state \in {"BOUND", "RENEWING"}}

Cached == {name \in Names : \E i \in 1 .. DnsSlots : net.dns.cache[i] = name}

Ages == <<"fresh", "half", "late", "over">>

(* While an application runs that does not poll, a lease may age by more   *)
(* than one of these parts.  Renewing, the code looks at seven eighths     *)
(* alone, so that what is later makes no difference.                       *)
Later(dhcp) ==
    {Ages[j] : j \in {j \in 1 .. 4 : \E i \in 1 .. j - 1 : Ages[i] = dhcp.age}}
        \ (IF dhcp.state = "RENEWING" THEN {"over"} ELSE {})

Advance(n, T, age, stale) ==
    [n EXCEPT
        !.call = IF "wait" \in T
                 THEN [@ EXCEPT !.wait = IF n.call.wait = "fresh" /\ n.call.stage = "answer"
                                         THEN "half" ELSE "over"]
                 ELSE @,
        !.dhcp.due = @ \/ "due" \in T,
        !.dhcp.age = age,
        !.dns.cache = [i \in 1 .. DnsSlots |-> IF @[i] \in stale THEN Nobody ELSE @[i]]]

(* An interrupt ends the hlt; meanwhile the timers in T ran out, and the   *)
(* entries of the stale names in the DNS cache.                            *)
Wake(T) ==
    /\ net.phase = "rest" /\ T \subseteq Timers
    /\ \E age \in IF "age" \in T THEN Later(net.dhcp) ELSE {net.dhcp.age},
          stale \in SUBSET Cached, link \in BOOLEAN :
         Goes(LoopHead(Advance(Link(link), T, age, stale)))

-----------------------------------------------------------------------------
(* The user's calls, from the shell.                                       *)

CanCall(op, arg) ==
    /\ net.phase = "rest" /\ net.call = Idle
    /\ net.todo # <<>> /\ Head(net.todo) = <<op, arg>>

Called(n) == [n EXCEPT !.todo = Tail(@), !.calls = @ + 1]

Ping(target) ==
    /\ CanCall("ping", target) /\ IsConfigured(net)
    /\ \E link \in BOOLEAN :
         Goes(Resolve(Called(Link(link)),
                      Resolving("ping", target, Route(net, target), net.calls)))

(* The code without its comparison of names in the cache.                  *)
CacheHitAny(n, name, i) == n.dns.cache[i] # Nobody

CacheHit(n, name, i) == n.dns.cache[i] = name

DnsCacheLookup(n, name) == {i \in 1 .. DnsSlots : CacheHit(n, name, i)}

DnsResolveIpv4(name) ==
    LET call == [Resolving("dns", name, Route(net, Resolver), net.calls) EXCEPT
                    !.from = net.cfg]
    IN  /\ CanCall("dns", name)
        /\ \/ \E i \in DnsCacheLookup(net, name) :
                 Goes(Return([Called(net) EXCEPT !.call = call], net.dns.cache[i]))
           \/ /\ DnsCacheLookup(net, name) = {} /\ IsConfigured(net)
              /\ \E link \in BOOLEAN : Goes(Resolve(Called(Link(link)), call))

NetArp(target) ==
    /\ CanCall("arp", target) /\ net.cfg # "never"
    /\ \E link \in BOOLEAN :
         Goes(Resolve(Called(Link(link)), Resolving("arp", target, target, net.calls)))

NetDhcp ==
    /\ CanCall("dhcp", "restart")
    /\ \E link \in BOOLEAN : Goes(Poll(DhcpStart(Called(Link(link)))))

Thread == PollEnd \/ \E T \in SUBSET Timers : Wake(T)

User ==
    \/ NetDhcp
    \/ \E target \in Hosts : Ping(target) \/ NetArp(target)
    \/ \E name \in Names : DnsResolveIpv4(name)

Next == PollFrame \/ Thread \/ User

(* A poll ends, the thread comes back to hlt for ever, and the clock that  *)
(* its waits read goes on: whoever keeps waiting for one of these times    *)
(* is woken by it in the end.                                              *)
Passes(timer) ==
    net.phase = "rest" /\ timer \in Timers /\ \E T \in SUBSET Timers : timer \in T /\ Wake(T)

Fairness == WF_vars(PollEnd) /\ SF_vars(Passes("wait")) /\ SF_vars(Passes("due"))

Spec == Init /\ [][Next]_vars /\ Fairness

-----------------------------------------------------------------------------
(* The state has its type.                                                 *)
TypeOK ==
    /\ net.phase \in {"poll", "rest"} 
    /\ net.dhcp.state \in States /\ net.dhcp.xid \in 0 .. 1 + net.calls
    /\ net.dhcp.retries \in 0 .. MaxRetries
    /\ net.cfg \in {"never", "zero"} \cup Leases
    /\ net.arp.next \in 1 .. ArpSlots /\ net.dns.next \in 1 .. DnsSlots
    /\ net.call # Idle => net.call.id < net.calls

(* While the client believes in a lease, the address in use is the one     *)
(* that the server was asked for in the present transaction, however late  *)
(* answers of an earlier negotiation arrive (dhcp_receive).                *)
LeaseGranted ==
    net.dhcp.state \in Leased =>
        \E f \in net.sent : /\ f.t = "request"
                         /\ f.xid = net.dhcp.xid /\ f.address = net.cfg

(* A host name resolves to an address that the DNS server gave for this    *)
(* name, from a late answer, a retried query or the cache as well          *)
(* (dns_receive, dns_cache_lookup, dns_resolve_ipv4).                      *)
ResolvedTrue ==
    net.last.op = "dns" =>
        /\ net.last.answer = net.last.arg
        /\ \E f \in net.sent : f.t = "query" /\ f.name = net.last.arg

(* A ping succeeds by the reply of the host to its own echo request: the   *)
(* late reply to an earlier ping of the same host does not count, which    *)
(* would report a dead host as alive (icmp_ping, icmp_receive).            *)
PingAnswered ==
    net.last.op = "ping" =>
        /\ net.last.by = net.last.id
        /\ \E f \in net.sent : f.t = "echo" /\ f.id = net.last.id /\ f.to = net.last.arg

(* Whatever the network loses, the thread leaves every waiting loop, so    *)
(* that the shell takes keys again, and a negotiation comes to an end      *)
(* (ipv4_resolve, dns_resolve_ipv4, icmp_ping, command_net, dhcp_poll).    *)
CallsReturn == []<>(net.call = Idle) /\ []<>(net.dhcp.state \notin Negotiating)
=============================================================================
