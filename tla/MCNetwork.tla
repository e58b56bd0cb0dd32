----------------------------- MODULE MCNetwork ------------------------------
(***************************************************************************)
(* A subnet of a router, a neighbour and two addresses to lease, with the  *)
(* DNS server behind the router.  The driver's rings and the protocols are *)
(* checked one apart from the other: a behaviour has one of the parts.     *)
(***************************************************************************)
EXTENDS Network, E1000

TestLeases == {"a", "b"}

TestGrants(xid) == IF xid = 1 THEN "a" ELSE "b"

TestHosts == {"peer", "far"}

TestOnLink == {"gw", "peer"} \cup TestLeases

TestSessions ==
    {<<<<"dhcp", "restart">>, <<"arp", "peer">>>>,
     <<<<"ping", "peer">>, <<"ping", "peer">>>>, <<<<"ping", "far">>>>,
     <<<<"dns", "x">>, <<"dns", "x">>>>, <<<<"dns", "x">>, <<"dns", "y">>>>}

VARIABLE part

mcVars == <<part, vars, ringVars>>

MCInit ==
    /\ Init /\ RingInit
    /\ \/ part = "protocols"
       \/ part = "rings" /\ net.dhcp.state = "FAILED" /\ Len(net.todo) = 1

Protocols == part = "protocols" /\ Next /\ UNCHANGED <<part, ringVars>>

Rings == part = "rings" /\ RingNext /\ UNCHANGED <<part, vars>>

MCSpec ==
    /\ MCInit /\ [][Protocols \/ Rings]_mcVars
    /\ part = "protocols" => Fairness
=============================================================================
