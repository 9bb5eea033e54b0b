---------------------------- MODULE MCRouterNode ----------------------------
(***************************************************************************)
(* A router with two networks of two addresses on its interfaces and rules *)
(* for half of the rest: a default through a neighbour, a longer prefix    *)
(* that is direct, one that leads nowhere and one to an interface it has   *)
(* not.  Addresses have three bits.                                        *)
(***************************************************************************)
EXTENDS RouterNode

MCInterfaces == << [ip |-> 1, hostbits |-> 1], [ip |-> 2, hostbits |-> 1] >>
MCRules == << [network |-> 0, netbits |-> 0, nexthop |-> 3, ifIndex |-> 1],
              [network |-> 4, netbits |-> 3, nexthop |-> 0, ifIndex |-> -1],
              [network |-> 6, netbits |-> 2, nexthop |-> 0, ifIndex |-> 0],
              [network |-> 7, netbits |-> 3, nexthop |-> 0, ifIndex |-> 5] >>
MCProxyRules == << [network |-> 6, netbits |-> 3, ifIndex |-> -1],
                   [network |-> 6, netbits |-> 2, ifIndex |-> 0] >>

Packet(kind, src, dst, ttl, size) == [kind |-> kind, src |-> src, dst |-> dst, ttl |-> ttl, size |-> size]

MCPackets == { Packet("data", 0, 5, 2, 1), Packet("echo", 5, 6, 3, 2), Packet("error", 0, 5, 2, 1),
               Packet("data", 5, 3, 0, 2), Packet("error", 0, 5, 1, 1), Packet("echo", 0, 2, 1, 1),
               Packet("data", 0, 1, 1, 1), Packet("data", 0, 4, 2, 1), Packet("data", 0, 7, 2, 1) }

MCArpPackets == { [ip |-> 3, mac |-> "m3", target |-> 2, isRequest |-> FALSE],
                  [ip |-> 3, mac |-> "m3", target |-> 0, isRequest |-> TRUE],
                  [ip |-> 0, mac |-> "m0", target |-> 7, isRequest |-> TRUE],
                  [ip |-> 0, mac |-> "m0", target |-> 6, isRequest |-> TRUE] }
MCStaticArp == [a \in {6} |-> "m6"]
MCRoom == <<2, 3>>
=============================================================================
