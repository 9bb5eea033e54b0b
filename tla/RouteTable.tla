----------------------------- MODULE RouteTable -----------------------------
(***************************************************************************)
(* What a node knows of the networks around it: the addresses of its       *)
(* interfaces, the rules of its routing table (plugin/Router, RoutingRule) *)
(* and its proxy ARP rules (transceiver/IPBlockRule).  An address has      *)
(* Width bits instead of 32; NULL rules and malformed numbers are refused  *)
(* by the map reader before they come here.                                *)
(***************************************************************************)
EXTENDS Integers, Sequences, FiniteSets, SequencesExt, FiniteSetsExt

CONSTANTS
  Width,       \* bits of an address
  Interfaces,  \* the node's interfaces in order: [ip, hostbits], a mask of Width - hostbits bits
  Rules,       \* the routing-table parameter: [network, netbits, nexthop, ifIndex]
  ProxyRules   \* the proxy-arp parameter: [network, netbits, ifIndex]

ASSUME WidthAssumption == Width \in Nat \ {0}

Address == 0 .. (2 ^ Width - 1)

RoutingRule == [network : Address, netbits : 0..Width, nexthop : Address, ifIndex : Int]

ASSUME RulesAssumption == Rules \in Seq(RoutingRule)

\* address & (-1 << hostbits)
Masked(address, hostbits) == (address \div 2 ^ hostbits) * 2 ^ hostbits

\* A network with bits below its mask matches nothing: it is not masked itself.
Covers(rule, address) == Masked(address, Width - rule.netbits) = rule.network

\* Fault: rules are kept in the order they are written.
AppendedRule(table, rule) == Append(table, rule)

\* qLowerBound by the bits of the host part: longer prefixes first, and a new rule
\* before the old ones of its length.
WithRule(table, rule) ==
  InsertAt(table, 1 + Cardinality({k \in DOMAIN table : table[k].netbits > rule.netbits}), rule)

\* The table after rules were added one by one
WithRules(table, rules) ==
  LET added[n \in 0..Len(rules)] == IF n = 0 THEN table ELSE WithRule(added[n - 1], rules[n])
  IN  added[Len(rules)]

RoutingTable == WithRules(<<>>, Rules)

\* The interface and the next hop for a destination.
Unroutable == [ifIndex |-> -1, hop |-> 0]
Direct(k, destination) == [ifIndex |-> k - 1, hop |-> destination]

OnNetworkOf(k, address) ==
  Masked(Interfaces[k].ip, Interfaces[k].hostbits) = Masked(address, Interfaces[k].hostbits)

ConnectedInterfaces(destination) == {k \in DOMAIN Interfaces : OnNetworkOf(k, destination)}
MatchingRules(destination) == {k \in DOMAIN RoutingTable : Covers(RoutingTable[k], destination)}

Via(rule, destination) ==
  [ifIndex |-> rule.ifIndex, hop |-> IF rule.nexthop # 0 THEN rule.nexthop ELSE destination]

Route(destination) ==
  IF ConnectedInterfaces(destination) # {}
  THEN Direct(Min(ConnectedInterfaces(destination)), destination)
  ELSE IF MatchingRules(destination) # {}
  THEN Via(RoutingTable[Min(MatchingRules(destination))], destination)
  ELSE Unroutable

ValidIndex(ifIndex) == ifIndex + 1 \in DOMAIN Interfaces

AmIDestination(address) == \E k \in DOMAIN Interfaces : Interfaces[k].ip = address

\* The first proxy rule for an address that came in through an interface decides.
ProxyMatches(address, ifIndex) ==
  {k \in DOMAIN ProxyRules : /\ Covers(ProxyRules[k], address)
                             /\ ProxyRules[k].ifIndex \in {ifIndex, -1}}

ShouldRespond(address, ifIndex) ==
  /\ ProxyMatches(address, ifIndex) # {}
  /\ ProxyRules[Min(ProxyMatches(address, ifIndex))].ifIndex # -1
=============================================================================
