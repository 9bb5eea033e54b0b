--------------------------- MODULE MCGatewayRelay ---------------------------
(***************************************************************************)
(* Two gateways, one of which shares its address with the router.          *)
(***************************************************************************)
EXTENDS GatewayRelay

CONSTANTS g, h

MCGateway == {g, h}
MCInterfaces == << [ip |-> 1, hostbits |-> 1] >>
MCRules == << [network |-> 0, netbits |-> 0, nexthop |-> 1, ifIndex |-> 0] >>
MCProxyRules == <<>>
MCMac == [n \in {g, h, router} |-> IF n = h THEN "h" ELSE "shared"]
MCMacs == {"h", "shared", "other", broadcast}

Advertises(network, netbits, hop) == [network |-> network, netbits |-> netbits, nexthop |-> hop, ifIndex |-> 0]
ConnectParameter == [name |-> "connect", rules |-> <<>>, good |-> TRUE]
AdvertiseParameter(rules) == [name |-> "advertise", rules |-> rules, good |-> TRUE]

WholeScripts == {
  <<>>,
  <<ConnectParameter, AdvertiseParameter(<<Advertises(2, 3, 2), Advertises(0, 1, 2)>>)>>,
  <<ConnectParameter, AdvertiseParameter(<<Advertises(2, 2, 3), Advertises(4, 1, 3)>>)>>,
  <<AdvertiseParameter(<<Advertises(4, 2, 2)>>), ConnectParameter>> }

BrokenScripts == {
  <<ConnectParameter, [name |-> "advertise", rules |-> <<Advertises(2, 3, 2)>>, good |-> FALSE]>> }
=============================================================================
