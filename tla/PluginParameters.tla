-------------------------- MODULE PluginParameters --------------------------
(***************************************************************************)
(* The parameters of plugin nodes (plugin/*::setParameter): which plugins  *)
(* there are, which parameters each of them accepts, and what becomes of   *)
(* them.  A value is a text: <<"word", w>>, <<"number", n>> or             *)
(* <<"address", a>>, by the strictest reading it has.  The settings of a   *)
(* node are a function over the parameters that were set.                  *)
(***************************************************************************)
EXTENDS Integers, SequencesExt, TLC

CONSTANTS
  Adapters,         \* network adapters that have a router
  MinimumDataSize   \* the data of the smallest UDP ping

Installed ==
  {"SimulatedNode", "InternetGateWayNode", "Router", "GeneralTCPReverseProxyPlugin", "Pinger",
   "OneToOneIcmpProxy", "UDPPinger", "UDPPingResponder", "BitTorrentTracker"}

Single(vs, kind) == Len(vs) = 1 /\ vs[1][1] = kind
OneOf(vs, words) == Single(vs, "word") /\ vs[1][2] \in words
Flag(vs) == OneOf(vs, {"true", "false"})
AtLeast(v, n) == v[1] = "number" /\ v[2] >= n
Port(v) == AtLeast(v, 0) /\ v[2] < 65536

\* The values are rows of n texts, each of which satisfies a test.
Rows(vs, n, Test(_)) ==
  Len(vs) % n = 0 /\ \A k \in 1 .. Len(vs) \div n : Test(SubSeq(vs, n * (k - 1) + 1, n * k))

\* PluginNode, and what the plugins add to it
NodeAccepts(name, vs) == name \in {"handle-arp", "handle-ping"} /\ Flag(vs)

SimulatedAccepts(name, vs) ==
  \/ name = "custom-information"
  \/ name = "accept-packets" /\ OneOf(vs, {"all", "ip-ver4-only", "unicast-ip-ver4-only"})

RoutingRow(r) == r[2][1] = "number" /\ AtLeast(r[4], -1)
ProxyRow(r) == r[2][1] = "number" /\ r[3][1] = "number"
RouterAccepts(name, vs) ==
  \/ name = "routing-table" /\ Rows(vs, 4, RoutingRow)
  \/ name = "proxy-arp" /\ Rows(vs, 3, ProxyRow)

GatewayAccepts(settings, name, vs) ==
  \/ /\ name = "internet-connection" /\ Len(vs) \in {1, 2} /\ OneOf(<<vs[1]>>, Adapters)
     /\ Len(vs) = 2 => OneOf(Tail(vs), {"disable-default-route", "enable-default-route"})
  \/ /\ name = "advertised-networks" /\ Len(vs) % 2 = 1
     /\ \A k \in DOMAIN vs : k > 1 /\ k % 2 = 1 => vs[k][1] = "number"
     /\ "internet-connection" \in DOMAIN settings
  \/ RouterAccepts(name, vs)

MappingRow(r) == Port(r[1]) /\ r[2][1] = "address" /\ Port(r[3])
ProxyAccepts(name, vs) == name = "port-mapping" /\ Rows(vs, 3, MappingRow)

\* The target and the next hop of a pinger are set once.
Targets(settings, name, vs) ==
  name \in {"target-host", "next-hop"} \ DOMAIN settings /\ Single(vs, "address")

PingerAccepts(settings, name, vs) ==
  \/ Targets(settings, name, vs)
  \/ name = "identifier-mode" /\ OneOf(vs, {"incremental", "random"})
  \/ name = "data-size" /\ Single(vs, "number")
  \/ name = "verbose" /\ Flag(vs)

UdpPingerAccepts(settings, name, vs) ==
  \/ Targets(settings, name, vs)
  \/ name \in {"source-port", "destination-port"} /\ Single(vs, "number")
  \/ name = "data-size" /\ Len(vs) = 1 /\ AtLeast(vs[1], MinimumDataSize)
  \/ name = "verbose" /\ Flag(vs)

HostsAccepted(name, vs) ==
  name \in {"first-host", "second-host"} /\ Len(vs) = 2 /\ \A k \in 1..2 : vs[k][1] = "address"

ResponderAccepts(name, vs) == name = "udp-checksum-required" /\ Flag(vs)

TrackerAccepts(name, vs) ==
  \/ name \in {"port", "peer-expire-time"} /\ Single(vs, "number")
  \/ name \in {"force-udp-checksum", "verbose"} /\ Flag(vs)

Accepts(plugin, settings, name, vs) ==
  \/ NodeAccepts(name, vs)
  \/ plugin = "SimulatedNode" /\ SimulatedAccepts(name, vs)
  \/ plugin = "Router" /\ RouterAccepts(name, vs)
  \/ plugin = "InternetGateWayNode" /\ GatewayAccepts(settings, name, vs)
  \/ plugin = "GeneralTCPReverseProxyPlugin" /\ ProxyAccepts(name, vs)
  \/ plugin = "Pinger" /\ PingerAccepts(settings, name, vs)
  \/ plugin = "UDPPinger" /\ UdpPingerAccepts(settings, name, vs)
  \/ plugin = "OneToOneIcmpProxy" /\ HostsAccepted(name, vs)
  \/ plugin = "UDPPingResponder" /\ ResponderAccepts(name, vs)
  \/ plugin = "BitTorrentTracker" /\ TrackerAccepts(name, vs)

\* Rules and mappings are added to earlier ones; a port keeps 16 bits, a time is turned
\* into milli-seconds, and an identifier is the next one of all pingers of the server.
SettingOf(settings, name, vs, lastIdentifier) ==
  CASE name \in {"routing-table", "port-mapping", "advertised-networks"} ->
         (IF name \in DOMAIN settings THEN settings[name] ELSE <<>>) \o vs
    [] name \in {"port", "source-port", "destination-port"} -> <<vs[1][2] % 65536>>
    [] name = "peer-expire-time" -> <<vs[1][2] * 1000>>
    [] name = "identifier-mode" /\ vs[1][2] = "incremental" -> <<(lastIdentifier + 1) % 65536>>
    [] OTHER -> vs

SetParameter(settings, name, vs, lastIdentifier) ==
  name :> SettingOf(settings, name, vs, lastIdentifier) @@ settings

CountsUp(name, vs) == name = "identifier-mode" /\ vs[1][2] = "incremental"
=============================================================================
