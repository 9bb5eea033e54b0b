------------------------------ MODULE Pingers ------------------------------
(***************************************************************************)
(* Plugins that measure round trips (plugin/Pinger and plugin/UDPPinger),  *)
(* the nodes that answer them (map/Node, plugin/UDPPingResponder) and the  *)
(* proxy that passes pings between two hosts (plugin/OneToOneIcmpProxy).   *)
(* A ping is a changed copy of one template packet, stamped with the       *)
(* clock, and the answer brings the stamp back; packets stay on the way,   *)
(* so that they may be overtaken, come twice or never.                     *)
(***************************************************************************)
EXTENDS PluginTicks, FiniteSetsExt, TLC

CONSTANTS
  Udp,           \* the pingers that are UDPPingers
  OwnAddress,    \* by pinger
  Target,        \* by pinger: the address to ping, or "none" when the map gives none
  Identifier,    \* by pinger: identifier or sourcePort
  EchoPort,      \* destinationPort
  EchoHost,      \* the addresses of nodes that answer ICMP echo requests
  UdpResponder,  \* the addresses of UDPPingResponders
  Proxy,         \* the OneToOneIcmpProxy: [first, second, in, out], in towards first
  MaxReplies     \* bound: replies that one pinger counts

VARIABLES
  template,      \* by pinger: [seq, at] of the packet that is cloned; {} before the first
  sentPings, receivedPingReplies,
  net,           \* packets that were sent
  sentAt,        \* history: by pinger, when each of its pings was sent
  measured       \* history: [pinger, seq, now, rtt] of the counted replies

pingVars == <<template, sentPings, receivedPingReplies, net, sentAt, measured>>

PingInit ==
  /\ template = [p \in Plugin |-> {}]
  /\ sentPings = [p \in Plugin |-> 0] /\ receivedPingReplies = [p \in Plugin |-> 0]
  /\ net = {} /\ sentAt = [p \in Plugin |-> <<>>] /\ measured = {}

\* createIcmpEchoRequestMessage and createUDPPacket, with the fields set for one ping
EchoRequest(p, t) ==
  [proto |-> "icmp", type |-> "echo", src |-> OwnAddress[p], dst |-> Target[p],
   id |-> Identifier[p], seq |-> t.seq, at |-> t.at]
UdpPacket(p, t) ==
  [proto |-> "udp", src |-> OwnAddress[p], dst |-> Target[p],
   sport |-> Identifier[p], dport |-> EchoPort, seq |-> t.seq, at |-> t.at]

LastSeq(p) == IF template[p] = {} THEN 0 ELSE (CHOOSE t \in template[p] : TRUE).seq

\* A sequence number has 16 bits.
Wrapped(n) == n % 65536

\* Fault: the stamp is set when the template is created.
StampedOnce(p, now) ==
  [seq |-> Wrapped(LastSeq(p) + 1),
   at |-> IF template[p] = {} THEN now ELSE (CHOOSE t \in template[p] : TRUE).at]

Stamped(p, now) == [seq |-> Wrapped(LastSeq(p) + 1), at |-> now]

Pinging(ticked) == {p \in ticked : Target[p] # "none"}

\* sendPingPacket, for the pingers that were ticked at the time now
SendPings(ticked, now) ==
  LET new == [p \in Pinging(ticked) |-> Stamped(p, now)]
  IN /\ template' = [p \in Plugin |-> IF p \in DOMAIN new THEN {new[p]} ELSE template[p]]
     /\ net' = net \cup {IF p \in Udp THEN UdpPacket(p, new[p]) ELSE EchoRequest(p, new[p]) :
                           p \in DOMAIN new}
     /\ sentPings' = [p \in Plugin |-> sentPings[p] + IF p \in DOMAIN new THEN 1 ELSE 0]
     /\ sentAt' = [p \in Plugin |->
                     IF p \in DOMAIN new THEN Append(sentAt[p], now) ELSE sentAt[p]]

DispatchPings ==
  /\ \E lag \in Lags : Dispatch(lag)
  /\ IF fault' THEN UNCHANGED <<template, net, sentPings, sentAt>>
     ELSE SendPings(Ticked, clock')
  /\ UNCHANGED <<receivedPingReplies, measured>>

IsEcho(m) == m.proto = "icmp" /\ m.type = "echo"

\* Node::processReceivedFrame, for an echo request to the address of the interface
EchoReply(m) == [m EXCEPT !.type = "echo-reply", !.dst = m.src, !.src = m.dst]

\* UDPPingResponder: any UDP packet to its address goes back.
UdpReply(m) == [m EXCEPT !.sport = m.dport, !.dport = m.sport, !.dst = m.src, !.src = m.dst]

\* OneToOneIcmpProxy, which does not answer echo requests itself.
Proxied(m) ==
  IF m.src = Proxy.first THEN [m EXCEPT !.src = Proxy.out, !.dst = Proxy.second]
  ELSE [m EXCEPT !.src = Proxy.in, !.dst = Proxy.first]

\* What the node that m is addressed to sends
Responds(m) ==
  IF m.dst \in {Proxy.in, Proxy.out}
  THEN IF m.proto = "icmp" /\ m.src \in {Proxy.first, Proxy.second} THEN {Proxied(m)} ELSE {}
  ELSE IF m.dst \in EchoHost /\ IsEcho(m) THEN {EchoReply(m)}
  ELSE IF m.dst \in UdpResponder /\ m.proto = "udp" THEN {UdpReply(m)}
  ELSE {}

Answered ==
  /\ ~fault
  /\ \E m \in net : ~(Responds(m) \subseteq net) /\ net' = net \cup Responds(m)
  /\ UNCHANGED <<schedulerVars, ticksVars, template, sentPings, receivedPingReplies, sentAt,
                 measured>>

\* processReceivedPacket: a UDPPinger looks at the port and the sender only.
Counts(p, m) ==
  /\ m.src = Target[p]
  /\ IF p \in Udp THEN m.proto = "udp" /\ m.dport = Identifier[p]
     ELSE m.proto = "icmp" /\ m.type = "echo-reply" /\ m.id = Identifier[p]

ReplyArrives ==
  /\ ~fault
  /\ \E p \in Plugin, m \in net :
       /\ m.dst = OwnAddress[p] /\ Counts(p, m) /\ receivedPingReplies[p] < MaxReplies
       /\ receivedPingReplies' = [receivedPingReplies EXCEPT ![p] = @ + 1]
       /\ measured' = measured \cup
            {[pinger |-> p, seq |-> m.seq, now |-> clock, rtt |-> clock - m.at]}
  /\ UNCHANGED <<schedulerVars, ticksVars, template, sentPings, net, sentAt>>

PingNext ==
  \/ DispatchPings \/ Answered \/ ReplyArrives
  \/ (Tick /\ UNCHANGED <<ticksVars, pingVars>>)

PingSpec == TicksInit /\ PingInit /\ [][PingNext]_<<schedulerVars, ticksVars, pingVars>>
-----------------------------------------------------------------------------
\* What a reply is known by tells the pingers apart: two in one node have different
\* identifiers, no UDPPinger sends from the port that it pings (it would count the pings of
\* another that pings it), and the addresses of the proxy belong to nobody else.
PingersApart ==
  /\ \A p, q \in Plugin :
       OwnAddress[p] = OwnAddress[q] /\ Identifier[p] = Identifier[q] /\ (p \in Udp <=> q \in Udp) => p = q
  /\ \A p \in Udp : Identifier[p] # EchoPort
  /\ {Proxy.in, Proxy.out} \cap ({Proxy.first, Proxy.second} \cup {OwnAddress[p] : p \in Plugin}) = {}

\* A counted reply answers a ping of this pinger, and the round trip it measures began
\* when that ping was sent, although later pings change the packet it was copied from.
PingsMeasured ==
  \A r \in measured : \E k \in DOMAIN sentAt[r.pinger] :
    r.seq = Wrapped(k) /\ r.rtt = r.now - sentAt[r.pinger][k]
=============================================================================
