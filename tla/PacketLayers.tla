---------------------------- MODULE PacketLayers ----------------------------
(***************************************************************************)
(* What a frame says (network/EthernetFrame, IPv4Packet, ICMPPacketImp and *)
(* UDPPacketImp) and what nodes make of it.  A layer is an object with the *)
(* fields that were read from the bytes; a node changes fields, or bytes,  *)
(* and populates the bytes again, from the changed layer downwards.  Nodes *)
(* hand the objects on; a client or a network adapter gets the bytes.      *)
(* A field is a byte, the checksums have two, the data any number.         *)
(***************************************************************************)
EXTENDS Integers, SequencesExt

CONSTANTS
  Arriving,     \* the bytes of frames that come from outside: [eth, ip, l4]
  NodeIp,       \* the addresses of nodes
  NodeMac,      \* the hardware address of the node where a packet is
  MaxHandled    \* bound: the nodes that handle one packet

VARIABLES
  packet,    \* [raw, fields, upper, checksum]; upper is the layer that was analyzed on IP
  handled,   \* how many nodes have handled it
  whole      \* history: whether its body had a correct checksum when it came

packetVars == <<packet, handled, whole>>

Byte == 0 .. 255

\* The bytes of a frame: a body has a checksum, and a length of 16 bits.
Raw ==
  {raw \in [eth : Seq(Byte), ip : Seq(Byte), l4 : Seq(Byte)] :
     Len(raw.eth) = 2 /\ Len(raw.ip) = 6 /\ 4 <= Len(raw.l4) /\ Len(raw.l4) <= 65535}

ASSUME PacketLayersAssumption == Arriving \subseteq Raw /\ NodeIp \subseteq Byte /\ NodeMac \in Byte

ICMP == 1
TCP == 6
UDP == 17
TypeEchoReply == 0
TypeUnreachable == 3
TypeEcho == 8

-----------------------------------------------------------------------------
\* The sum of a sequence
Total(s) ==
  LET sum[k \in 0 .. Len(s)] == IF k = 0 THEN 0 ELSE sum[k - 1] + s[k]
  IN sum[Len(s)]

\* FirstLayerFrame: sums of 16 bit words, with the byte order of an Intel host.
Folded(sum) == (sum % 65536) + (sum \div 65536)
HostWord(bytes, k) == bytes[k] + 256 * (IF k < Len(bytes) THEN bytes[k + 1] ELSE 0)
HostSum(bytes) == Total([k \in DOMAIN bytes |-> IF k % 2 = 1 THEN HostWord(bytes, k) ELSE 0])

HeaderChecksum(bytes) == 65535 - Folded(Folded(HostSum(bytes)))
TwoPartChecksum(bytes, pseudo) ==
  65535 - Folded((65535 - HeaderChecksum(bytes)) + (65535 - HeaderChecksum(pseudo)))

Stored(checksum) == <<checksum % 256, checksum \div 256>>

\* The bytes of a transport header from their third on, with a checksum.
WithChecksum(bytes, checksum) ==
  <<bytes[1], bytes[2]>> \o checksum \o SubSeq(bytes, 5, Len(bytes))
Zeroed(bytes) == WithChecksum(bytes, <<0, 0>>)

PseudoHeader(f, bytes) == <<f.src, f.dst, 0, f.proto, 0, Len(bytes)>>

-----------------------------------------------------------------------------
\* The fields that the objects read from the bytes.
FieldsOf(raw) ==
  [dmac |-> raw.eth[1], smac |-> raw.eth[2], ttl |-> raw.ip[1], proto |-> raw.ip[2],
   src |-> raw.ip[5], dst |-> raw.ip[6], first |-> raw.l4[1], second |-> raw.l4[2]]

FromBytes(raw) == [raw |-> raw, fields |-> FieldsOf(raw), upper |-> "none", checksum |-> TRUE]

IpValid(raw) == HeaderChecksum(raw.ip) = 0

\* The constructors of the bodies' objects: type and sequence number, or the ports.
ReadBody(p, upper) ==
  [p EXCEPT !.upper = upper, !.fields.first = p.raw.l4[1], !.fields.second = p.raw.l4[2]]
IcmpRead(p) == ReadBody(p, "icmp")
UdpRead(p) == [ReadBody(p, "udp") EXCEPT !.checksum = TRUE]

\* analyze: the object of the packet's body, kept once it is there
Analyzed(p) ==
  IF p.upper # "none" \/ ~IpValid(p.raw) THEN p
  ELSE IF p.fields.proto = ICMP THEN IcmpRead(p)
  ELSE IF p.fields.proto = UDP THEN UdpRead(p) ELSE p

\* clone of each layer, when a setter finds it shared: the fields and the bytes are copied
\* as they are, but a UDP packet forgets that it should have no checksum.
ClonedIPv4(p) == [raw |-> p.raw, fields |-> p.fields, upper |-> "none", checksum |-> TRUE]
ClonedIcmp(p) == [ClonedIPv4(p) EXCEPT !.upper = "icmp"]
ClonedUdp(p) == [ClonedIPv4(p) EXCEPT !.upper = "udp"]
Cloned(p) ==
  CASE p.upper = "icmp" -> ClonedIcmp(p) [] p.upper = "udp" -> ClonedUdp(p)
    [] OTHER -> ClonedIPv4(p)

IcmpValid(p) == HeaderChecksum(p.raw.l4) = 0
UdpValid(p, optional) ==
  \/ optional /\ SubSeq(p.raw.l4, 3, 4) = <<0, 0>>
  \/ TwoPartChecksum(p.raw.l4, PseudoHeader(p.fields, p.raw.l4)) = 0

\* populateToRawFrame of each layer
PopulateEthernet(p) == [p EXCEPT !.raw.eth = <<p.fields.dmac, p.fields.smac>>]

PopulateIPv4(p) ==
  LET f == p.fields
      header == <<f.ttl, f.proto, 0, 0, f.src, f.dst>>
  IN PopulateEthernet([p EXCEPT !.raw.ip = <<f.ttl, f.proto>> \o Stored(HeaderChecksum(header))
                                              \o <<f.src, f.dst>>])

PopulateBody(p) == [p EXCEPT !.raw.l4 = <<p.fields.first, p.fields.second>> \o SubSeq(@, 3, Len(@))]

PopulateICMP(p) ==
  LET q == [PopulateBody(p) EXCEPT !.raw.l4 = Zeroed(@)]
  IN PopulateIPv4([q EXCEPT !.raw.l4 = WithChecksum(@, Stored(HeaderChecksum(@)))])

\* Fault: the checksum is calculated over the old one.
PopulateOverOld(p) ==
  LET q == PopulateIPv4(PopulateBody(p))
      checksum == IF p.checksum THEN TwoPartChecksum(q.raw.l4, PseudoHeader(q.fields, q.raw.l4)) ELSE 0
  IN [q EXCEPT !.raw.l4 = WithChecksum(@, Stored(checksum))]

PopulateUDP(p) ==
  LET q == PopulateIPv4([PopulateBody(p) EXCEPT !.raw.l4 = Zeroed(@)])
      checksum == IF p.checksum THEN TwoPartChecksum(q.raw.l4, PseudoHeader(q.fields, q.raw.l4)) ELSE 0
  IN [q EXCEPT !.raw.l4 = WithChecksum(@, Stored(checksum))]

-----------------------------------------------------------------------------
\* The frame is sent back to where it came from, or on to a next hop.
Returned(p) == [p EXCEPT !.fields.dmac = p.fields.smac, !.fields.smac = NodeMac]
SentOn(p, mac) == PopulateEthernet([p EXCEPT !.fields.smac = NodeMac, !.fields.dmac = mac])

Readdressed(p, src, dst) == [p EXCEPT !.fields.src = src, !.fields.dst = dst]

\* A packet of the node's own: a ping, a UDP ping, or an error about a packet.
Made(proto, src, dst, body) ==
  LET f == [dmac |-> 0, smac |-> NodeMac, ttl |-> 64, proto |-> proto, src |-> src,
            dst |-> dst, first |-> body[1], second |-> body[2]]
  IN [raw |-> [eth |-> <<0, 0>>, ip |-> <<0, 0, 0, 0, 0, 0>>, l4 |-> body], fields |-> f,
      upper |-> IF proto = ICMP THEN "icmp" ELSE "udp", checksum |-> TRUE]

Quoted(p) == p.raw.ip \o SubSeq(p.raw.l4, 1, 2)

HandedOn(p) == handled < MaxHandled /\ packet' = p /\ handled' = handled + 1 /\ UNCHANGED whole

\* The packet that arrives is analyzed by the node that gets it.
Here == Analyzed(packet)

ToNode == Here.fields.dst \in NodeIp
AnswerOf(p) == Returned(Readdressed(p, p.fields.dst, p.fields.src))

\* Node::processReceivedFrame and Router::pluginEngineHandleFrame
AnswerEcho ==
  /\ ToNode /\ Here.upper = "icmp" /\ IcmpValid(Here) /\ Here.fields.first = TypeEcho
  /\ HandedOn(PopulateICMP([AnswerOf(Here) EXCEPT !.fields.first = TypeEchoReply, !.fields.ttl = 64]))

\* Router::routePacket, of a router with other addresses
Forward ==
  /\ IpValid(Here.raw) /\ Here.fields.ttl > 1
  /\ \E mac \in {3, 4} : HandedOn(SentOn(PopulateIPv4([Here EXCEPT !.fields.ttl = @ - 1]), mac))

\* create...ICMPMessage in reply to a packet
AnswerError ==
  /\ IpValid(Here.raw)
  /\ \E me \in NodeIp :
       LET error == Made(ICMP, me, Here.fields.src, <<TypeUnreachable, 0, 0, 0>> \o Quoted(Here))
       IN HandedOn(PopulateICMP([error EXCEPT !.fields.dmac = Here.fields.smac]))

\* UDPPingResponder::processReceivedPacket
AnswerUdp ==
  /\ ToNode /\ Here.upper = "udp" /\ \E optional \in BOOLEAN : UdpValid(Here, optional)
  /\ HandedOn(PopulateUDP([AnswerOf(Here) EXCEPT !.fields.first = Here.fields.second,
                                                !.fields.second = Here.fields.first]))

\* OneToOneIcmpProxy::processReceivedPacket, between the sender and any other host
PassIcmp ==
  /\ ToNode /\ Here.fields.proto = ICMP /\ IpValid(Here.raw)
  /\ \E me, to \in NodeIp : HandedOn(SentOn(PopulateIPv4(Readdressed(Here, me, to)), 3))

\* GeneralTCPReverseProxy: the ports and the checksum are set in the bytes.
RelayTcp ==
  /\ ToNode /\ Here.fields.proto = TCP /\ IpValid(Here.raw)
  /\ \E to \in NodeIp :
       LET p == [Readdressed(Here, Here.fields.dst, to) EXCEPT !.fields.ttl = 64]
           body == Zeroed(<<5, 6>> \o SubSeq(p.raw.l4, 3, Len(p.raw.l4)))
           checksum == TwoPartChecksum(body, PseudoHeader(p.fields, body))
       IN HandedOn(PopulateIPv4(Returned([p EXCEPT !.raw.l4 = WithChecksum(body, Stored(checksum))])))

\* BitTorrentTracker::handleRequestMessage: an answer whose data is written to the bytes
\* after it was made; checksums may be off.
AnswerTracker ==
  /\ ToNode /\ Here.upper = "udp" /\ \E optional \in BOOLEAN : UdpValid(Here, optional)
  /\ LET p == PopulateUDP(Made(UDP, Here.fields.dst, Here.fields.src, <<5, 6, 0, 0, 0, 0, 0>>))
     IN \E force \in BOOLEAN :
          HandedOn(SentOn(PopulateUDP([p EXCEPT !.raw.l4 = SubSeq(@, 1, 4) \o <<255, 254, 9>>,
                                               !.checksum = force]), 3))

\* Pinger and UDPPinger: the number of a ping is a field, or is written to the bytes.
Ping(me, to, seq) ==
  LET p == PopulateICMP(Made(ICMP, me, to, <<TypeEcho, 0, 0, 0, 0>>))
  IN SentOn(PopulateICMP([p EXCEPT !.fields.second = seq]), 3)

UdpPing(me, to, seq) ==
  LET p == PopulateUDP(Made(UDP, me, to, <<7, 7, 0, 0, 0>>))
  IN SentOn(PopulateUDP([p EXCEPT !.raw.l4[5] = seq]), 3)

\* The bytes are what comes back from a client or an adapter.
ReadAgain == packet.fields # FieldsOf(packet.raw) \/ packet.upper # "none"
ThroughClient == ReadAgain /\ packet' = FromBytes(packet.raw) /\ UNCHANGED <<handled, whole>>

\* A link has a clone for another end: the next setter of this one's holder copies it.
Copied == Cloned(packet) # packet /\ packet' = Cloned(packet) /\ UNCHANGED <<handled, whole>>

PacketsInit ==
  \/ /\ \E raw \in Arriving : packet = FromBytes(raw)
     /\ handled = 0
     /\ whole = IF packet.fields.proto = ICMP THEN IcmpValid(packet)
                ELSE UdpValid(packet, packet.fields.proto = UDP)
  \/ /\ \E me, to \in NodeIp, seq \in {1, 255} : packet \in {Ping(me, to, seq), UdpPing(me, to, seq)}
     /\ handled = 1
     /\ whole = TRUE

PacketsNext ==
  \/ AnswerEcho \/ Forward \/ AnswerError \/ AnswerUdp \/ PassIcmp \/ RelayTcp \/ AnswerTracker
  \/ ThroughClient \/ Copied

PacketsSpec == PacketsInit /\ [][PacketsNext]_packetVars
-----------------------------------------------------------------------------
\* The Internet checksum: the words have the network's byte order.
NetworkSum(bytes) == Total([k \in DOMAIN bytes |-> (IF k % 2 = 1 THEN 256 ELSE 1) * bytes[k]])
Verifies(bytes) == NetworkSum(bytes) > 0 /\ NetworkSum(bytes) % 65535 = 0

\* What a node sends is what its objects say: the bytes give back the fields of every
\* layer, the header verifies, and so does the body of a packet that came whole, also when
\* nodes changed it one after the other without reading its bytes again.
SentFramesVerify ==
  LET f == FieldsOf(packet.raw)
      body == packet.raw.l4
      read == IF packet.upper = "none" THEN DOMAIN f \ {"first", "second"} ELSE DOMAIN f
  IN handled > 0 =>
       /\ \A n \in read : packet.fields[n] = f[n]
       /\ Verifies(packet.raw.ip)
       /\ whole => IF f.proto = ICMP THEN Verifies(body)
                   ELSE \/ f.proto = UDP /\ SubSeq(body, 3, 4) = <<0, 0>>
                        \/ (NetworkSum(body) + NetworkSum(PseudoHeader(f, body))) % 65535 = 0
=============================================================================
