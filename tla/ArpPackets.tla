------------------------------ MODULE ArpPackets ------------------------------
(***************************************************************************)
(* The one ARP packet with which a node asks and answers everything        *)
(* (Ethernet2ndLayerTransceiver::arpPacket, ARPPacketProxy,                *)
(* IPv4OverEthernetARPPacket, EthernetFrame, EthernetMACAddress).  What is *)
(* sent are clones, which share its objects: the ARP fields and, under     *)
(* them, the Ethernet fields with the bytes.  A setter copies what is      *)
(* shared; the copy of the ARP fields is read from the bytes again.  Bytes *)
(* are words of 16 bits; a hardware address is read as four of them, the   *)
(* last of which is masked out.                                            *)
(***************************************************************************)
EXTENDS Integers, SequencesExt, FiniteSets

CONSTANTS
  Interfaces,   \* of the node: [mac, ip, proxied]
  Questions,    \* what others send: [eth, arp], as they mean it
  Hops,         \* addresses that the node asks for
  MaxSends      \* bound: packets that the node sends

\* A hardware address has three words, and the fourth that is read with them is 0.
IsWords(s, n) == s \in Seq(Nat) /\ Len(s) = n
IsMac(s) == IsWords(s, 4) /\ s[4] = 0
IsEthernet(eth) ==
  /\ eth = [dst |-> eth.dst, src |-> eth.src, type |-> eth.type]
  /\ IsMac(eth.dst) /\ IsMac(eth.src) /\ eth.type \in Nat
IsArp(f) ==
  /\ f = [kinds |-> f.kinds, op |-> f.op, sha |-> f.sha, spa |-> f.spa, tha |-> f.tha, tpa |-> f.tpa]
  /\ IsWords(f.kinds, 3) /\ f.op \in Nat /\ IsMac(f.sha) /\ IsMac(f.tha)
  /\ IsWords(f.spa, 2) /\ IsWords(f.tpa, 2)

ASSUME ArpPacketsAssumption ==
  /\ \A i \in Interfaces : IsMac(i.mac) /\ IsWords(i.ip, 2) /\ \A a \in i.proxied : IsWords(a, 2)
  /\ \A q \in Questions : IsEthernet(q.eth) /\ IsArp(q.arp)
  /\ \A hop \in Hops : IsWords(hop, 2)

VARIABLES
  frames,   \* the lower objects: [eth, bytes, upper], upper is their ARP object or 0
  arps,     \* the ARP objects: [fields, lower]
  own,      \* the ARP object of arpPacket
  flying,   \* clones on their way: [n, copy, frame, arp, meant], arp is 0 until analyzed
  sends

arpPacketVars == <<frames, arps, own, flying, sends>>

TypeARP == 2054
TypeIP == 2048
Request == 1
Reply == 2
NullMac == <<0, 0, 0, 0>>
Broadcast == <<65535, 65535, 65535, 0>>

-----------------------------------------------------------------------------
MacAt(bytes, k) == SubSeq(bytes, k, k + 2) \o <<0>>
Written(mac) == SubSeq(mac, 1, 3)

\* The constructors that initialize their fields
EthernetAt(bytes) == [dst |-> MacAt(bytes, 1), src |-> MacAt(bytes, 4), type |-> bytes[7]]
FieldsAt(bytes) ==
  [kinds |-> SubSeq(bytes, 8, 10), op |-> bytes[11], sha |-> MacAt(bytes, 12),
   spa |-> SubSeq(bytes, 15, 16), tha |-> MacAt(bytes, 17), tpa |-> SubSeq(bytes, 20, 21)]

\* populateToRawFrame of both
Bytes(eth, f) ==
  Written(eth.dst) \o Written(eth.src) \o <<eth.type>> \o f.kinds \o <<f.op>>
    \o Written(f.sha) \o f.spa \o Written(f.tha) \o f.tpa

\* Ethernet, IP, and the lengths of their addresses
ValidKinds == <<1, TypeIP, 6 * 256 + 4>>
IsValid(f) == f.kinds = ValidKinds /\ f.op \in {Request, Reply}

\* A new object, at an address where there is none
Added(objects, id, object) ==
  [x \in DOMAIN objects \cup {id} |-> IF x = id THEN object ELSE objects[x]]
NewId(objects) == CHOOSE n \in 1 .. Cardinality(DOMAIN objects) + 1 : n \notin DOMAIN objects

ArpPacketInit ==
  LET eth == [dst |-> NullMac, src |-> NullMac, type |-> TypeARP]
      arp == [kinds |-> ValidKinds, op |-> Request, sha |-> NullMac, spa |-> <<0, 0>>,
              tha |-> NullMac, tpa |-> <<0, 0>>]
  IN /\ frames = [f \in {1} |-> [eth |-> eth, bytes |-> Bytes(eth, arp), upper |-> 1]]
     /\ arps = [a \in {1} |-> [fields |-> arp, lower |-> 1]]
     /\ own = 1 /\ flying = {} /\ sends = 0

-----------------------------------------------------------------------------
\* FrameProxy::detach, for arpPacket: all layers are copied when the ARP object is shared,
\* only the lower one when just that is.
Lower == arps[own].lower
CopiedAll ==
  LET a == NewId(arps) f == NewId(frames)
  IN [frames |-> Added(frames, f, [frames[Lower] EXCEPT !.upper = a]),
      arps |-> Added(arps, a, [fields |-> FieldsAt(frames[Lower].bytes), lower |-> f]),
      own |-> a]

\* Fault: the old lower object keeps its upper one.
CopiedBelow ==
  LET f == NewId(frames)
  IN [frames |-> Added(frames, f, [frames[Lower] EXCEPT !.upper = own]),
      arps |-> [arps EXCEPT ![own].lower = f], own |-> own]

CopiedLower ==
  LET f == NewId(frames)
  IN [frames |-> Added([frames EXCEPT ![Lower].upper = 0], f, [frames[Lower] EXCEPT !.upper = own]),
      arps |-> [arps EXCEPT ![own].lower = f], own |-> own]

Detached ==
  IF \E e \in flying : e.arp = own THEN CopiedAll
  ELSE IF \E e \in flying : e.frame = Lower THEN CopiedLower
  ELSE [frames |-> frames, arps |-> arps, own |-> own]

\* The fields are set, written to the bytes, and a clone is sent; meant is only for reference.
Send(op, source, target, dst, i, meant) ==
  LET s == Detached
      f == s.arps[s.own].lower
      arp == [kinds |-> s.arps[s.own].fields.kinds, op |-> op, sha |-> i.mac, spa |-> source,
              tha |-> target.mac, tpa |-> target.ip]
      eth == [dst |-> dst, src |-> i.mac, type |-> s.frames[f].eth.type]
  IN /\ sends < MaxSends /\ sends' = sends + 1
     /\ arps' = [s.arps EXCEPT ![s.own].fields = arp]
     /\ frames' = [s.frames EXCEPT ![f] = [eth |-> eth, bytes |-> Bytes(eth, arp), upper |-> @.upper]]
     /\ own' = s.own
     /\ flying' = flying \cup {[n |-> sends', copy |-> FALSE, frame |-> f, arp |-> s.own, meant |-> meant]}

Meant(op, source, target, dst, i) ==
  [eth |-> [dst |-> dst, src |-> i.mac, type |-> TypeARP],
   arp |-> [kinds |-> ValidKinds, op |-> op, sha |-> i.mac, spa |-> source, tha |-> target.mac,
            tpa |-> target.ip]]

SendARPRequestPacket ==
  \E i \in Interfaces, hop \in Hops :
    LET target == [mac |-> NullMac, ip |-> hop]
    IN Send(Request, i.ip, target, Broadcast, i, Meant(Request, i.ip, target, Broadcast, i))

\* processReceivedFrame, of a request for an address of the interface, or one that a rule
\* answers for; what the node learns is not of interest here.
SendARPReplyPacket ==
  \E i \in Interfaces, q \in Questions :
    LET bytes == Bytes(q.eth, q.arp)
        arp == FieldsAt(bytes)
    IN /\ EthernetAt(bytes).type = TypeARP /\ IsValid(arp) /\ arp.op = Request
       /\ arp.tpa \in {i.ip} \cup i.proxied
       /\ Send(Reply, arp.tpa, [mac |-> arp.sha, ip |-> arp.spa], EthernetAt(bytes).src, i,
               Meant(Reply, q.arp.tpa, [mac |-> q.arp.sha, ip |-> q.arp.spa], q.eth.src, i))

-----------------------------------------------------------------------------
\* A link with several ends clones the frame, without the layers above it.
CloneFromLink ==
  /\ \E e \in flying :
       /\ ~\E c \in flying : c.n = e.n /\ c.copy
       /\ flying' = flying \cup {[e EXCEPT !.copy = TRUE, !.arp = 0]}
  /\ UNCHANGED <<frames, arps, own, sends>>

\* The ARP object that analyze finds on the frame, or makes from the bytes
AnalyzeArp ==
  /\ \E e \in flying :
       /\ e.arp = 0
       /\ LET found == frames[e.frame].upper
              arp == IF found # 0 THEN found ELSE NewId(arps)
          IN /\ flying' = (flying \ {e}) \cup {[e EXCEPT !.arp = arp]}
             /\ frames' = [frames EXCEPT ![e.frame].upper = arp]
             /\ arps' = IF found # 0 THEN arps
                        ELSE Added(arps, arp, [fields |-> FieldsAt(frames[e.frame].bytes), lower |-> e.frame])
  /\ UNCHANGED <<own, sends>>

\* A node that is done with its clone finalizes it, and with it what nobody else holds.
FinalizeArp ==
  /\ \E e \in flying :
       LET rest == flying \ {e}
           heldArps == {own} \cup {c.arp : c \in rest}
           heldFrames == {Lower} \cup {c.frame : c \in rest}
           unlinked == IF e.arp \in heldArps \cup {0} THEN frames
                       ELSE [frames EXCEPT ![arps[e.arp].lower].upper = 0]
       IN /\ flying' = rest
          /\ arps' = [a \in DOMAIN arps \cap heldArps |-> arps[a]]
          /\ frames' = [f \in DOMAIN frames \cap heldFrames |-> unlinked[f]]
  /\ UNCHANGED <<own, sends>>

ArpPacketNext ==
  SendARPRequestPacket \/ SendARPReplyPacket \/ CloneFromLink \/ AnalyzeArp \/ FinalizeArp

ArpPacketSpec == ArpPacketInit /\ [][ArpPacketNext]_arpPacketVars
-----------------------------------------------------------------------------
\* Whatever the node sends after it, and in whatever order clones are analyzed and let go:
\* every packet on its way says, in the objects that its holder has or will find and in its
\* bytes, what the node meant when it sent it, to the right host.
ArpSaysWhatWasMeant ==
  \A e \in flying :
    LET f == frames[e.frame]
        found == IF e.arp # 0 THEN e.arp ELSE f.upper
    IN /\ IF found # 0 THEN arps[found].fields = e.meant.arp ELSE TRUE
       /\ f.eth = e.meant.eth
       /\ EthernetAt(f.bytes) = e.meant.eth /\ FieldsAt(f.bytes) = e.meant.arp
=============================================================================
