------------------------------ MODULE ArpQueue ------------------------------
(***************************************************************************)
(* The second layer transceiver of a node: the ARP cache, and the frames   *)
(* that wait for the address of their next hop                             *)
(* (transceiver/Ethernet2ndLayerTransceiver, WaitingFrameEntry, the ARP    *)
(* entries and EthernetProxyARPTransceiver).  The operators transform the  *)
(* record of one handler's work, t; a router sends an error about a frame  *)
(* it can not deliver, through the same transceiver, within the same       *)
(* handler (plugin/Router::destinationHostUnreachable).  The cache is      *)
(* never disabled: nothing calls enableArpCache.                           *)
(***************************************************************************)
EXTENDS RouteTable, EventScheduler

CONSTANTS
  StaticArp,    \* the static ARP table of the configuration: a function from addresses
  Room,         \* maxBufferSize of each interface, in bytes
  WaitingTime,  \* WAITING_TIME_FOR_ARP_REPLY_MSECS
  LifeTime,     \* ARP_ENTRY_LIFE_TIME_MILLI_SECS
  MaxAttempts,  \* FRAME_SENDING_ATTEMPT_MAX_COUNT
  ErrorSize,    \* bytes of an ICMP error
  IsRouter      \* whether failures are reported, as a Router does

ASSUME ArpAssumption == WaitingTime \in Nat /\ LifeTime \in Nat /\ ErrorSize \in Nat

VARIABLES
  cache,    \* ARP entries by address: [mac, at]
  waiting,  \* frameSendingQueue: [frame, hop, ifIndex, attempts, since]
  bytes,    \* bytesPendingToBeSent
  sent,     \* frames given to an interface with the address of a host
  lost,     \* frames given up
  emitted   \* what the last handler sent without asking the transceiver

arpVars == <<cache, waiting, bytes, sent, lost, emitted>>

ArpInit ==
  /\ cache = [a \in {} |-> {}]
  /\ waiting = <<>> /\ bytes = 0
  /\ sent = {} /\ lost = {}
  /\ emitted = <<>>

\* A handler starts; it has nothing to register with the scheduler yet.
Work == [cache |-> cache, waiting |-> waiting, bytes |-> bytes, sent |-> sent,
         lost |-> lost, emitted |-> <<>>, requests |-> <<>>]

Done(t) ==
  /\ cache' = t.cache /\ waiting' = t.waiting /\ bytes' = t.bytes
  /\ sent' = t.sent /\ lost' = t.lost /\ emitted' = t.emitted

HasEntry(t, hop, now) == hop \in DOMAIN t.cache /\ now - t.cache[hop].at <= LifeTime

\* An entry that has timed out hides the static one.
IsKnown(t, hop, now) ==
  HasEntry(t, hop, now) \/ (hop \notin DOMAIN t.cache /\ hop \in DOMAIN StaticArp)

MacOf(t, hop) == IF hop \in DOMAIN t.cache THEN t.cache[hop].mac ELSE StaticArp[hop]

Entry(frame, route, now) ==
  [frame |-> frame, hop |-> route.hop, ifIndex |-> route.ifIndex, attempts |-> 0, since |-> now]

Transmit(t, frame, ifIndex, mac) ==
  [t EXCEPT !.sent = @ \cup {[frame |-> frame, ifIndex |-> ifIndex, mac |-> mac]}]

\* Fault: a frame that is given up is forgotten.
Forgotten(t, frame) == t

Finalized(t, frame) == [t EXCEPT !.lost = @ \cup {frame}]

\* The bytes of all interfaces are held against the buffer of this frame's interface.
HasRoom(t, entry) == t.bytes + entry.frame.size <= Room[entry.ifIndex + 1]

\* Fault: a retry does not ask again.
EnqueueSilently(t, entry) ==
  [t EXCEPT !.waiting = Append(@, entry),
            !.bytes = @ + entry.frame.size,
            !.emitted = IF entry.attempts = 0 THEN Append(@, [kind |-> "request", to |-> entry.hop]) ELSE @,
            !.requests = Append(@, [who |-> "arp", ms |-> WaitingTime, wanted |-> TRUE])]

Enqueue(t, entry) ==
  [t EXCEPT !.waiting = Append(@, entry),
            !.bytes = @ + entry.frame.size,
            !.emitted = Append(@, [kind |-> "request", to |-> entry.hop]),
            !.requests = Append(@, [who |-> "arp", ms |-> WaitingTime, wanted |-> TRUE])]

\* A host unreachable error about a frame, routed like any packet of the router's own.
ErrorAbout(frame) ==
  [no |-> frame.no, kind |-> "error", about |-> frame.kind, src |-> Interfaces[1].ip,
   dst |-> frame.src, ttl |-> 63, size |-> ErrorSize]

SendError(t, error, now) ==
  LET route == Route(error.dst)
      entry == Entry(error, route, now)
  IN IF ~ValidIndex(route.ifIndex) THEN Finalized(t, error)
     ELSE IF IsKnown(t, route.hop, now) THEN Transmit(t, error, route.ifIndex, MacOf(t, route.hop))
     ELSE IF HasRoom(t, entry) THEN Enqueue(t, entry)
     ELSE Finalized(t, error)

\* Fault: whether the frame is itself an error is not looked at.
UndeliverableAny(t, frame, now) ==
  IF IsRouter THEN Finalized(SendError(t, ErrorAbout(frame), now), frame) ELSE Finalized(t, frame)

Undeliverable(t, frame, now) ==
  IF IsRouter /\ frame.kind # "error"
  THEN Finalized(SendError(t, ErrorAbout(frame), now), frame)
  ELSE Finalized(t, frame)

\* registerFrameForSending
Enlist(t, entry, now) ==
  IF HasRoom(t, entry) THEN Enqueue(t, entry) ELSE Undeliverable(t, entry.frame, now)

SendFrame(t, frame, route, now) ==
  IF IsKnown(t, route.hop, now)
  THEN Transmit(t, frame, route.ifIndex, MacOf(t, route.hop))
  ELSE Enlist(t, Entry(frame, route, now), now)

\* shouldWeRetry
MayRetry(entry) == entry.attempts + 1 < MaxAttempts

TimedOut(entry, now) == now - entry.since > WaitingTime
Again(entry, now) == [entry EXCEPT !.attempts = @ + 1, !.since = now]

Without(t, entry) == [t EXCEPT !.bytes = @ - entry.frame.size]

\* Fault: the bytes of a frame that is sent stay on the account.
VisitKeepingBytes(run, entry, now) ==
  LET t == Without(run.t, entry)
  IN IF HasEntry(run.t, entry.hop, now)
     THEN [run EXCEPT !.t = Transmit(run.t, entry.frame, entry.ifIndex, MacOf(t, entry.hop))]
     ELSE IF ~TimedOut(entry, now) THEN [run EXCEPT !.kept = Append(@, entry)]
     ELSE IF MayRetry(entry)
     THEN [run EXCEPT !.t = Enlist(t, Again(entry, now), now)]
     ELSE [run EXCEPT !.t = Undeliverable(t, entry.frame, now)]

\* One frame in checkFrameSendingQueue.  It looks in the cache only.
Visit(run, entry, now) ==
  LET t == Without(run.t, entry)
  IN IF HasEntry(run.t, entry.hop, now)
     THEN [run EXCEPT !.t = Transmit(t, entry.frame, entry.ifIndex, MacOf(t, entry.hop))]
     ELSE IF ~TimedOut(entry, now) THEN [run EXCEPT !.kept = Append(@, entry)]
     ELSE IF MayRetry(entry)
     THEN [run EXCEPT !.t = Enlist(t, Again(entry, now), now)]
     ELSE [run EXCEPT !.t = Undeliverable(t, entry.frame, now)]

\* What the loop appends is unknown and new when the loop comes to it, and stays.
CheckQueue(t, now) ==
  LET queue == t.waiting
      run[n \in 0..Len(queue)] ==
        IF n = 0 THEN [t |-> [t EXCEPT !.waiting = <<>>], kept |-> <<>>]
        ELSE Visit(run[n - 1], queue[n], now)
      end == run[Len(queue)]
  IN [end.t EXCEPT !.waiting = end.kept \o @]

Learnt(t, ip, mac, now) ==
  [t EXCEPT !.cache = [a \in DOMAIN @ \cup {ip} |->
                         IF a = ip THEN [mac |-> mac, at |-> now] ELSE t.cache[a]]]

\* Fault: the frames that wait are left to the timer.
UpdateCacheOnly(t, ip, mac, now) == Learnt(t, ip, mac, now)

UpdateCache(t, ip, mac, now) == CheckQueue(Learnt(t, ip, mac, now), now)

UpdateCacheIfRecorded(t, ip, mac, now) ==
  IF HasEntry(t, ip, now) THEN Learnt(t, ip, mac, now) ELSE t

\* processReceivedFrame, for a valid ARP packet that came in through ifIndex.
ReceiveArp(t, arp, ifIndex, now) ==
  IF arp.target = Interfaces[ifIndex + 1].ip \/ ShouldRespond(arp.target, ifIndex)
  THEN LET u == UpdateCache(t, arp.ip, arp.mac, now)
       IN IF arp.isRequest
          THEN [u EXCEPT !.emitted = Append(@, [kind |-> "reply", to |-> arp.ip])] ELSE u
  ELSE UpdateCacheIfRecorded(t, arp.ip, arp.mac, now)
=============================================================================
