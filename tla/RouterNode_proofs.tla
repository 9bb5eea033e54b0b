------------------------- MODULE RouterNode_proofs -------------------------
(***************************************************************************)
(* A router and its ARP transceiver (RouterNode, ArpQueue): the account of *)
(* the waiting bytes, where every frame is, whom frames wait for, what     *)
(* errors are about and what is asked, for any interfaces, rules, packets, *)
(* sizes, time limits and both schedulers.                                 *)
(***************************************************************************)
EXTENDS RouterNode, EventScheduler_proofs, SequenceTheorems

-----------------------------------------------------------------------------
(* Types.  What a route can yield is named by the routes themselves. *)

Place == Address \cup {Interfaces[1].ip}
Hops == {Route(d).hop : d \in Place}
Ports == {Route(d).ifIndex : d \in Place}
Macs == {arp.mac : arp \in ArpPackets} \cup {StaticArp[a] : a \in DOMAIN StaticArp}
Askers == Hops \cup Place \cup {arp.ip : arp \in ArpPackets}

AnyFrame ==
  [no : Nat, kind : {"data", "echo", "error"}, about : {"none", "data", "echo"},
   src : Place, dst : Place, ttl : Int, size : Nat]

\* Only an error is about something, and never about an error.
Frame == {f \in AnyFrame : f.kind # "error" => f.about = "none"}

Queued == [frame : Frame, hop : Hops, ifIndex : Ports, attempts : Nat, since : Int]
Sending == [frame : Frame, ifIndex : Ports, mac : Macs]

Emission ==
  [kind : {"request", "reply"}, to : Askers] \cup
  [kind : {"echo-reply", "port-unreachable", "time-exceeded", "network-unreachable"},
   to : Askers, about : {"data", "echo"}]

CacheTyped(c) == \A a \in DOMAIN c : c[a].at \in Int /\ c[a].mac \in Macs

\* What a handler works on, while the cache is c
Works(c) ==
  [cache : {c}, waiting : Seq(Queued), bytes : Int, sent : SUBSET Sending, lost : SUBSET Frame,
   emitted : Seq(Emission), requests : RequestsOf({"arp"})]

\* Every destination has a next hop and an interface.
LEMMA RoutesTyped ==
  ASSUME NEW d \in Place
  PROVE  Route(d).hop \in Hops /\ Route(d).ifIndex \in Ports
BY DEF Hops, Ports

\* A hop that is known has an address.
LEMMA MacKnown ==
  ASSUME NEW c, CacheTyped(c), NEW t \in Works(c), NEW hop, NEW now, IsKnown(t, hop, now)
  PROVE  MacOf(t, hop) \in Macs
<1>1. t.cache = c BY DEF Works
<1> QED BY <1>1 DEF IsKnown, HasEntry, MacOf, CacheTyped, Macs

\* An entry for the queue is made of the frame, its route and the time.
LEMMA EntryTyped ==
  ASSUME NEW frame \in Frame, NEW now \in Int
  PROVE  Entry(frame, Route(frame.dst), now) \in Queued
<1>1. frame.dst \in Place BY DEF Frame, AnyFrame
<1>2. Route(frame.dst).hop \in Hops /\ Route(frame.dst).ifIndex \in Ports BY <1>1, RoutesTyped
<1> QED BY <1>2 DEF Entry, Queued

\* An entry that is queued is counted with its bytes and asks for its hop once; nothing else
\* changes.
LEMMA EnqueueTyped ==
  ASSUME NEW c, NEW t \in Works(c), NEW entry \in Queued
  PROVE  /\ Enqueue(t, entry) \in Works(c)
         /\ Enqueue(t, entry).waiting = Append(t.waiting, entry)
         /\ Enqueue(t, entry).bytes = t.bytes + entry.frame.size
         /\ Enqueue(t, entry).emitted = Append(t.emitted, [kind |-> "request", to |-> entry.hop])
         /\ Enqueue(t, entry).sent = t.sent /\ Enqueue(t, entry).lost = t.lost
         /\ Enqueue(t, entry).cache = t.cache
<1> DEFINE request == [kind |-> "request", to |-> entry.hop]
           event == [who |-> "arp", ms |-> WaitingTime, wanted |-> TRUE]
<1>1. request \in Emission BY DEF Emission, Queued, Askers
<1>2. event \in [who : {"arp"}, ms : Nat, wanted : BOOLEAN] BY ArpAssumption
<1>3. entry.frame.size \in Nat BY DEF Queued, Frame, AnyFrame
<1> HIDE DEF request, event
<1>4. /\ t.waiting \in Seq(Queued) /\ t.bytes \in Int /\ t.emitted \in Seq(Emission)
      /\ t.requests \in RequestsOf({"arp"})
  BY DEF Works
<1>5. /\ Append(t.waiting, entry) \in Seq(Queued) /\ Append(t.emitted, request) \in Seq(Emission)
      /\ t.bytes + entry.frame.size \in Int
  BY <1>1, <1>3, <1>4
<1>6. Append(t.requests, event) \in RequestsOf({"arp"}) BY <1>2, <1>4 DEF RequestsOf
<1>7. Enqueue(t, entry) = [t EXCEPT !.waiting = Append(t.waiting, entry),
                                    !.bytes = t.bytes + entry.frame.size,
                                    !.emitted = Append(t.emitted, request),
                                    !.requests = Append(t.requests, event)]
  BY DEF Enqueue, request, event
<1>8. /\ Enqueue(t, entry) \in Works(c)
      /\ Enqueue(t, entry).waiting = Append(t.waiting, entry)
      /\ Enqueue(t, entry).bytes = t.bytes + entry.frame.size
      /\ Enqueue(t, entry).emitted = Append(t.emitted, request)
      /\ Enqueue(t, entry).sent = t.sent /\ Enqueue(t, entry).lost = t.lost
      /\ Enqueue(t, entry).cache = t.cache
  BY <1>5, <1>6, <1>7 DEF Works
<1> QED BY <1>8 DEF request

\* A frame that is transmitted is among the sent; nothing else changes.
LEMMA TransmitTyped ==
  ASSUME NEW c, CacheTyped(c), NEW t \in Works(c), NEW frame \in Frame,
         NEW ifIndex \in Ports, NEW mac \in Macs
  PROVE  /\ Transmit(t, frame, ifIndex, mac) \in Works(c)
         /\ Transmit(t, frame, ifIndex, mac).sent
              = t.sent \cup {[frame |-> frame, ifIndex |-> ifIndex, mac |-> mac]}
         /\ Transmit(t, frame, ifIndex, mac).waiting = t.waiting
         /\ Transmit(t, frame, ifIndex, mac).bytes = t.bytes
         /\ Transmit(t, frame, ifIndex, mac).lost = t.lost
         /\ Transmit(t, frame, ifIndex, mac).emitted = t.emitted
         /\ Transmit(t, frame, ifIndex, mac).cache = t.cache
<1> DEFINE s == [frame |-> frame, ifIndex |-> ifIndex, mac |-> mac]
<1>1. s \in Sending BY DEF Sending
<1> HIDE DEF s
<1>2. t.sent \cup {s} \in SUBSET Sending BY <1>1 DEF Works
<1>3. Transmit(t, frame, ifIndex, mac) = [t EXCEPT !.sent = t.sent \cup {s}] BY DEF Transmit, s
<1>4. /\ Transmit(t, frame, ifIndex, mac) \in Works(c)
      /\ Transmit(t, frame, ifIndex, mac).sent = t.sent \cup {s}
  BY <1>2, <1>3 DEF Works
<1>5. /\ Transmit(t, frame, ifIndex, mac).waiting = t.waiting
      /\ Transmit(t, frame, ifIndex, mac).bytes = t.bytes
      /\ Transmit(t, frame, ifIndex, mac).lost = t.lost
      /\ Transmit(t, frame, ifIndex, mac).emitted = t.emitted
      /\ Transmit(t, frame, ifIndex, mac).cache = t.cache
  BY <1>3 DEF Works
<1> QED BY <1>4, <1>5 DEF s

\* A frame that is given up is among the lost; nothing else changes.
LEMMA FinalizedTyped ==
  ASSUME NEW c, NEW t \in Works(c), NEW frame \in Frame
  PROVE  /\ Finalized(t, frame) \in Works(c)
         /\ Finalized(t, frame).lost = t.lost \cup {frame}
         /\ Finalized(t, frame).waiting = t.waiting /\ Finalized(t, frame).bytes = t.bytes
         /\ Finalized(t, frame).sent = t.sent /\ Finalized(t, frame).emitted = t.emitted
         /\ Finalized(t, frame).cache = t.cache
<1>1. t.lost \cup {frame} \in SUBSET Frame BY DEF Works
<1>2. Finalized(t, frame) = [t EXCEPT !.lost = t.lost \cup {frame}] BY DEF Finalized
<1> QED BY <1>1, <1>2 DEF Works

\* An error about a frame has its number, and says what it is about.
LEMMA ErrorTyped ==
  ASSUME NEW frame \in Frame, frame.kind # "error"
  PROVE  /\ ErrorAbout(frame) \in Frame /\ ErrorAbout(frame).no = frame.no
         /\ ErrorAbout(frame).about # "none" /\ frame.about = "none"
<1>1. ErrorAbout(frame) \in AnyFrame BY ArpAssumption DEF ErrorAbout, Frame, AnyFrame, Place
<1>2. ErrorAbout(frame).kind = "error" BY DEF ErrorAbout
<1> QED BY <1>1, <1>2 DEF Frame, AnyFrame, ErrorAbout

-----------------------------------------------------------------------------
(* What becomes of one frame: it is given up, sent, or queued for a host whose address the *)
(* cache does not hold, with the number of attempts so far.                               *)

Put(t, u, frame, attempts, now) ==
  \/ u = Finalized(t, frame)
  \/ \E ifIndex \in Ports, mac \in Macs : u = Transmit(t, frame, ifIndex, mac)
  \/ \E entry \in Queued :
       /\ entry.frame = frame /\ entry.attempts = attempts
       /\ ~HasEntry(t, entry.hop, now) /\ u = Enqueue(t, entry)

\* A frame that can not be delivered is given up, and before that an error about it is put.
GivenUp(t, u, frame, now) ==
  \/ u = Finalized(t, frame)
  \/ /\ frame.kind # "error"
     /\ \E v : Put(t, v, ErrorAbout(frame), 0, now) /\ u = Finalized(v, frame)

\* An error is sent, queued or dropped, as any frame of the router's own.
LEMMA SendErrorPuts ==
  ASSUME NEW c, CacheTyped(c), NEW t \in Works(c), NEW error \in Frame, NEW now \in Int
  PROVE  Put(t, SendError(t, error, now), error, 0, now)
<1> DEFINE route == Route(error.dst)
           entry == Entry(error, route, now)
<1>1. /\ entry \in Queued /\ entry.frame = error /\ entry.attempts = 0 /\ entry.hop = route.hop
      /\ route.ifIndex \in Ports
  <2>1. entry \in Queued BY EntryTyped
  <2>2. error.dst \in Place BY DEF Frame, AnyFrame
  <2> QED BY <2>1, <2>2, RoutesTyped DEF Entry
<1>2. \/ SendError(t, error, now) = Finalized(t, error)
      \/ /\ IsKnown(t, route.hop, now)
         /\ SendError(t, error, now) = Transmit(t, error, route.ifIndex, MacOf(t, route.hop))
      \/ ~IsKnown(t, route.hop, now) /\ SendError(t, error, now) = Enqueue(t, entry)
  BY DEF SendError
<1> HIDE DEF route, entry
<1>3. CASE SendError(t, error, now) = Finalized(t, error) BY <1>3 DEF Put
<1>4. CASE /\ IsKnown(t, route.hop, now)
           /\ SendError(t, error, now) = Transmit(t, error, route.ifIndex, MacOf(t, route.hop))
  BY <1>1, <1>4, MacKnown DEF Put
<1>5. CASE ~IsKnown(t, route.hop, now) /\ SendError(t, error, now) = Enqueue(t, entry)
  <2>1. ~HasEntry(t, entry.hop, now) BY <1>1, <1>5 DEF IsKnown
  <2> QED BY <1>1, <1>5, <2>1 DEF Put
<1> QED BY <1>2, <1>3, <1>4, <1>5

\* An undeliverable frame is lost, and at most one error about it is sent.
LEMMA UndeliverableGivesUp ==
  ASSUME NEW c, CacheTyped(c), NEW t \in Works(c), NEW frame \in Frame, NEW now \in Int
  PROVE  GivenUp(t, Undeliverable(t, frame, now), frame, now)
<1>1. CASE IsRouter /\ frame.kind # "error"
  <2>1. Put(t, SendError(t, ErrorAbout(frame), now), ErrorAbout(frame), 0, now)
    BY <1>1, ErrorTyped, SendErrorPuts
  <2> QED BY <1>1, <2>1 DEF GivenUp, Undeliverable
<1>2. CASE ~(IsRouter /\ frame.kind # "error") BY <1>2 DEF GivenUp, Undeliverable
<1> QED BY <1>1, <1>2

\* A frame is put somewhere, or given up.
Dealt(t, u, frame, attempts, now) == Put(t, u, frame, attempts, now) \/ GivenUp(t, u, frame, now)

\* An entry whose hop is unknown is queued or given up.
LEMMA EnlistDeals ==
  ASSUME NEW c, CacheTyped(c), NEW t \in Works(c), NEW entry \in Queued, NEW now \in Int,
         ~HasEntry(t, entry.hop, now)
  PROVE  Dealt(t, Enlist(t, entry, now), entry.frame, entry.attempts, now)
<1>1. CASE HasRoom(t, entry) BY <1>1 DEF Dealt, Put, Enlist
<1>2. CASE ~HasRoom(t, entry)
  <2>1. entry.frame \in Frame BY DEF Queued
  <2> QED BY <1>2, <2>1, UndeliverableGivesUp DEF Dealt, Enlist
<1> QED BY <1>1, <1>2

\* A frame that is sent leaves by a known hop, or is queued or given up.
LEMMA SendFrameDeals ==
  ASSUME NEW c, CacheTyped(c), NEW t \in Works(c), NEW frame \in Frame, NEW now \in Int
  PROVE  Dealt(t, SendFrame(t, frame, Route(frame.dst), now), frame, 0, now)
<1> DEFINE route == Route(frame.dst)
           entry == Entry(frame, route, now)
<1>1. /\ entry \in Queued /\ entry.frame = frame /\ entry.attempts = 0 /\ entry.hop = route.hop
      /\ route.ifIndex \in Ports
  <2>1. entry \in Queued BY EntryTyped
  <2>2. frame.dst \in Place BY DEF Frame, AnyFrame
  <2> QED BY <2>1, <2>2, RoutesTyped DEF Entry
<1>2. IF IsKnown(t, route.hop, now)
      THEN SendFrame(t, frame, route, now) = Transmit(t, frame, route.ifIndex, MacOf(t, route.hop))
      ELSE SendFrame(t, frame, route, now) = Enlist(t, entry, now)
  BY DEF SendFrame
<1> HIDE DEF entry
<1>3. CASE IsKnown(t, route.hop, now) BY <1>1, <1>2, <1>3, MacKnown DEF Dealt, Put
<1>4. CASE ~IsKnown(t, route.hop, now)
  <2>1. ~HasEntry(t, entry.hop, now) BY <1>1, <1>4 DEF IsKnown
  <2> QED BY <1>1, <1>2, <1>4, <2>1, EnlistDeals
<1> QED BY <1>3, <1>4

\* Work stays typed when a frame is put somewhere.
LEMMA PutTyped ==
  ASSUME NEW c, CacheTyped(c), NEW t \in Works(c), NEW frame \in Frame, NEW attempts, NEW now,
         NEW u, Put(t, u, frame, attempts, now)
  PROVE  u \in Works(c)
<1>1. CASE u = Finalized(t, frame) BY <1>1, FinalizedTyped
<1>2. ASSUME NEW ifIndex \in Ports, NEW mac \in Macs, u = Transmit(t, frame, ifIndex, mac)
      PROVE  u \in Works(c)
  BY <1>2, TransmitTyped
<1>3. ASSUME NEW entry \in Queued, u = Enqueue(t, entry) PROVE u \in Works(c)
  BY <1>3, EnqueueTyped
<1> QED BY <1>1, <1>2, <1>3 DEF Put

\* Work stays typed when a frame is dealt with.
LEMMA DealtTyped ==
  ASSUME NEW c, CacheTyped(c), NEW t \in Works(c), NEW frame \in Frame, NEW attempts, NEW now,
         NEW u, Dealt(t, u, frame, attempts, now)
  PROVE  u \in Works(c)
<1>1. CASE Put(t, u, frame, attempts, now) BY <1>1, PutTyped
<1>2. CASE GivenUp(t, u, frame, now)
  <2>1. CASE u = Finalized(t, frame) BY <2>1, FinalizedTyped
  <2>2. ASSUME frame.kind # "error", NEW v, Put(t, v, ErrorAbout(frame), 0, now), u = Finalized(v, frame)
        PROVE  u \in Works(c)
    BY <2>2, ErrorTyped, PutTyped, FinalizedTyped
  <2> QED BY <1>2, <2>1, <2>2 DEF GivenUp
<1> QED BY <1>1, <1>2 DEF Dealt

-----------------------------------------------------------------------------
(* The bytes of a queue. *)

SizeAt(q, n) == q[n].frame.size

Sums(q, sum) ==
  /\ sum \in [0..Len(q) -> Nat] /\ sum[0] = 0
  /\ \A n \in 1..Len(q) : sum[n] = sum[n - 1] + SizeAt(q, n)

\* The sizes of the queued frames are numbers.
LEMMA SizesTyped ==
  ASSUME NEW q \in Seq(Queued)
  PROVE  Len(q) \in Nat /\ DOMAIN q = 1..Len(q) /\ \A n \in 1..Len(q) : SizeAt(q, n) \in Nat
<1>1. \A n \in 1..Len(q) : q[n] \in Queued OBVIOUS
<1> QED BY <1>1 DEF SizeAt, Queued, Frame, AnyFrame

\* The sizes of a queue have partial sums: the fold of the model is their last one.
LEMMA SumsExist ==
  ASSUME NEW q \in Seq(Queued)
  PROVE  \E sum : Sums(q, sum) /\ BytesOf(q) = sum[Len(q)]
<1> DEFINE m == Len(q)
           Def(f) == f = [n \in 0..m |-> IF n = 0 THEN 0 ELSE f[n - 1] + q[n].frame.size]
           sum == CHOOSE f : Def(f)
           step == [x \in (1..m) \X Nat |-> x[2] + SizeAt(q, x[1])]
<1>1. m \in Nat /\ \A n \in 1..m : SizeAt(q, n) \in Nat BY SizesTyped
<1>2. BytesOf(q) = sum[m] BY DEF BytesOf
<1> HIDE DEF m
<1>3. step \in [(1..m) \X Nat -> Nat] BY <1>1
<1>4. \A n \in 1..m, u \in Nat : step[<<n, u>>] = u + SizeAt(q, n) OBVIOUS
<1> HIDE DEF step
<1>5. PICK h \in [0..m -> Nat] : Steps(h, m, 0, step) BY <1>1, <1>3, History
<1>6. Def(h)
  <2>1. ASSUME NEW n \in 0..m PROVE h[n] = IF n = 0 THEN 0 ELSE h[n - 1] + q[n].frame.size
    <3>1. CASE n = 0 BY <1>5, <3>1 DEF Steps
    <3>2. CASE n # 0
      <4>1. n \in 1..m /\ n - 1 \in 0..m BY <1>1, <3>2
      <4>2. h[n - 1] \in Nat BY <1>5, <4>1
      <4> QED BY <1>4, <1>5, <3>2, <4>1, <4>2 DEF Steps, SizeAt
    <3> QED BY <3>1, <3>2
  <2> QED BY <2>1
<1>7. Def(sum) BY <1>6
<1> HIDE DEF sum
<1>8. /\ DOMAIN sum = 0..m /\ sum = [n \in 0..m |-> sum[n]]
      /\ \A n \in 0..m : sum[n] = IF n = 0 THEN 0 ELSE sum[n - 1] + q[n].frame.size
  BY <1>7
<1> HIDE DEF Def
<1>9. sum[0] = 0 /\ \A n \in 1..m : sum[n] = sum[n - 1] + SizeAt(q, n)
  <2>1. 0 \in 0..m /\ \A n \in 1..m : n \in 0..m /\ n # 0 BY <1>1
  <2> QED BY <1>8, <2>1 DEF SizeAt
<1>10. sum \in [0..m -> Nat]
  <2> DEFINE G == {n \in 0..m : sum[n] \in Nat}
  <2>1. 0 \in G BY <1>1, <1>9
  <2>2. \A n \in 1..m : n - 1 \in G => n \in G BY <1>1, <1>9
  <2> HIDE DEF G
  <2>3. \A n \in 0..m : n \in G BY <1>1, <2>1, <2>2, UpTo
  <2> QED BY <1>8, <2>3 DEF G
<1> QED BY <1>2, <1>9, <1>10 DEF Sums, m

\* The first m elements of q stand in p from place d on.
StandIn(q, m, p, d) == \A n \in 1..m : q[n] = p[d + n]

\* Two queues that hold the same frames over a stretch grow by the same bytes there.
LEMMA SumsAgree ==
  ASSUME NEW q \in Seq(Queued), NEW p \in Seq(Queued), NEW r, NEW s, Sums(q, r), Sums(p, s),
         NEW m \in Nat, m <= Len(q), NEW d \in Nat, d + m <= Len(p),
         StandIn(q, m, p, d)
  PROVE  s[d + m] = s[d] + r[m]
<1> DEFINE G == {n \in 0..m : s[d + n] = s[d] + r[n]}
<1>0. Len(q) \in Nat /\ Len(p) \in Nat BY SizesTyped
<1>1. 0 \in G
  <2>1. d \in 0..Len(p) BY <1>0
  <2> QED BY <2>1 DEF Sums
<1>2. ASSUME NEW n \in 1..m, n - 1 \in G PROVE n \in G
  <2>1. n \in 1..Len(q) /\ d + n \in 1..Len(p) /\ (d + n) - 1 = d + (n - 1) /\ n \in 0..m BY <1>0
  <2>2. r[n] = r[n - 1] + SizeAt(q, n) /\ s[d + n] = s[d + (n - 1)] + SizeAt(p, d + n) BY <2>1 DEF Sums
  <2>3. SizeAt(q, n) = SizeAt(p, d + n) /\ SizeAt(q, n) \in Nat BY <2>1, SizesTyped DEF SizeAt, StandIn
  <2>4. r[n - 1] \in Nat /\ s[d] \in Nat
    <3>1. n - 1 \in 0..Len(q) /\ d \in 0..Len(p) BY <1>0
    <3> QED BY <3>1 DEF Sums
  <2>5. s[d + (n - 1)] = s[d] + r[n - 1] BY <1>2
  <2> HIDE DEF G
  <2>6. s[d + n] = s[d] + r[n] BY <2>2, <2>3, <2>4, <2>5
  <2> QED BY <2>1, <2>6 DEF G
<1> HIDE DEF G
<1>3. \A n \in 0..m : n \in G BY <1>1, <1>2, UpTo
<1>4. m \in 0..m OBVIOUS
<1> QED BY <1>3, <1>4 DEF G

\* The bytes of two queues in a row are those of both.
LEMMA BytesJoin ==
  ASSUME NEW q \in Seq(Queued), NEW p \in Seq(Queued)
  PROVE  BytesOf(q \o p) = BytesOf(q) + BytesOf(p) /\ BytesOf(q) \in Nat
<1> DEFINE u == q \o p
<1>1. /\ u \in Seq(Queued) /\ Len(u) = Len(q) + Len(p)
      /\ Len(q) \in Nat /\ Len(p) \in Nat
      /\ \A n \in 1..Len(q) : u[n] = q[n]
      /\ \A k \in 1..Len(p) : u[Len(q) + k] = p[k]
  OBVIOUS
<1> HIDE DEF u
<1>2. PICK a : Sums(q, a) /\ BytesOf(q) = a[Len(q)] BY SumsExist
<1>3. PICK b : Sums(p, b) /\ BytesOf(p) = b[Len(p)] BY SumsExist
<1>4. PICK s : Sums(u, s) /\ BytesOf(u) = s[Len(u)] BY <1>1, SumsExist
<1>5. a[Len(q)] \in Nat
  <2>1. Len(q) \in 0..Len(q) BY <1>1
  <2> QED BY <1>2, <2>1 DEF Sums
<1>6. s[0] = 0 BY <1>4 DEF Sums
<1>7. StandIn(q, Len(q), u, 0) BY <1>1 DEF StandIn
<1>8. s[0 + Len(q)] = s[0] + a[Len(q)]
  <2>1. Len(q) <= Len(q) /\ 0 + Len(q) <= Len(u) /\ 0 \in Nat BY <1>1
  <2> QED BY <1>1, <1>2, <1>4, <1>7, <2>1, SumsAgree
<1>9. s[Len(q) + Len(p)] = s[Len(q)] + b[Len(p)]
  <2>1. Len(p) <= Len(p) /\ Len(q) + Len(p) <= Len(u) BY <1>1
  <2>2. StandIn(p, Len(p), u, Len(q)) BY <1>1 DEF StandIn
  <2> QED BY <1>1, <1>3, <1>4, <2>1, <2>2, SumsAgree
<1>10. s[Len(q)] = a[Len(q)]
  <2>1. 0 + Len(q) = Len(q) BY <1>1
  <2> QED BY <1>5, <1>6, <1>8, <2>1
<1> QED BY <1>1, <1>2, <1>3, <1>4, <1>5, <1>9, <1>10 DEF u

\* A queue without an entry has no bytes, and one more entry adds those of its frame.
LEMMA BytesOfOne ==
  ASSUME NEW q \in Seq(Queued), NEW entry \in Queued
  PROVE  /\ BytesOf(<< >>) = 0 /\ BytesOf(<<entry>>) = entry.frame.size
         /\ BytesOf(Append(q, entry)) = BytesOf(q) + entry.frame.size
<1>1. << >> \in Seq(Queued) /\ <<entry>> \in Seq(Queued) /\ Len(<<entry>>) = 1 /\ Len(<< >>) = 0
      /\ <<entry>>[1] = entry /\ Append(q, entry) = q \o <<entry>>
  OBVIOUS
<1>2. PICK a : Sums(<< >>, a) /\ BytesOf(<< >>) = a[Len(<< >>)] BY <1>1, SumsExist
<1>3. PICK b : Sums(<<entry>>, b) /\ BytesOf(<<entry>>) = b[Len(<<entry>>)] BY <1>1, SumsExist
<1>4. BytesOf(<< >>) = 0 BY <1>1, <1>2 DEF Sums
<1>5. BytesOf(<<entry>>) = entry.frame.size
  <2>1. 1 \in 1..Len(<<entry>>) BY <1>1
  <2>2. b[1] = b[0] + SizeAt(<<entry>>, 1) /\ b[0] = 0 BY <1>3, <2>1 DEF Sums
  <2>3. SizeAt(<<entry>>, 1) \in Nat BY <1>1, <2>1, SizesTyped
  <2>4. SizeAt(<<entry>>, 1) = entry.frame.size BY <1>1 DEF SizeAt
  <2>5. b[1] = SizeAt(<<entry>>, 1) BY <2>2, <2>3
  <2> QED BY <1>1, <1>3, <2>4, <2>5
<1>6. BytesOf(Append(q, entry)) = BytesOf(q) + BytesOf(<<entry>>) BY <1>1, BytesJoin
<1> QED BY <1>4, <1>5, <1>6

-----------------------------------------------------------------------------
(* Where frames are.  While a queue is walked, E are the frames that wait elsewhere, in    *)
(* the part of the queue that is still to come or that was kept.                          *)

IdsIn(q) == {Id(q[k].frame) : k \in DOMAIN q}
OnceIn(q) == \A j, k \in DOMAIN q : Id(q[j].frame) = Id(q[k].frame) => j = k
SentIds(t) == {Id(s.frame) : s \in t.sent}
LostIds(t) == {Id(f) : f \in t.lost}

\* Nothing is in two places, and there is no error about a packet that still waits.
Apart(W, E, S, L) ==
  /\ W \cap E = {} /\ (W \cup E) \cap (S \cup L) = {} /\ S \cap L = {}
  /\ \A x \in W \cup E, y \in W \cup E \cup S \cup L : x.about = "none" /\ y.no = x.no => y = x

\* All frames there are
AllOf(t, E) == IdsIn(t.waiting) \cup E \cup SentIds(t) \cup LostIds(t)

Placed(t, E, m) ==
  /\ OnceIn(t.waiting)
  /\ Apart(IdsIn(t.waiting), E, SentIds(t), LostIds(t))
  /\ \A x \in AllOf(t, E) : x.no < m

\* A frame that is nowhere, with nothing that forbids to put it anywhere.
Free(frame, t, E) ==
  /\ Id(frame) \notin AllOf(t, E)
  /\ \A y \in AllOf(t, E) : y.no = frame.no =>
       frame.about # "none" /\ (y \in IdsIn(t.waiting) \cup E => y.about # "none")

\* A frame that is nowhere, and may be put where nothing waits.
FreeToGo(frame, t, E) ==
  /\ Id(frame) \notin AllOf(t, E)
  /\ \A y \in IdsIn(t.waiting) \cup E : y.no = frame.no => y.about # "none"

\* A frame that is in no place yet may go to any one of them.
LEMMA SetsApart ==
  ASSUME NEW W, NEW E, NEW S, NEW L, Apart(W, E, S, L), NEW x, x \notin W \cup E \cup S \cup L,
         \A y \in W \cup E : y.no = x.no => y.about # "none"
  PROVE  /\ Apart(W, E, S \cup {x}, L)
         /\ Apart(W, E, S, L \cup {x})
         /\ (\A y \in W \cup E \cup S \cup L : y.no = x.no => x.about # "none") => Apart(W \cup {x}, E, S, L)
<1>1. Apart(W, E, S \cup {x}, L) BY DEF Apart
<1>2. Apart(W, E, S, L \cup {x}) BY DEF Apart
<1>3. ASSUME \A y \in W \cup E \cup S \cup L : y.no = x.no => x.about # "none"
      PROVE  Apart(W \cup {x}, E, S, L)
  <2>1. ASSUME NEW y \in (W \cup {x}) \cup E, NEW z \in (W \cup {x}) \cup E \cup S \cup L,
               y.about = "none", z.no = y.no
        PROVE  z = y
    <3>1. CASE y # x /\ z # x BY <2>1, <3>1 DEF Apart
    <3>2. CASE y = x /\ z # x BY <1>3, <2>1, <3>2
    <3>3. CASE y # x /\ z = x BY <2>1, <3>3
    <3> QED BY <3>1, <3>2, <3>3
  <2>2. /\ (W \cup {x}) \cap E = {} /\ ((W \cup {x}) \cup E) \cap (S \cup L) = {} /\ S \cap L = {}
    BY DEF Apart
  <2> QED BY <2>1, <2>2 DEF Apart
<1> QED BY <1>1, <1>2, <1>3

\* A frame is told apart by its number and by what it is about.
LEMMA IdTyped ==
  ASSUME NEW f \in Frame
  PROVE  Id(f).no = f.no /\ Id(f).about = f.about /\ f.no \in Nat
BY DEF Id, Frame, AnyFrame

\* A queue that gets a new frame holds that frame, too, and each of them once.
LEMMA AppendIds ==
  ASSUME NEW q \in Seq(Queued), NEW entry \in Queued
  PROVE  /\ IdsIn(Append(q, entry)) = IdsIn(q) \cup {Id(entry.frame)}
         /\ OnceIn(q) /\ Id(entry.frame) \notin IdsIn(q) => OnceIn(Append(q, entry))
<1> DEFINE u == Append(q, entry)
           l == Len(q)
<1>1. /\ l \in Nat /\ DOMAIN q = 1..l /\ DOMAIN u = 1..l + 1 /\ u[l + 1] = entry
      /\ \A k \in 1..l : u[k] = q[k]
  OBVIOUS
<1> HIDE DEF u, l
<1>2. \A k \in 1..l + 1 : k \in 1..l \/ k = l + 1 BY <1>1
<1>3. l + 1 \in 1..l + 1 /\ \A k \in 1..l : k \in 1..l + 1 BY <1>1
<1>4. IdsIn(u) = IdsIn(q) \cup {Id(entry.frame)}
  <2>1. IdsIn(u) \subseteq IdsIn(q) \cup {Id(entry.frame)} BY <1>1, <1>2 DEF IdsIn
  <2>2. IdsIn(q) \subseteq IdsIn(u)
    <3> SUFFICES ASSUME NEW k \in 1..l PROVE Id(q[k].frame) \in IdsIn(u) BY <1>1 DEF IdsIn
    <3>1. q[k] = u[k] /\ k \in DOMAIN u BY <1>1, <1>3
    <3> QED BY <3>1 DEF IdsIn
  <2>3. Id(entry.frame) \in IdsIn(u) BY <1>1, <1>3 DEF IdsIn
  <2> QED BY <2>1, <2>2, <2>3
<1>5. ASSUME OnceIn(q), Id(entry.frame) \notin IdsIn(q) PROVE OnceIn(u)
  <2> SUFFICES ASSUME NEW j \in 1..l + 1, NEW k \in 1..l + 1, Id(u[j].frame) = Id(u[k].frame) PROVE j = k
    BY <1>1 DEF OnceIn
  <2>1. CASE j \in 1..l /\ k \in 1..l BY <1>1, <1>5, <2>1 DEF OnceIn
  <2>2. CASE j \in 1..l /\ k = l + 1 BY <1>1, <1>5, <2>2 DEF IdsIn
  <2>3. CASE j = l + 1 /\ k \in 1..l BY <1>1, <1>5, <2>3 DEF IdsIn
  <2>4. CASE j = l + 1 /\ k = l + 1 BY <2>4
  <2> QED BY <1>2, <2>1, <2>2, <2>3, <2>4
<1> QED BY <1>4, <1>5 DEF u

\* A frame is put at the end of the queue.
LEMMA QueuePlaced ==
  ASSUME NEW c, NEW t \in Works(c), NEW E, NEW m \in Nat, Placed(t, E, m),
         NEW entry \in Queued, Free(entry.frame, t, E), entry.frame.no < m
  PROVE  /\ Placed(Enqueue(t, entry), E, m)
         /\ AllOf(Enqueue(t, entry), E) = AllOf(t, E) \cup {Id(entry.frame)}
<1> DEFINE u == Enqueue(t, entry)
           x == Id(entry.frame)
<1>1. u.waiting = Append(t.waiting, entry) /\ u.sent = t.sent /\ u.lost = t.lost BY EnqueueTyped
<1>2. t.waiting \in Seq(Queued) BY DEF Works
<1>3. x.no = entry.frame.no /\ x.about = entry.frame.about BY IdTyped DEF Queued
<1> HIDE DEF u
<1>4. /\ IdsIn(u.waiting) = IdsIn(t.waiting) \cup {x}
      /\ OnceIn(t.waiting) /\ x \notin IdsIn(t.waiting) => OnceIn(u.waiting)
  BY <1>1, <1>2, AppendIds
<1>5. SentIds(u) = SentIds(t) /\ LostIds(u) = LostIds(t) BY <1>1 DEF SentIds, LostIds
<1> HIDE DEF x
<1>6. /\ x \notin AllOf(t, E)
      /\ \A y \in AllOf(t, E) : y.no = x.no => x.about # "none"
      /\ \A y \in IdsIn(t.waiting) \cup E : y.no = x.no => y.about # "none"
  BY <1>3 DEF Free, AllOf, x
<1>7. AllOf(u, E) = AllOf(t, E) \cup {x} BY <1>4, <1>5 DEF AllOf
<1>8. Apart(IdsIn(t.waiting) \cup {x}, E, SentIds(t), LostIds(t))
  BY <1>6, SetsApart DEF Placed, AllOf
<1>9. OnceIn(u.waiting) BY <1>4, <1>6 DEF Placed, AllOf
<1>10. \A y \in AllOf(u, E) : y.no < m BY <1>3, <1>7 DEF Placed
<1>11. Placed(u, E, m) BY <1>4, <1>5, <1>8, <1>9, <1>10 DEF Placed
<1> QED BY <1>7, <1>11 DEF u, x

\* A frame goes out, or is given up.
Gone(t, u, frame) ==
  /\ u.waiting = t.waiting
  /\ \/ SentIds(u) = SentIds(t) \cup {Id(frame)} /\ LostIds(u) = LostIds(t)
     \/ SentIds(u) = SentIds(t) /\ LostIds(u) = LostIds(t) \cup {Id(frame)}

\* A frame that may go and goes is in the place it went to and in no other.
LEMMA GonePlaced ==
  ASSUME NEW t, NEW u, NEW E, NEW m \in Nat, Placed(t, E, m), NEW frame \in Frame,
         FreeToGo(frame, t, E), frame.no < m, Gone(t, u, frame)
  PROVE  Placed(u, E, m) /\ AllOf(u, E) = AllOf(t, E) \cup {Id(frame)}
<1> DEFINE x == Id(frame)
<1>1. x.no = frame.no /\ x.about = frame.about BY IdTyped
<1> HIDE DEF x
<1>2. /\ x \notin AllOf(t, E)
      /\ \A y \in IdsIn(t.waiting) \cup E : y.no = x.no => y.about # "none"
  BY <1>1 DEF FreeToGo, x
<1>3. AllOf(u, E) = AllOf(t, E) \cup {x} BY DEF AllOf, x, Gone
<1>4. /\ Apart(IdsIn(t.waiting), E, SentIds(t) \cup {x}, LostIds(t))
      /\ Apart(IdsIn(t.waiting), E, SentIds(t), LostIds(t) \cup {x})
  BY <1>2, SetsApart DEF Placed, AllOf
<1>5. Apart(IdsIn(u.waiting), E, SentIds(u), LostIds(u)) BY <1>4 DEF x, Gone
<1>6. \A y \in AllOf(u, E) : y.no < m BY <1>1, <1>3 DEF Placed
<1>7. OnceIn(u.waiting) BY DEF Placed, Gone
<1> QED BY <1>3, <1>5, <1>6, <1>7 DEF Placed, x

\* A frame that is in no place may go to the sent or to the lost.
LEMMA FreeMayGo ==
  ASSUME NEW t, NEW E, NEW frame, Free(frame, t, E)
  PROVE  FreeToGo(frame, t, E)
BY DEF Free, FreeToGo, AllOf

\* A frame that is in no place and is put somewhere is then in one place.
LEMMA PutPlaced ==
  ASSUME NEW c, CacheTyped(c), NEW t \in Works(c), NEW E, NEW m \in Nat, Placed(t, E, m),
         NEW frame \in Frame, Free(frame, t, E), frame.no < m,
         NEW attempts, NEW now, NEW u, Put(t, u, frame, attempts, now)
  PROVE  /\ Placed(u, E, m) /\ AllOf(u, E) = AllOf(t, E) \cup {Id(frame)}
         /\ IdsIn(u.waiting) \subseteq IdsIn(t.waiting) \cup {Id(frame)}
<1>1. FreeToGo(frame, t, E) BY FreeMayGo
<1>2. CASE u = Finalized(t, frame)
  <2>1. u.waiting = t.waiting /\ u.sent = t.sent /\ u.lost = t.lost \cup {frame} BY <1>2, FinalizedTyped
  <2>2. SentIds(u) = SentIds(t) /\ LostIds(u) = LostIds(t) \cup {Id(frame)}
    BY <2>1 DEF SentIds, LostIds
  <2>3. IdsIn(u.waiting) = IdsIn(t.waiting) BY <2>1
  <2>4. Gone(t, u, frame) BY <2>1, <2>2 DEF Gone
  <2> QED BY <1>1, <2>3, <2>4, GonePlaced
<1>3. ASSUME NEW ifIndex \in Ports, NEW mac \in Macs, u = Transmit(t, frame, ifIndex, mac)
      PROVE  /\ Placed(u, E, m) /\ AllOf(u, E) = AllOf(t, E) \cup {Id(frame)}
             /\ IdsIn(u.waiting) \subseteq IdsIn(t.waiting) \cup {Id(frame)}
  <2>1. /\ u.waiting = t.waiting /\ u.lost = t.lost
        /\ u.sent = t.sent \cup {[frame |-> frame, ifIndex |-> ifIndex, mac |-> mac]}
    BY <1>3, TransmitTyped
  <2>2. LostIds(u) = LostIds(t) /\ SentIds(u) = SentIds(t) \cup {Id(frame)}
    <3> DEFINE s == [frame |-> frame, ifIndex |-> ifIndex, mac |-> mac]
    <3>1. s.frame = frame /\ u.sent = t.sent \cup {s} BY <2>1
    <3> HIDE DEF s
    <3>2. SentIds(u) = SentIds(t) \cup {Id(frame)} BY <3>1 DEF SentIds
    <3> QED BY <2>1, <3>2 DEF LostIds
  <2>3. IdsIn(u.waiting) = IdsIn(t.waiting) BY <2>1
  <2>4. Gone(t, u, frame) BY <2>1, <2>2 DEF Gone
  <2> QED BY <1>1, <2>3, <2>4, GonePlaced
<1>4. ASSUME NEW entry \in Queued, entry.frame = frame, u = Enqueue(t, entry)
      PROVE  /\ Placed(u, E, m) /\ AllOf(u, E) = AllOf(t, E) \cup {Id(frame)}
             /\ IdsIn(u.waiting) \subseteq IdsIn(t.waiting) \cup {Id(frame)}
  <2>1. u.waiting = Append(t.waiting, entry) BY <1>4, EnqueueTyped
  <2>2. t.waiting \in Seq(Queued) BY DEF Works
  <2>3. IdsIn(u.waiting) = IdsIn(t.waiting) \cup {Id(frame)} BY <1>4, <2>1, <2>2, AppendIds
  <2> QED BY <1>4, <2>3, QueuePlaced
<1> QED BY <1>2, <1>3, <1>4 DEF Put

\* A frame that is given up is in one place, and so is the error about it.
LEMMA GivenUpPlaced ==
  ASSUME NEW c, CacheTyped(c), NEW t \in Works(c), NEW E, NEW m \in Nat, Placed(t, E, m),
         NEW frame \in Frame, Free(frame, t, E), frame.no < m,
         NEW now, NEW u, GivenUp(t, u, frame, now)
  PROVE  Placed(u, E, m) /\ AllOf(t, E) \cup {Id(frame)} \subseteq AllOf(u, E)
<1>1. CASE u = Finalized(t, frame)
  <2>1. Put(t, u, frame, 0, now) BY <1>1 DEF Put
  <2> QED BY <2>1, PutPlaced
<1>2. ASSUME frame.kind # "error", NEW v, Put(t, v, ErrorAbout(frame), 0, now), u = Finalized(v, frame)
      PROVE  Placed(u, E, m) /\ AllOf(t, E) \cup {Id(frame)} \subseteq AllOf(u, E)
  <2> DEFINE error == ErrorAbout(frame)
  <2>1. error \in Frame /\ error.no = frame.no /\ error.about # "none" /\ frame.about = "none"
    BY <1>2, ErrorTyped
  <2> HIDE DEF error
  <2>2. /\ Id(error).no = frame.no /\ Id(error).about # "none"
        /\ Id(frame).no = frame.no /\ Id(frame).about = "none"
    BY <2>1, IdTyped
  <2>3. \A y \in AllOf(t, E) : y.no # frame.no BY <2>1 DEF Free
  <2>4. Free(error, t, E) BY <2>1, <2>2, <2>3 DEF Free
  <2>5. /\ Placed(v, E, m) /\ AllOf(v, E) = AllOf(t, E) \cup {Id(error)}
        /\ IdsIn(v.waiting) \subseteq IdsIn(t.waiting) \cup {Id(error)}
    <3>1. Put(t, v, error, 0, now) BY <1>2 DEF error
    <3> QED BY <2>1, <2>4, <3>1, PutPlaced
  <2>6. FreeToGo(frame, v, E)
    <3>1. Id(frame) \notin AllOf(v, E) BY <2>2, <2>3, <2>5
    <3>2. \A y \in IdsIn(v.waiting) \cup E : y \in AllOf(t, E) \/ y = Id(error)
      BY <2>5 DEF AllOf
    <3> QED BY <2>2, <2>3, <3>1, <3>2 DEF FreeToGo
  <2>7. v \in Works(c) BY <1>2, ErrorTyped, PutTyped
  <2>8. u.waiting = v.waiting /\ u.sent = v.sent /\ u.lost = v.lost \cup {frame}
    BY <1>2, <2>7, FinalizedTyped
  <2>9. SentIds(u) = SentIds(v) /\ LostIds(u) = LostIds(v) \cup {Id(frame)}
    BY <2>8 DEF SentIds, LostIds
  <2>10. Placed(u, E, m) /\ AllOf(u, E) = AllOf(v, E) \cup {Id(frame)}
    <3>1. Gone(v, u, frame) BY <2>8, <2>9 DEF Gone
    <3> QED BY <2>5, <2>6, <3>1, GonePlaced
  <2> QED BY <2>5, <2>10
<1> QED BY <1>1, <1>2 DEF GivenUp

\* A frame that is dealt with is in one place, and no other is lost from sight.
LEMMA DealtPlaced ==
  ASSUME NEW c, CacheTyped(c), NEW t \in Works(c), NEW E, NEW m \in Nat, Placed(t, E, m),
         NEW frame \in Frame, Free(frame, t, E), frame.no < m,
         NEW attempts, NEW now, NEW u, Dealt(t, u, frame, attempts, now)
  PROVE  Placed(u, E, m) /\ AllOf(t, E) \cup {Id(frame)} \subseteq AllOf(u, E)
BY PutPlaced, GivenUpPlaced DEF Dealt
-----------------------------------------------------------------------------
(* What a queue holds and what has been asked.  q is the queue as it was when the handler  *)
(* started, and the first n that wait now waited then; B are bytes that wait elsewhere.    *)

Paid(t, B) == t.bytes = BytesOf(t.waiting) + B

Unanswered(t, n, now) == \A k \in n + 1 .. Len(t.waiting) : ~HasEntry(t, t.waiting[k].hop, now)

AskedOf(emissions, hop) == {k \in DOMAIN emissions : emissions[k].kind = "request" /\ emissions[k].to = hop}
NewFor(w, n, hop) == {k \in n + 1 .. Len(w) : w[k].hop = hop}

Asked(t, n) == \A hop : Cardinality(AskedOf(t.emitted, hop)) = Cardinality(NewFor(t.waiting, n, hop))

\* An attempt that was not made before
NewAttempt(q, entry) ==
  \A j \in DOMAIN q : Id(q[j].frame) = Id(entry.frame) => q[j].attempts # entry.attempts

NewAttempts(t, n, q) == \A k \in n + 1 .. Len(t.waiting) : NewAttempt(q, t.waiting[k])

Old(t, n, q) == \A k \in 1..n : \E j \in DOMAIN q : t.waiting[k] = q[j]

Kept(t, B, n, now, q) ==
  /\ n <= Len(t.waiting) /\ Paid(t, B) /\ Unanswered(t, n, now) /\ Asked(t, n)
  /\ NewAttempts(t, n, q) /\ Old(t, n, q)

\* A queued entry and the request for its hop keep requests and entries as many.
LEMMA AskedOnceMore ==
  ASSUME NEW em \in Seq(Emission), NEW w \in Seq(Queued), NEW n \in Nat, n <= Len(w),
         NEW entry \in Queued, NEW hop,
         Cardinality(AskedOf(em, hop)) = Cardinality(NewFor(w, n, hop))
  PROVE  Cardinality(AskedOf(Append(em, [kind |-> "request", to |-> entry.hop]), hop))
           = Cardinality(NewFor(Append(w, entry), n, hop))
<1> DEFINE r == [kind |-> "request", to |-> entry.hop]
           em2 == Append(em, r)
           w2 == Append(w, entry)
           a == Len(em)
           b == Len(w)
<1>1. /\ a \in Nat /\ DOMAIN em = 1..a /\ DOMAIN em2 = 1..a + 1 /\ em2[a + 1] = r
      /\ \A k \in 1..a : em2[k] = em[k]
  OBVIOUS
<1>2. /\ b \in Nat /\ Len(w2) = b + 1 /\ w2[b + 1] = entry
      /\ \A k \in 1..b : w2[k] = w[k]
  OBVIOUS
<1>3. r.kind = "request" /\ r.to = entry.hop OBVIOUS
<1> HIDE DEF r, em2, w2, a, b
<1>4. AskedOf(em2, hop) = AskedOf(em, hop) \cup (IF entry.hop = hop THEN {a + 1} ELSE {})
  <2>1. \A k \in 1..a + 1 : k \in 1..a \/ k = a + 1 BY <1>1
  <2>2. a + 1 \in 1..a + 1 /\ \A k \in 1..a : k \in 1..a + 1 BY <1>1
  <2> QED BY <1>1, <1>3, <2>1, <2>2 DEF AskedOf
<1>5. NewFor(w2, n, hop) = NewFor(w, n, hop) \cup (IF entry.hop = hop THEN {b + 1} ELSE {})
  <2>0. n <= b BY DEF b
  <2>1. \A k \in n + 1..b + 1 : k \in n + 1..b \/ k = b + 1 BY <1>2
  <2>2. b + 1 \in n + 1..b + 1 /\ \A k \in n + 1..b : k \in n + 1..b + 1 /\ k \in 1..b BY <1>2, <2>0
  <2>3. NewFor(w, n, hop) = {k \in n + 1..b : w[k].hop = hop} BY DEF NewFor, b
  <2>4. NewFor(w2, n, hop) = {k \in n + 1..b + 1 : w2[k].hop = hop} BY <1>2 DEF NewFor
  <2> HIDE DEF NewFor
  <2> QED BY <1>2, <2>1, <2>2, <2>3, <2>4
<1>6. IsFiniteSet(AskedOf(em, hop)) /\ a + 1 \notin AskedOf(em, hop)
  <2>1. AskedOf(em, hop) \subseteq 1..a BY <1>1 DEF AskedOf
  <2>2. IsFiniteSet(1..a) BY <1>1, FS_Interval
  <2>3. a + 1 \notin 1..a BY <1>1
  <2> QED BY <2>1, <2>2, <2>3, FS_Subset
<1>7. IsFiniteSet(NewFor(w, n, hop)) /\ b + 1 \notin NewFor(w, n, hop)
  <2>1. NewFor(w, n, hop) \subseteq n + 1..b BY DEF NewFor, b
  <2>2. IsFiniteSet(n + 1..b) BY <1>2, FS_Interval
  <2>3. b + 1 \notin n + 1..b BY <1>2
  <2> QED BY <2>1, <2>2, <2>3, FS_Subset
<1>8. CASE entry.hop = hop
  <2>1. Cardinality(AskedOf(em2, hop)) = Cardinality(AskedOf(em, hop)) + 1
    BY <1>4, <1>6, <1>8, FS_AddElement
  <2>2. Cardinality(NewFor(w2, n, hop)) = Cardinality(NewFor(w, n, hop)) + 1
    BY <1>5, <1>7, <1>8, FS_AddElement
  <2> QED BY <2>1, <2>2 DEF em2, w2, r
<1>9. CASE entry.hop # hop
  <2>1. AskedOf(em2, hop) = AskedOf(em, hop) /\ NewFor(w2, n, hop) = NewFor(w, n, hop)
    BY <1>4, <1>5, <1>9
  <2> QED BY <2>1 DEF em2, w2, r
<1> QED BY <1>8, <1>9

\* Queueing an entry for an unknown hop keeps the account of the queue.
LEMMA QueueKept ==
  ASSUME NEW c, NEW t \in Works(c), NEW B \in Int, NEW n \in Nat, NEW now, NEW q, Kept(t, B, n, now, q),
         NEW entry \in Queued, ~HasEntry(t, entry.hop, now), NewAttempt(q, entry)
  PROVE  Kept(Enqueue(t, entry), B, n, now, q)
<1> DEFINE u == Enqueue(t, entry)
           l == Len(t.waiting)
<1>1. /\ u.waiting = Append(t.waiting, entry) /\ u.bytes = t.bytes + entry.frame.size
      /\ u.emitted = Append(t.emitted, [kind |-> "request", to |-> entry.hop])
      /\ u.cache = t.cache
  BY EnqueueTyped
<1>2. t.waiting \in Seq(Queued) /\ t.emitted \in Seq(Emission) /\ t.bytes \in Int BY DEF Works
<1> HIDE DEF u
<1>3. /\ l \in Nat /\ Len(u.waiting) = l + 1 /\ u.waiting[l + 1] = entry
      /\ \A k \in 1..l : u.waiting[k] = t.waiting[k]
  BY <1>1, <1>2
<1>4. n <= l BY DEF Kept
<1> HIDE DEF l
<1>5. n <= Len(u.waiting) BY <1>3, <1>4
<1>6. Paid(u, B)
  <2>1. BytesOf(u.waiting) = BytesOf(t.waiting) + entry.frame.size BY <1>1, <1>2, BytesOfOne
  <2>2. entry.frame.size \in Nat BY DEF Queued, Frame, AnyFrame
  <2>3. BytesOf(t.waiting) \in Nat BY <1>2, BytesJoin
  <2>4. t.bytes = BytesOf(t.waiting) + B BY DEF Kept, Paid
  <2> QED BY <1>1, <2>1, <2>2, <2>3, <2>4 DEF Paid
<1>7. \A k \in n + 1..l + 1 : (k \in n + 1..l /\ k \in 1..l) \/ k = l + 1 BY <1>3, <1>4
<1>8. \A hop : HasEntry(u, hop, now) <=> HasEntry(t, hop, now) BY <1>1 DEF HasEntry
<1>9. Unanswered(u, n, now)
  <2>1. \A k \in n + 1..l : ~HasEntry(t, t.waiting[k].hop, now) BY DEF Kept, Unanswered, l
  <2>2. \A k \in n + 1..l + 1 : ~HasEntry(u, u.waiting[k].hop, now) BY <1>3, <1>7, <1>8, <2>1
  <2> QED BY <1>3, <2>2 DEF Unanswered
<1>10. Asked(u, n)
  <2>1. n <= Len(t.waiting) /\ Asked(t, n) BY DEF Kept
  <2> QED BY <1>1, <1>2, <2>1, AskedOnceMore DEF Asked
<1>11. NewAttempts(u, n, q)
  <2>1. \A k \in n + 1..l : NewAttempt(q, t.waiting[k]) BY DEF Kept, NewAttempts, l
  <2>2. \A k \in n + 1..l + 1 : NewAttempt(q, u.waiting[k]) BY <1>3, <1>7, <2>1
  <2> QED BY <1>3, <2>2 DEF NewAttempts
<1>12. Old(u, n, q)
  <2>1. \A k \in 1..n : k \in 1..l BY <1>3, <1>4
  <2>2. Old(t, n, q) BY DEF Kept
  <2> QED BY <1>3, <2>1, <2>2 DEF Old
<1> QED BY <1>5, <1>6, <1>9, <1>10, <1>11, <1>12 DEF Kept, u

\* The account of the queue depends on the queue, its bytes, the requests and the cache alone.
LEMMA SameKept ==
  ASSUME NEW t, NEW u, NEW B, NEW n, NEW now, NEW q, Kept(t, B, n, now, q),
         u.waiting = t.waiting, u.bytes = t.bytes, u.emitted = t.emitted, u.cache = t.cache
  PROVE  Kept(u, B, n, now, q)
BY DEF Kept, Paid, Unanswered, Asked, NewAttempts, HasEntry, Old

\* A frame that is put somewhere keeps the account of the queue.
LEMMA PutKept ==
  ASSUME NEW c, CacheTyped(c), NEW t \in Works(c), NEW B \in Int, NEW n \in Nat, NEW now, NEW q,
         Kept(t, B, n, now, q), NEW frame \in Frame, NEW attempts,
         \A j \in DOMAIN q : Id(q[j].frame) = Id(frame) => q[j].attempts # attempts,
         NEW u, Put(t, u, frame, attempts, now)
  PROVE  Kept(u, B, n, now, q)
<1>1. CASE u = Finalized(t, frame) BY <1>1, FinalizedTyped, SameKept
<1>2. ASSUME NEW ifIndex \in Ports, NEW mac \in Macs, u = Transmit(t, frame, ifIndex, mac)
      PROVE  Kept(u, B, n, now, q)
  BY <1>2, TransmitTyped, SameKept
<1>3. ASSUME NEW entry \in Queued, entry.frame = frame, entry.attempts = attempts,
             ~HasEntry(t, entry.hop, now), u = Enqueue(t, entry)
      PROVE  Kept(u, B, n, now, q)
  <2>1. NewAttempt(q, entry) BY <1>3 DEF NewAttempt
  <2> QED BY <1>3, <2>1, QueueKept
<1> QED BY <1>1, <1>2, <1>3 DEF Put

\* A frame that is given up, while its packet had no error in the queue.
LEMMA DealtKept ==
  ASSUME NEW c, CacheTyped(c), NEW t \in Works(c), NEW B \in Int, NEW n \in Nat, NEW now, NEW q,
         Kept(t, B, n, now, q), NEW frame \in Frame, NEW attempts,
         \A j \in DOMAIN q : Id(q[j].frame) = Id(frame) => q[j].attempts # attempts,
         frame.about = "none" =>
           \A j \in DOMAIN q : Id(q[j].frame).no = frame.no => Id(q[j].frame).about = "none",
         NEW u, Dealt(t, u, frame, attempts, now)
  PROVE  Kept(u, B, n, now, q)
<1>1. CASE Put(t, u, frame, attempts, now) BY <1>1, PutKept
<1>2. CASE u = Finalized(t, frame) BY <1>2, FinalizedTyped, SameKept
<1>3. ASSUME frame.kind # "error", NEW v, Put(t, v, ErrorAbout(frame), 0, now), u = Finalized(v, frame)
      PROVE  Kept(u, B, n, now, q)
  <2> DEFINE error == ErrorAbout(frame)
  <2>1. error \in Frame /\ error.no = frame.no /\ error.about # "none" /\ frame.about = "none"
    BY <1>3, ErrorTyped
  <2> HIDE DEF error
  <2>2. Id(error).no = frame.no /\ Id(error).about # "none" BY <2>1, IdTyped
  <2>3. \A j \in DOMAIN q : Id(q[j].frame) # Id(error) BY <2>1, <2>2
  <2>4. Put(t, v, error, 0, now) BY <1>3 DEF error
  <2>5. Kept(v, B, n, now, q) BY <2>1, <2>3, <2>4, PutKept
  <2>6. v \in Works(c) BY <2>1, <2>4, PutTyped
  <2> QED BY <1>3, <2>5, <2>6, FinalizedTyped, SameKept
<1> QED BY <1>1, <1>2, <1>3 DEF Dealt, GivenUp

-----------------------------------------------------------------------------
(* The walk over the queue.  Of q, n frames have been visited. *)

Runs(c) == [t : Works(c), kept : Seq(Queued)]

\* An entry that leaves the queue is no longer counted; nothing else changes.
LEMMA WithoutTyped ==
  ASSUME NEW c, NEW t \in Works(c), NEW entry \in Queued
  PROVE  /\ Without(t, entry) \in Works(c)
         /\ Without(t, entry).bytes = t.bytes - entry.frame.size
         /\ Without(t, entry).waiting = t.waiting /\ Without(t, entry).cache = t.cache
         /\ Without(t, entry).sent = t.sent /\ Without(t, entry).lost = t.lost
         /\ Without(t, entry).emitted = t.emitted
<1>1. t.bytes - entry.frame.size \in Int BY DEF Works, Queued, Frame, AnyFrame
<1>2. Without(t, entry) = [t EXCEPT !.bytes = t.bytes - entry.frame.size] BY DEF Without
<1> QED BY <1>1, <1>2 DEF Works

\* A frame that is visited stays as it is or is dealt with, as one more attempt.
LEMMA VisitDeals ==
  ASSUME NEW c, CacheTyped(c), NEW run \in Runs(c), NEW entry \in Queued, NEW now \in Int
  PROVE  \/ /\ Visit(run, entry, now) = [t |-> run.t, kept |-> Append(run.kept, entry)]
            /\ ~HasEntry(run.t, entry.hop, now)
         \/ \E u : /\ Visit(run, entry, now) = [t |-> u, kept |-> run.kept]
                   /\ Dealt(Without(run.t, entry), u, entry.frame, entry.attempts + 1, now)
<1> DEFINE t == Without(run.t, entry)
           v == Visit(run, entry, now)
<1>1. run.t \in Works(c) /\ run.kept \in Seq(Queued) /\ run = [t |-> run.t, kept |-> run.kept]
  BY DEF Runs
<1>2. t \in Works(c) /\ t.cache = run.t.cache BY <1>1, WithoutTyped
<1>3. \A u : [run EXCEPT !.t = u] = [t |-> u, kept |-> run.kept] BY <1>1
<1>4. [run EXCEPT !.kept = Append(run.kept, entry)] = [t |-> run.t, kept |-> Append(run.kept, entry)]
  BY <1>1
<1>5. HasEntry(t, entry.hop, now) <=> HasEntry(run.t, entry.hop, now) BY <1>2 DEF HasEntry
<1>6. CASE HasEntry(run.t, entry.hop, now)
  <2> DEFINE u == Transmit(t, entry.frame, entry.ifIndex, MacOf(t, entry.hop))
  <2>1. v = [run EXCEPT !.t = u] BY <1>6 DEF Visit
  <2>2. IsKnown(t, entry.hop, now) BY <1>5, <1>6 DEF IsKnown
  <2>3. MacOf(t, entry.hop) \in Macs /\ entry.ifIndex \in Ports BY <1>2, <2>2, MacKnown DEF Queued
  <2>4. Dealt(t, u, entry.frame, entry.attempts + 1, now) BY <2>3 DEF Dealt, Put
  <2> HIDE DEF u, t, v
  <2>5. v = [t |-> u, kept |-> run.kept] BY <1>3, <2>1
  <2> QED BY <2>4, <2>5 DEF t, v
<1>7. CASE ~HasEntry(run.t, entry.hop, now) /\ ~TimedOut(entry, now)
  <2>1. v = [run EXCEPT !.kept = Append(run.kept, entry)] BY <1>7 DEF Visit
  <2> QED BY <1>4, <1>7, <2>1 DEF v
<1>8. CASE ~HasEntry(run.t, entry.hop, now) /\ TimedOut(entry, now) /\ MayRetry(entry)
  <2> DEFINE again == Again(entry, now)
             u == Enlist(t, again, now)
  <2>1. v = [run EXCEPT !.t = u] BY <1>8 DEF Visit
  <2>2. /\ again \in Queued /\ again.frame = entry.frame /\ again.hop = entry.hop
        /\ again.attempts = entry.attempts + 1
    <3>1. entry \in [frame : Frame, hop : Hops, ifIndex : Ports, attempts : Nat, since : Int] BY DEF Queued
    <3>2. entry.attempts + 1 \in Nat /\ now \in Int BY <3>1
    <3>3. again = [entry EXCEPT !.attempts = entry.attempts + 1, !.since = now] BY DEF Again
    <3> HIDE DEF again, u, t, v
    <3>4. again = [frame |-> entry.frame, hop |-> entry.hop, ifIndex |-> entry.ifIndex,
                   attempts |-> entry.attempts + 1, since |-> now]
      BY <3>1, <3>3
    <3>5. /\ again.frame = entry.frame /\ again.hop = entry.hop /\ again.attempts = entry.attempts + 1
          /\ again.ifIndex = entry.ifIndex /\ again.since = now
      BY <3>4
    <3>6. again \in Queued BY <3>1, <3>2, <3>4 DEF Queued
    <3> QED BY <3>5, <3>6
  <2> HIDE DEF again
  <2>3. ~HasEntry(t, again.hop, now) BY <1>5, <1>8, <2>2
  <2>4. Dealt(t, u, again.frame, again.attempts, now) BY <1>2, <2>2, <2>3, EnlistDeals
  <2> HIDE DEF u, t, v
  <2>5. v = [t |-> u, kept |-> run.kept] BY <1>3, <2>1
  <2> QED BY <2>2, <2>4, <2>5 DEF t, v
<1>9. CASE ~HasEntry(run.t, entry.hop, now) /\ TimedOut(entry, now) /\ ~MayRetry(entry)
  <2> DEFINE u == Undeliverable(t, entry.frame, now)
  <2>1. v = [run EXCEPT !.t = u] BY <1>9 DEF Visit
  <2>2. entry.frame \in Frame BY DEF Queued
  <2>3. Dealt(t, u, entry.frame, entry.attempts + 1, now)
    BY <1>2, <2>2, UndeliverableGivesUp DEF Dealt
  <2> HIDE DEF u, t, v
  <2>4. v = [t |-> u, kept |-> run.kept] BY <1>3, <2>1
  <2> QED BY <2>3, <2>4 DEF t, v
<1> QED BY <1>6, <1>7, <1>8, <1>9

\* Visiting an entry of the queue keeps the run typed.
LEMMA VisitTyped ==
  ASSUME NEW c, CacheTyped(c), NEW run \in Runs(c), NEW entry \in Queued, NEW now \in Int
  PROVE  Visit(run, entry, now) \in Runs(c)
<1>1. run.t \in Works(c) /\ run.kept \in Seq(Queued) BY DEF Runs
<1>2. CASE Visit(run, entry, now) = [t |-> run.t, kept |-> Append(run.kept, entry)]
  BY <1>1, <1>2 DEF Runs
<1>3. ASSUME NEW u, Visit(run, entry, now) = [t |-> u, kept |-> run.kept],
             Dealt(Without(run.t, entry), u, entry.frame, entry.attempts + 1, now)
      PROVE  Visit(run, entry, now) \in Runs(c)
  <2>1. Without(run.t, entry) \in Works(c) /\ entry.frame \in Frame
    BY <1>1, WithoutTyped DEF Queued
  <2>2. u \in Works(c) BY <1>3, <2>1, DealtTyped
  <2> QED BY <1>1, <1>3, <2>2 DEF Runs
<1> QED BY <1>2, <1>3, VisitDeals

Rest(q, n) == {Id(q[k].frame) : k \in n + 1 .. Len(q)}

Elsewhere(run, q, n) == IdsIn(run.kept) \cup Rest(q, n)

\* No error about a packet waits with it.
Alone(q) == \A x, y \in IdsIn(q) : x.about = "none" /\ y.no = x.no => y = x

\* What holds when n frames have been visited; A are the frames to be accounted for.
Walk(run, c, q, sum, n, m, now, A) ==
  /\ run \in Runs(c)
  /\ OnceIn(run.kept) /\ IdsIn(run.kept) \cap Rest(q, n) = {}
  /\ \A k \in DOMAIN run.kept : ~HasEntry(run.t, run.kept[k].hop, now) /\ \E j \in DOMAIN q : run.kept[k] = q[j]
  /\ Placed(run.t, Elsewhere(run, q, n), m)
  /\ A \subseteq AllOf(run.t, Elsewhere(run, q, n))
  /\ Kept(run.t, BytesOf(run.kept) + (sum[Len(q)] - sum[n]), 0, now, q)

\* One more visit leaves one entry fewer to be visited.
LEMMA RestShrinks ==
  ASSUME NEW q \in Seq(Queued), OnceIn(q), NEW n \in 1..Len(q)
  PROVE  /\ Rest(q, n - 1) = Rest(q, n) \cup {Id(q[n].frame)}
         /\ Id(q[n].frame) \notin Rest(q, n)
<1>1. Len(q) \in Nat /\ DOMAIN q = 1..Len(q) OBVIOUS
<1>2. /\ (n - 1) + 1 = n /\ n \in n..Len(q) /\ n \in DOMAIN q
      /\ \A k \in n..Len(q) : k = n \/ k \in n + 1..Len(q)
      /\ \A k \in n + 1..Len(q) : k \in n..Len(q) /\ k # n /\ k \in DOMAIN q
  BY <1>1
<1>3. Rest(q, n - 1) = {Id(q[k].frame) : k \in n..Len(q)} BY <1>2 DEF Rest
<1>4. Rest(q, n - 1) = Rest(q, n) \cup {Id(q[n].frame)} BY <1>2, <1>3 DEF Rest
<1>5. Id(q[n].frame) \notin Rest(q, n) BY <1>2 DEF Rest, OnceIn
<1> QED BY <1>4, <1>5

\* One more visit moves the bytes of one entry from the rest to the visited.
LEMMA SizeMoves ==
  ASSUME NEW q \in Seq(Queued), NEW sum, Sums(q, sum), NEW n \in 1..Len(q)
  PROVE  /\ sum[Len(q)] \in Nat /\ sum[n] \in Nat /\ sum[n - 1] \in Nat
         /\ q[n].frame.size \in Nat /\ sum[n] = sum[n - 1] + q[n].frame.size
<1>1. Len(q) \in Nat /\ SizeAt(q, n) \in Nat BY SizesTyped
<1>2. Len(q) \in 0..Len(q) /\ n \in 0..Len(q) /\ n - 1 \in 0..Len(q) BY <1>1
<1> QED BY <1>1, <1>2 DEF Sums, SizeAt

\* A frame that is visited is kept.
LEMMA KeepStep ==
  ASSUME NEW c, NEW q \in Seq(Queued), OnceIn(q), NEW sum, Sums(q, sum),
         NEW m \in Nat, NEW now \in Int, NEW A, NEW n \in 1..Len(q),
         NEW r, Walk(r, c, q, sum, n - 1, m, now, A), ~HasEntry(r.t, q[n].hop, now)
  PROVE  Walk([t |-> r.t, kept |-> Append(r.kept, q[n])], c, q, sum, n, m, now, A)
<1> DEFINE x == Id(q[n].frame)
           r2 == [t |-> r.t, kept |-> Append(r.kept, q[n])]
           l == Len(r.kept)
<1>1. q[n] \in Queued /\ n \in DOMAIN q OBVIOUS
<1>2. r.t \in Works(c) /\ r.kept \in Seq(Queued) BY DEF Walk, Runs
<1>3. r2.t = r.t /\ r2.kept = Append(r.kept, q[n]) /\ r2 \in Runs(c) BY <1>1, <1>2 DEF Runs
<1> HIDE DEF r2
<1>4. Rest(q, n - 1) = Rest(q, n) \cup {x} /\ x \notin Rest(q, n) BY RestShrinks
<1>5. /\ IdsIn(r2.kept) = IdsIn(r.kept) \cup {x}
      /\ OnceIn(r.kept) /\ x \notin IdsIn(r.kept) => OnceIn(r2.kept)
  BY <1>1, <1>2, <1>3, AppendIds
<1> HIDE DEF x
<1>6. Elsewhere(r2, q, n) = Elsewhere(r, q, n - 1) BY <1>4, <1>5 DEF Elsewhere
<1>7. IdsIn(r.kept) \cap Rest(q, n - 1) = {} /\ OnceIn(r.kept) BY DEF Walk
<1>8. OnceIn(r2.kept) /\ IdsIn(r2.kept) \cap Rest(q, n) = {} BY <1>4, <1>5, <1>7
<1>9. \A k \in DOMAIN r2.kept : ~HasEntry(r2.t, r2.kept[k].hop, now) /\ \E j \in DOMAIN q : r2.kept[k] = q[j]
  <2>1. /\ l \in Nat /\ DOMAIN r.kept = 1..l /\ DOMAIN r2.kept = 1..l + 1 /\ r2.kept[l + 1] = q[n]
        /\ \A k \in 1..l : r2.kept[k] = r.kept[k]
    BY <1>1, <1>2, <1>3
  <2> HIDE DEF l
  <2>2. \A k \in 1..l + 1 : k \in 1..l \/ k = l + 1 BY <2>1
  <2>3. \A k \in 1..l : ~HasEntry(r.t, r.kept[k].hop, now) /\ \E j \in DOMAIN q : r.kept[k] = q[j]
    BY <2>1 DEF Walk
  <2> QED BY <1>1, <1>3, <2>1, <2>2, <2>3
<1>10. BytesOf(r2.kept) + (sum[Len(q)] - sum[n]) = BytesOf(r.kept) + (sum[Len(q)] - sum[n - 1])
  <2>1. BytesOf(r2.kept) = BytesOf(r.kept) + q[n].frame.size BY <1>1, <1>2, <1>3, BytesOfOne
  <2>2. BytesOf(r.kept) \in Nat BY <1>2, BytesJoin
  <2>3. /\ sum[Len(q)] \in Nat /\ sum[n] \in Nat /\ sum[n - 1] \in Nat
        /\ q[n].frame.size \in Nat /\ sum[n] = sum[n - 1] + q[n].frame.size
    BY SizeMoves
  <2> DEFINE a == sum[Len(q)]
             b == sum[n]
             d == sum[n - 1]
             k == BytesOf(r.kept)
             size == q[n].frame.size
  <2>4. /\ a \in Nat /\ b \in Nat /\ d \in Nat /\ k \in Nat /\ size \in Nat /\ b = d + size
        /\ BytesOf(r2.kept) = k + size
    BY <2>1, <2>2, <2>3
  <2> HIDE DEF a, b, d, k, size
  <2>5. BytesOf(r2.kept) + (a - b) = k + (a - d) BY <2>4
  <2> QED BY <2>5 DEF a, b, d, k
<1>11. /\ Placed(r2.t, Elsewhere(r2, q, n), m)
       /\ A \subseteq AllOf(r2.t, Elsewhere(r2, q, n))
       /\ Kept(r2.t, BytesOf(r2.kept) + (sum[Len(q)] - sum[n]), 0, now, q)
  BY <1>3, <1>6, <1>10 DEF Walk
<1>12. Walk(r2, c, q, sum, n, m, now, A) BY <1>3, <1>8, <1>9, <1>11 DEF Walk
<1> QED BY <1>12 DEF r2

\* A frame that is taken out of the queue is free.
LEMMA TakenOut ==
  ASSUME NEW t, NEW E, NEW m, NEW frame \in Frame, Id(frame) \notin E,
         Placed(t, E \cup {Id(frame)}, m)
  PROVE  /\ Placed(t, E, m) /\ Free(frame, t, E) /\ frame.no < m
         /\ AllOf(t, E \cup {Id(frame)}) = AllOf(t, E) \cup {Id(frame)}
<1> DEFINE x == Id(frame)
           W == IdsIn(t.waiting)
           S == SentIds(t)
           L == LostIds(t)
<1>1. x.no = frame.no /\ x.about = frame.about BY IdTyped
<1>2. AllOf(t, E \cup {x}) = AllOf(t, E) \cup {x} BY DEF AllOf
<1>3. Apart(W, E \cup {x}, S, L) BY DEF Placed
<1>4. AllOf(t, E) = W \cup E \cup S \cup L BY DEF AllOf
<1> HIDE DEF x, W, S, L
<1>5. Apart(W, E, S, L) BY <1>3 DEF Apart
<1>6. x \notin W \cup E \cup S \cup L BY <1>3 DEF Apart, x
<1>7. \A y \in W \cup E \cup S \cup L : y.no = x.no => x.about # "none" BY <1>3, <1>6 DEF Apart
<1>8. \A y \in W \cup E : y.no = x.no => y.about # "none" BY <1>3, <1>6 DEF Apart
<1>9. Free(frame, t, E) BY <1>1, <1>4, <1>6, <1>7, <1>8 DEF Free, x, W
<1>10. \A y \in AllOf(t, E) \cup {x} : y.no < m BY <1>2 DEF Placed, x
<1>11. Placed(t, E, m) BY <1>5, <1>10 DEF Placed, W, S, L
<1> QED BY <1>1, <1>2, <1>9, <1>10, <1>11 DEF x

\* A frame that is visited is sent, tried once more, or given up.
LEMMA DealStep ==
  ASSUME NEW c, CacheTyped(c), NEW q \in Seq(Queued), OnceIn(q), Alone(q), NEW sum, Sums(q, sum),
         NEW m \in Nat, NEW now \in Int, NEW A, NEW n \in 1..Len(q),
         NEW r, Walk(r, c, q, sum, n - 1, m, now, A),
         NEW u, Dealt(Without(r.t, q[n]), u, q[n].frame, q[n].attempts + 1, now)
  PROVE  Walk([t |-> u, kept |-> r.kept], c, q, sum, n, m, now, A)
<1> DEFINE e == q[n]
           x == Id(e.frame)
           r2 == [t |-> u, kept |-> r.kept]
           t1 == Without(r.t, e)
           E2 == IdsIn(r.kept) \cup Rest(q, n)
           B1 == BytesOf(r.kept) + (sum[Len(q)] - sum[n - 1])
           B2 == BytesOf(r.kept) + (sum[Len(q)] - sum[n])
<1>1. e \in Queued /\ n \in DOMAIN q OBVIOUS
<1>2. r.t \in Works(c) /\ r.kept \in Seq(Queued) BY DEF Walk, Runs
<1>3. e.frame \in Frame /\ e.attempts \in Nat /\ e.frame.size \in Nat BY <1>1 DEF Queued, Frame, AnyFrame
<1>4. /\ t1 \in Works(c) /\ t1.bytes = r.t.bytes - e.frame.size
      /\ t1.waiting = r.t.waiting /\ t1.cache = r.t.cache
      /\ t1.sent = r.t.sent /\ t1.lost = r.t.lost /\ t1.emitted = r.t.emitted
  BY <1>1, <1>2, WithoutTyped
<1>5. Rest(q, n - 1) = Rest(q, n) \cup {x} /\ x \notin Rest(q, n) BY RestShrinks
<1>6. Dealt(t1, u, e.frame, e.attempts + 1, now) OBVIOUS
<1>7. \A j \in DOMAIN q : Id(q[j].frame) = x => q[j].attempts # e.attempts + 1
  <2> SUFFICES ASSUME NEW j \in DOMAIN q, Id(q[j].frame) = x PROVE q[j].attempts # e.attempts + 1 OBVIOUS
  <2>1. j = n BY <1>1 DEF OnceIn
  <2>2. e.attempts # e.attempts + 1 BY <1>3
  <2> QED BY <2>1, <2>2
<1>8. e.frame.about = "none" =>
        \A j \in DOMAIN q : Id(q[j].frame).no = e.frame.no => Id(q[j].frame).about = "none"
  <2> SUFFICES ASSUME e.frame.about = "none", NEW j \in DOMAIN q, Id(q[j].frame).no = e.frame.no
               PROVE  Id(q[j].frame).about = "none"
    OBVIOUS
  <2>1. x.no = e.frame.no /\ x.about = "none" BY <1>3, IdTyped
  <2>2. x \in IdsIn(q) /\ Id(q[j].frame) \in IdsIn(q) BY <1>1 DEF IdsIn
  <2>3. Id(q[j].frame) = x BY <2>1, <2>2 DEF Alone
  <2> QED BY <2>1, <2>3
<1>9. r2.t = u /\ r2.kept = r.kept OBVIOUS
<1> HIDE DEF e, t1, r2
<1>10. u \in Works(c) BY <1>3, <1>4, <1>6, DealtTyped
<1>11. Elsewhere(r2, q, n) = E2 /\ Elsewhere(r, q, n - 1) = E2 \cup {x}
  BY <1>5, <1>9 DEF Elsewhere
<1>12. IdsIn(r.kept) \cap Rest(q, n - 1) = {} BY DEF Walk
<1>13. x \notin E2 BY <1>5, <1>12
<1> HIDE DEF E2
<1>14. Placed(t1, E2 \cup {x}, m) /\ A \subseteq AllOf(t1, E2 \cup {x})
  <2>1. Placed(r.t, E2 \cup {x}, m) /\ A \subseteq AllOf(r.t, E2 \cup {x}) BY <1>11 DEF Walk
  <2>2. SentIds(t1) = SentIds(r.t) /\ LostIds(t1) = LostIds(r.t) BY <1>4 DEF SentIds, LostIds
  <2> QED BY <1>4, <2>1, <2>2 DEF Placed, AllOf
<1>15. /\ Placed(t1, E2, m) /\ Free(e.frame, t1, E2) /\ e.frame.no < m
       /\ AllOf(t1, E2 \cup {x}) = AllOf(t1, E2) \cup {x}
  <2>1. Id(e.frame) \notin E2 /\ Placed(t1, E2 \cup {Id(e.frame)}, m) BY <1>13, <1>14
  <2>2. e.frame \in Frame BY <1>3
  <2> HIDE DEF x
  <2>3. Placed(t1, E2, m) /\ Free(e.frame, t1, E2) BY <2>1, <2>2, TakenOut, Zenon
  <2>4. e.frame.no < m BY <2>1, <2>2, TakenOut, Zenon
  <2>5. AllOf(t1, E2 \cup {Id(e.frame)}) = AllOf(t1, E2) \cup {Id(e.frame)} BY DEF AllOf
  <2> QED BY <2>3, <2>4, <2>5 DEF x
<1>16. Placed(u, E2, m) /\ AllOf(t1, E2) \cup {x} \subseteq AllOf(u, E2)
  BY <1>3, <1>4, <1>6, <1>15, DealtPlaced
<1>17. A \subseteq AllOf(u, E2) BY <1>14, <1>15, <1>16
<1>18. B1 \in Int /\ B2 \in Int /\ B2 = B1 - e.frame.size
  <2>1. BytesOf(r.kept) \in Nat BY <1>2, BytesJoin
  <2>2. /\ sum[Len(q)] \in Nat /\ sum[n] \in Nat /\ sum[n - 1] \in Nat
        /\ e.frame.size \in Nat /\ sum[n] = sum[n - 1] + e.frame.size
    BY SizeMoves DEF e
  <2> DEFINE a == sum[Len(q)]
             b == sum[n]
             d == sum[n - 1]
             k == BytesOf(r.kept)
             size == e.frame.size
  <2>3. a \in Nat /\ b \in Nat /\ d \in Nat /\ k \in Nat /\ size \in Nat /\ b = d + size BY <2>1, <2>2
  <2> HIDE DEF a, b, d, k, size
  <2>4. k + (a - d) \in Int /\ k + (a - b) \in Int /\ k + (a - b) = (k + (a - d)) - size BY <2>3
  <2> QED BY <2>4 DEF a, b, d, k, size
<1>19. Kept(t1, B2, 0, now, q)
  <2>1. Kept(r.t, B1, 0, now, q) BY DEF Walk
  <2> HIDE DEF B1, B2
  <2>2. r.t.bytes \in Int /\ r.t.waiting \in Seq(Queued) BY <1>2 DEF Works
  <2>3. BytesOf(r.t.waiting) \in Nat BY <2>2, BytesJoin
  <2>4. Paid(t1, B2) BY <1>3, <1>4, <1>18, <2>1, <2>2, <2>3 DEF Kept, Paid
  <2>5. Unanswered(t1, 0, now) BY <1>4, <2>1 DEF Kept, Unanswered, HasEntry
  <2>6. Asked(t1, 0) /\ NewAttempts(t1, 0, q) BY <1>4, <2>1 DEF Kept, Asked, NewAttempts
  <2>7. 0 <= Len(t1.waiting) /\ Old(t1, 0, q) BY <1>4, <2>1 DEF Kept, Old
  <2> QED BY <2>4, <2>5, <2>6, <2>7 DEF Kept
<1>20. Kept(u, B2, 0, now, q)
  <2> HIDE DEF B2
  <2>1. B2 \in Int /\ 0 \in Nat BY <1>18
  <2> QED BY <1>3, <1>4, <1>6, <1>7, <1>8, <1>19, <2>1, DealtKept
<1>21. \A k \in DOMAIN r2.kept : ~HasEntry(r2.t, r2.kept[k].hop, now) /\ \E j \in DOMAIN q : r2.kept[k] = q[j]
  <2>1. r.t.cache = c /\ u.cache = c BY <1>2, <1>10 DEF Works
  <2> QED BY <1>9, <2>1 DEF Walk, HasEntry
<1>22. OnceIn(r2.kept) /\ IdsIn(r2.kept) \cap Rest(q, n) = {} BY <1>5, <1>9, <1>12 DEF Walk
<1>23. r2 \in Runs(c) BY <1>2, <1>10 DEF Runs, r2
<1>24. Walk(r2, c, q, sum, n, m, now, A)
  BY <1>9, <1>11, <1>16, <1>17, <1>20, <1>21, <1>22, <1>23 DEF Walk
<1> QED BY <1>24 DEF r2

\* One more visit keeps the invariant of the walk over the queue.
LEMMA VisitStep ==
  ASSUME NEW c, CacheTyped(c), NEW q \in Seq(Queued), OnceIn(q), Alone(q), NEW sum, Sums(q, sum),
         NEW m \in Nat, NEW now \in Int, NEW A, NEW n \in 1..Len(q),
         NEW r, Walk(r, c, q, sum, n - 1, m, now, A)
  PROVE  Walk(Visit(r, q[n], now), c, q, sum, n, m, now, A)
<1>1. q[n] \in Queued /\ r \in Runs(c) BY DEF Walk
<1>2. CASE /\ Visit(r, q[n], now) = [t |-> r.t, kept |-> Append(r.kept, q[n])]
           /\ ~HasEntry(r.t, q[n].hop, now)
  BY <1>2, KeepStep
<1>3. ASSUME NEW u, Visit(r, q[n], now) = [t |-> u, kept |-> r.kept],
             Dealt(Without(r.t, q[n]), u, q[n].frame, q[n].attempts + 1, now)
      PROVE  Walk(Visit(r, q[n], now), c, q, sum, n, m, now, A)
  BY <1>3, DealStep
<1> QED BY <1>1, <1>2, <1>3, VisitDeals

\* The walk over the queue starts within its invariant.
LEMMA WalkStarts ==
  ASSUME NEW c, NEW t \in Works(c), NEW m \in Nat, NEW now \in Int, Placed(t, {}, m), Paid(t, 0),
         t.emitted = << >>, NEW sum, Sums(t.waiting, sum), BytesOf(t.waiting) = sum[Len(t.waiting)]
  PROVE  Walk([t |-> [t EXCEPT !.waiting = << >>], kept |-> << >>], c, t.waiting, sum, 0, m, now, AllOf(t, {}))
<1> DEFINE q == t.waiting
           t0 == [t EXCEPT !.waiting = << >>]
           r == [t |-> t0, kept |-> << >>]
           E == Rest(q, 0)
<1>1. q \in Seq(Queued) /\ << >> \in Seq(Queued) /\ t.bytes \in Int BY DEF Works
<1>2. /\ t0 \in Works(c) /\ t0.waiting = << >> /\ t0.bytes = t.bytes /\ t0.emitted = << >>
      /\ t0.sent = t.sent /\ t0.lost = t.lost
  BY <1>1 DEF Works
<1>3. r.t = t0 /\ r.kept = << >> /\ r \in Runs(c) BY <1>1, <1>2 DEF Runs
<1> HIDE DEF r, t0
<1>4. DOMAIN << >> = {} /\ Len(<< >>) = 0 /\ IdsIn(<< >>) = {} /\ OnceIn(<< >>) BY DEF IdsIn, OnceIn
<1>5. Rest(q, 0) = IdsIn(q)
  <2>1. DOMAIN q = 0 + 1..Len(q) BY <1>1
  <2> QED BY <2>1 DEF Rest, IdsIn
<1>6. Elsewhere(r, q, 0) = E BY <1>3, <1>4 DEF Elsewhere
<1>7. SentIds(t0) = SentIds(t) /\ LostIds(t0) = LostIds(t) BY <1>2 DEF SentIds, LostIds
<1>8. AllOf(t0, E) = AllOf(t, {}) BY <1>2, <1>4, <1>5, <1>7 DEF AllOf
<1>9. Placed(t0, E, m)
  <2>1. Apart(IdsIn(q), {}, SentIds(t), LostIds(t)) BY DEF Placed
  <2>2. Apart({}, IdsIn(q), SentIds(t), LostIds(t)) BY <2>1 DEF Apart
  <2>3. Apart(IdsIn(t0.waiting), E, SentIds(t0), LostIds(t0)) BY <1>2, <1>4, <1>5, <1>7, <2>2
  <2>4. \A x \in AllOf(t0, E) : x.no < m BY <1>8 DEF Placed
  <2> QED BY <1>2, <1>4, <2>3, <2>4 DEF Placed
<1>10. BytesOf(r.kept) + (sum[Len(q)] - sum[0]) = BytesOf(q) /\ BytesOf(<< >>) = 0 /\ BytesOf(q) \in Nat
  <2>1. BytesOf(<< >>) = 0
    <3>1. PICK a : Sums(<< >>, a) /\ BytesOf(<< >>) = a[Len(<< >>)] BY <1>1, SumsExist
    <3> QED BY <1>4, <3>1 DEF Sums
  <2>2. BytesOf(q) \in Nat BY <1>1, BytesJoin
  <2>3. sum[0] = 0 BY DEF Sums
  <2> QED BY <1>3, <2>1, <2>2, <2>3
<1>11. Kept(t0, BytesOf(q), 0, now, q)
  <2>1. Paid(t0, BytesOf(q)) BY <1>1, <1>2, <1>10 DEF Paid
  <2>2. Unanswered(t0, 0, now) /\ NewAttempts(t0, 0, q) /\ 0 <= Len(t0.waiting) /\ Old(t0, 0, q)
    BY <1>2, <1>4 DEF Unanswered, NewAttempts, Old
  <2>3. Asked(t0, 0)
    <3>1. \A hop : AskedOf(t0.emitted, hop) = {} BY <1>2, <1>4 DEF AskedOf
    <3>2. \A hop : NewFor(t0.waiting, 0, hop) = {} BY <1>2, <1>4 DEF NewFor
    <3> QED BY <3>1, <3>2 DEF Asked
  <2> QED BY <2>1, <2>2, <2>3 DEF Kept
<1>12. /\ OnceIn(r.kept) /\ IdsIn(r.kept) \cap Rest(q, 0) = {}
       /\ \A k \in DOMAIN r.kept : ~HasEntry(r.t, r.kept[k].hop, now) /\ \E j \in DOMAIN q : r.kept[k] = q[j]
  BY <1>3, <1>4
<1>13. /\ Placed(r.t, Elsewhere(r, q, 0), m) /\ AllOf(t, {}) \subseteq AllOf(r.t, Elsewhere(r, q, 0))
       /\ Kept(r.t, BytesOf(r.kept) + (sum[Len(q)] - sum[0]), 0, now, q)
  BY <1>3, <1>6, <1>8, <1>9, <1>10, <1>11
<1>14. Walk(r, c, q, sum, 0, m, now, AllOf(t, {})) BY <1>3, <1>12, <1>13 DEF Walk
<1> QED BY <1>14 DEF r, t0

\* At its end the walk has accounted for the whole queue.
LEMMA WalkEnds ==
  ASSUME NEW c, NEW q \in Seq(Queued), NEW sum, Sums(q, sum), NEW m \in Nat, NEW now \in Int, NEW A,
         NEW r, Walk(r, c, q, sum, Len(q), m, now, A)
  PROVE  LET u == [r.t EXCEPT !.waiting = r.kept \o r.t.waiting]
         IN  /\ u \in Works(c) /\ Placed(u, {}, m) /\ A \subseteq AllOf(u, {})
             /\ Kept(u, 0, Len(r.kept), now, q) /\ Len(r.kept) \in Nat /\ Unanswered(u, 0, now)
<1> DEFINE t == r.t
           K == r.kept
           w == t.waiting
           u == [t EXCEPT !.waiting = K \o w]
           l == Len(K)
<1>1. t \in Works(c) /\ K \in Seq(Queued) BY DEF Walk, Runs
<1>2. w \in Seq(Queued) /\ t.bytes \in Int BY <1>1 DEF Works
<1>3. K \o w \in Seq(Queued) BY <1>1, <1>2
<1>4. /\ u \in Works(c) /\ u.waiting = K \o w /\ u.bytes = t.bytes /\ u.sent = t.sent /\ u.lost = t.lost
      /\ u.emitted = t.emitted /\ u.cache = t.cache
  BY <1>1, <1>3 DEF Works
<1>5. /\ l \in Nat /\ Len(w) \in Nat /\ Len(u.waiting) = l + Len(w) /\ DOMAIN K = 1..l /\ DOMAIN w = 1..Len(w)
      /\ DOMAIN u.waiting = 1..l + Len(w)
      /\ \A k \in 1..l : u.waiting[k] = K[k]
      /\ \A k \in 1..Len(w) : u.waiting[l + k] = w[k]
  <2>1. K \in Seq(Queued) /\ w \in Seq(Queued) BY <1>1, <1>2
  <2>2. u.waiting = K \o w BY <1>4
  <2> HIDE DEF K, w, u
  <2> DEFINE v == K \o w
  <2>3. /\ l \in Nat /\ Len(w) \in Nat /\ Len(v) = l + Len(w) /\ DOMAIN K = 1..l /\ DOMAIN w = 1..Len(w)
        /\ DOMAIN v = 1..l + Len(w)
        /\ \A k \in 1..l : v[k] = K[k]
        /\ \A k \in 1..Len(w) : v[l + k] = w[k]
    BY <2>1
  <2> QED BY <2>2, <2>3
<1> HIDE DEF u
<1>6. /\ OnceIn(K) /\ Placed(t, Elsewhere(r, q, Len(q)), m) /\ A \subseteq AllOf(t, Elsewhere(r, q, Len(q)))
      /\ \A k \in DOMAIN K : ~HasEntry(t, K[k].hop, now) /\ \E j \in DOMAIN q : K[k] = q[j]
      /\ Kept(t, BytesOf(K) + (sum[Len(q)] - sum[Len(q)]), 0, now, q)
  BY DEF Walk
<1>7. Elsewhere(r, q, Len(q)) = IdsIn(K)
  <2>1. Rest(q, Len(q)) = {} BY DEF Rest
  <2> QED BY <2>1 DEF Elsewhere
<1> HIDE DEF t, K, w, l
<1>8. \A k \in DOMAIN u.waiting : k \in 1..l \/ \E i \in 1..Len(w) : k = l + i
  <2> SUFFICES ASSUME NEW k \in 1..l + Len(w), k \notin 1..l PROVE \E i \in 1..Len(w) : k = l + i BY <1>5
  <2>1. k - l \in 1..Len(w) /\ k = l + (k - l) BY <1>5
  <2> QED BY <2>1
<1>9. \A i \in 1..Len(w) : l + i \in DOMAIN u.waiting BY <1>5
<1>10. \A k \in 1..l : k \in DOMAIN u.waiting BY <1>5
<1>11. IdsIn(u.waiting) = IdsIn(K) \cup IdsIn(w)
  <2>1. IdsIn(u.waiting) \subseteq IdsIn(K) \cup IdsIn(w)
    <3> SUFFICES ASSUME NEW k \in DOMAIN u.waiting PROVE Id(u.waiting[k].frame) \in IdsIn(K) \cup IdsIn(w)
      BY DEF IdsIn
    <3>1. CASE k \in 1..l BY <1>5, <3>1 DEF IdsIn
    <3>2. ASSUME NEW i \in 1..Len(w), k = l + i PROVE Id(u.waiting[k].frame) \in IdsIn(w)
      BY <1>5, <3>2 DEF IdsIn
    <3> QED BY <1>8, <3>1, <3>2
  <2>2. IdsIn(K) \subseteq IdsIn(u.waiting)
    <3> SUFFICES ASSUME NEW k \in 1..l PROVE Id(K[k].frame) \in IdsIn(u.waiting) BY <1>5 DEF IdsIn
    <3> QED BY <1>5, <1>10 DEF IdsIn
  <2>3. IdsIn(w) \subseteq IdsIn(u.waiting)
    <3> SUFFICES ASSUME NEW i \in 1..Len(w) PROVE Id(w[i].frame) \in IdsIn(u.waiting) BY <1>5 DEF IdsIn
    <3>1. w[i] = u.waiting[l + i] /\ l + i \in DOMAIN u.waiting BY <1>5, <1>9
    <3> QED BY <3>1 DEF IdsIn
  <2> QED BY <2>1, <2>2, <2>3
<1>12. Apart(IdsIn(w), IdsIn(K), SentIds(t), LostIds(t)) /\ OnceIn(w) BY <1>6, <1>7 DEF Placed, w
<1>13. SentIds(u) = SentIds(t) /\ LostIds(u) = LostIds(t) BY <1>4 DEF SentIds, LostIds
<1>14. OnceIn(u.waiting)
  <2> SUFFICES ASSUME NEW j \in DOMAIN u.waiting, NEW k \in DOMAIN u.waiting,
                      Id(u.waiting[j].frame) = Id(u.waiting[k].frame)
               PROVE  j = k
    BY DEF OnceIn
  <2>1. IdsIn(w) \cap IdsIn(K) = {} BY <1>12 DEF Apart
  <2>2. CASE j \in 1..l /\ k \in 1..l BY <1>5, <1>6, <2>2 DEF OnceIn
  <2>3. ASSUME j \in 1..l, NEW i \in 1..Len(w), k = l + i PROVE FALSE BY <1>5, <2>1, <2>3 DEF IdsIn
  <2>4. ASSUME k \in 1..l, NEW i \in 1..Len(w), j = l + i PROVE FALSE BY <1>5, <2>1, <2>4 DEF IdsIn
  <2>5. ASSUME NEW i \in 1..Len(w), j = l + i, NEW h \in 1..Len(w), k = l + h PROVE j = k
    <3>1. Id(w[i].frame) = Id(w[h].frame) BY <1>5, <2>5
    <3>2. i = h BY <1>5, <1>12, <3>1 DEF OnceIn
    <3> QED BY <2>5, <3>2
  <2> QED BY <1>8, <2>2, <2>3, <2>4, <2>5
<1>15. AllOf(u, {}) = AllOf(t, IdsIn(K)) BY <1>11, <1>13 DEF AllOf, w
<1>16. Placed(u, {}, m)
  <2>1. Apart(IdsIn(w) \cup IdsIn(K), {}, SentIds(t), LostIds(t)) BY <1>12 DEF Apart
  <2>2. Apart(IdsIn(u.waiting), {}, SentIds(u), LostIds(u)) BY <1>11, <1>13, <2>1
  <2>3. \A x \in AllOf(u, {}) : x.no < m BY <1>6, <1>7, <1>15 DEF Placed
  <2> QED BY <1>14, <2>2, <2>3 DEF Placed
<1>17. A \subseteq AllOf(u, {}) BY <1>6, <1>7, <1>15
<1>18. Kept(t, BytesOf(K), 0, now, q)
  <2>1. BytesOf(K) \in Nat BY <1>1, BytesJoin
  <2>2. sum[Len(q)] \in Nat
    <3>1. Len(q) \in 0..Len(q) BY SizesTyped
    <3> QED BY <3>1 DEF Sums
  <2>3. BytesOf(K) + (sum[Len(q)] - sum[Len(q)]) = BytesOf(K) BY <2>1, <2>2
  <2> QED BY <1>6, <2>3
<1>19. \A hop : HasEntry(u, hop, now) <=> HasEntry(t, hop, now) BY <1>4 DEF HasEntry
<1>20. \A i \in 1..Len(w) : ~HasEntry(u, w[i].hop, now)
  <2>1. \A i \in 0 + 1..Len(w) : ~HasEntry(t, w[i].hop, now) BY <1>18 DEF Kept, Unanswered, w
  <2>2. 0 + 1 = 1 OBVIOUS
  <2> QED BY <1>19, <2>1, <2>2
<1>21. \A k \in DOMAIN u.waiting : ~HasEntry(u, u.waiting[k].hop, now)
  BY <1>5, <1>6, <1>8, <1>19, <1>20
<1>22. \A k \in l + 1..Len(u.waiting) : \E i \in 1..Len(w) : k = l + i
  <2>1. \A k \in l + 1..Len(u.waiting) : k \in DOMAIN u.waiting /\ k \notin 1..l BY <1>5
  <2> QED BY <1>8, <2>1
<1>23. Paid(u, 0)
  <2>1. t.bytes = BytesOf(w) + BytesOf(K) BY <1>18 DEF Kept, Paid, w
  <2>2. BytesOf(u.waiting) = BytesOf(K) + BytesOf(w) /\ BytesOf(K) \in Nat /\ BytesOf(w) \in Nat
    BY <1>1, <1>2, <1>4, BytesJoin
  <2> QED BY <1>4, <2>1, <2>2 DEF Paid
<1>24. Asked(u, l)
  <2> SUFFICES ASSUME NEW hop PROVE Cardinality(AskedOf(u.emitted, hop)) = Cardinality(NewFor(u.waiting, l, hop))
    BY DEF Asked
  <2> DEFINE J == NewFor(w, 0, hop)
             S == NewFor(u.waiting, l, hop)
             f == [i \in J |-> l + i]
  <2>1. Cardinality(AskedOf(t.emitted, hop)) = Cardinality(J) BY <1>18 DEF Kept, Asked, w
  <2>2. J = {i \in 1..Len(w) : w[i].hop = hop} BY DEF NewFor
  <2>3. S = {k \in l + 1..l + Len(w) : u.waiting[k].hop = hop} BY <1>5 DEF NewFor
  <2> HIDE DEF J, S
  <2>4. \A i \in J : l + i \in S
    <3> SUFFICES ASSUME NEW i \in J PROVE l + i \in S OBVIOUS
    <3>1. i \in 1..Len(w) /\ w[i].hop = hop BY <2>2
    <3>2. l + i \in l + 1..l + Len(w) BY <1>5, <3>1
    <3> QED BY <1>5, <2>3, <3>1, <3>2
  <2>5. \A k \in S : \E i \in J : f[i] = k
    <3> SUFFICES ASSUME NEW k \in S PROVE \E i \in J : f[i] = k OBVIOUS
    <3>1. k \in l + 1..Len(u.waiting) /\ u.waiting[k].hop = hop BY <1>5, <2>3
    <3>2. PICK i \in 1..Len(w) : k = l + i BY <1>22, <3>1
    <3>3. i \in J BY <1>5, <2>2, <3>1, <3>2
    <3> QED BY <3>2, <3>3
  <2>6. f \in [J -> S] BY <2>4
  <2>7. \A i, j \in J : f[i] = f[j] => i = j
    <3>1. \A i \in J : i \in Int BY <2>2
    <3>2. \A i, j \in J : l + i = l + j => i = j BY <1>5, <3>1
    <3> QED BY <3>2
  <2>8. IsFiniteSet(J)
    <3>1. IsFiniteSet(1..Len(w)) BY <1>5, FS_Interval
    <3> QED BY <2>2, <3>1, FS_Subset
  <2> HIDE DEF f
  <2>9. Cardinality(S) = Cardinality(J) BY <2>5, <2>6, <2>7, <2>8, NumberedSet
  <2> QED BY <1>4, <2>1, <2>9 DEF S
<1>25. NewAttempts(u, l, q)
  <2>1. \A i \in 0 + 1..Len(w) : NewAttempt(q, w[i]) BY <1>18 DEF Kept, NewAttempts, w
  <2>2. 0 + 1 = 1 OBVIOUS
  <2>3. \A i \in 1..Len(w) : NewAttempt(q, u.waiting[l + i]) BY <1>5, <2>1, <2>2
  <2> QED BY <1>22, <2>3 DEF NewAttempts
<1>26. Old(u, l, q) BY <1>5, <1>6 DEF Old
<1>27. Unanswered(u, l, now) /\ Unanswered(u, 0, now)
  <2>1. \A k \in l + 1..Len(u.waiting) : k \in DOMAIN u.waiting BY <1>5
  <2>2. \A k \in 0 + 1..Len(u.waiting) : k \in DOMAIN u.waiting BY <1>5
  <2> QED BY <1>21, <2>1, <2>2 DEF Unanswered
<1>28. l <= Len(u.waiting) BY <1>5
<1>29. Kept(u, 0, l, now, q) BY <1>23, <1>24, <1>25, <1>26, <1>27, <1>28 DEF Kept
<1>30. /\ u \in Works(c) /\ Placed(u, {}, m) /\ A \subseteq AllOf(u, {})
       /\ Kept(u, 0, l, now, q) /\ l \in Nat /\ Unanswered(u, 0, now)
  BY <1>4, <1>5, <1>16, <1>17, <1>27, <1>29
<1> QED BY <1>30 DEF u, l, K, t, w

\* Checking the queue keeps every frame in one place, and leaves no entry whose hop is known.
LEMMA QueueChecking ==
  ASSUME NEW c, CacheTyped(c), NEW t \in Works(c), NEW m \in Nat, NEW now \in Int,
         Placed(t, {}, m), Paid(t, 0), t.emitted = << >>
  PROVE  /\ CheckQueue(t, now) \in Works(c)
         /\ Placed(CheckQueue(t, now), {}, m)
         /\ AllOf(t, {}) \subseteq AllOf(CheckQueue(t, now), {})
         /\ \E n \in Nat : Kept(CheckQueue(t, now), 0, n, now, t.waiting)
         /\ Unanswered(CheckQueue(t, now), 0, now)
<1> DEFINE q == t.waiting
           l == Len(q)
           start == [t |-> [t EXCEPT !.waiting = << >>], kept |-> << >>]
           Def(f) == f = [n \in 0..l |-> IF n = 0 THEN [t |-> [t EXCEPT !.waiting = << >>], kept |-> << >>]
                                         ELSE Visit(f[n - 1], q[n], now)]
           run == CHOOSE f : Def(f)
           A == AllOf(t, {})
           step == [x \in (1..l) \X Runs(c) |-> Visit(x[2], q[x[1]], now)]
<1>1. q \in Seq(Queued) BY DEF Works
<1>2. CheckQueue(t, now) = [run[l].t EXCEPT !.waiting = run[l].kept \o run[l].t.waiting] BY DEF CheckQueue
<1>3. PICK sum : Sums(q, sum) /\ BytesOf(q) = sum[Len(q)] BY <1>1, SumsExist
<1>4. Walk(start, c, q, sum, 0, m, now, A) BY <1>3, WalkStarts
<1>5. OnceIn(q) /\ Alone(q)
  <2>1. OnceIn(q) /\ Apart(IdsIn(q), {}, SentIds(t), LostIds(t)) BY DEF Placed
  <2> QED BY <2>1 DEF Apart, Alone
<1>6. l \in Nat /\ \A n \in 1..l : q[n] \in Queued BY <1>1
<1>7. start \in Runs(c) BY <1>4 DEF Walk
<1> HIDE DEF l
<1>8. step \in [(1..l) \X Runs(c) -> Runs(c)]
  <2>1. \A n \in 1..l, r \in Runs(c) : Visit(r, q[n], now) \in Runs(c) BY <1>6, VisitTyped
  <2> QED BY <2>1
<1>9. \A n \in 1..l, r \in Runs(c) : step[<<n, r>>] = Visit(r, q[n], now) OBVIOUS
<1> HIDE DEF step
<1>10. PICK h \in [0..l -> Runs(c)] : Steps(h, l, start, step) BY <1>6, <1>7, <1>8, History
<1>11. Def(h)
  <2>1. ASSUME NEW n \in 0..l PROVE h[n] = IF n = 0 THEN start ELSE Visit(h[n - 1], q[n], now)
    <3>1. CASE n = 0 BY <1>10, <3>1 DEF Steps
    <3>2. CASE n # 0
      <4>1. n \in 1..l /\ n - 1 \in 0..l BY <1>6, <3>2
      <4>2. h[n - 1] \in Runs(c) BY <1>10, <4>1
      <4>3. h[n] = step[<<n, h[n - 1]>>] BY <1>10, <4>1 DEF Steps
      <4>4. h[n] = Visit(h[n - 1], q[n], now) BY <1>9, <4>1, <4>2, <4>3
      <4> QED BY <3>2, <4>4
    <3> QED BY <3>1, <3>2
  <2> QED BY <2>1
<1>12. Def(run) BY <1>11
<1> HIDE DEF run
<1>13. /\ \A n \in 0..l : run[n] = IF n = 0 THEN start ELSE Visit(run[n - 1], q[n], now)
  BY <1>12
<1> HIDE DEF Def, start, A, q
<1>14. run[0] = start /\ \A n \in 1..l : run[n] = Visit(run[n - 1], q[n], now)
  <2>1. 0 \in 0..l /\ \A n \in 1..l : n \in 0..l /\ n # 0 BY <1>6
  <2> QED BY <1>13, <2>1
<1> DEFINE G == {n \in 0..l : Walk(run[n], c, q, sum, n, m, now, A)}
<1>15. 0 \in G BY <1>4, <1>6, <1>14
<1>16. ASSUME NEW n \in 1..l, n - 1 \in G PROVE n \in G
  <2>1. Walk(run[n - 1], c, q, sum, n - 1, m, now, A) /\ n \in 1..Len(q) /\ n \in 0..l BY <1>6, <1>16 DEF l
  <2> HIDE DEF G
  <2>2. Walk(Visit(run[n - 1], q[n], now), c, q, sum, n, m, now, A) BY <1>1, <1>3, <1>5, <2>1, VisitStep
  <2>3. Walk(run[n], c, q, sum, n, m, now, A) BY <1>14, <2>2
  <2> QED BY <2>1, <2>3 DEF G
<1> HIDE DEF G
<1>17. \A n \in 0..l : n \in G BY <1>6, <1>15, <1>16, UpTo
<1>18. Walk(run[l], c, q, sum, Len(q), m, now, A)
  <2>1. l \in 0..l /\ l = Len(q) BY <1>6 DEF l
  <2> QED BY <1>17, <2>1 DEF G
<1> DEFINE u == [run[l].t EXCEPT !.waiting = run[l].kept \o run[l].t.waiting]
<1>19. /\ u \in Works(c) /\ Placed(u, {}, m) /\ A \subseteq AllOf(u, {})
       /\ Kept(u, 0, Len(run[l].kept), now, q) /\ Len(run[l].kept) \in Nat /\ Unanswered(u, 0, now)
  BY <1>1, <1>3, <1>18, WalkEnds
<1> QED BY <1>2, <1>19 DEF A, q
-----------------------------------------------------------------------------
(* What a handler that starts with t leaves. *)

Left(t, u, c, m, now) ==
  /\ CacheTyped(c) /\ u \in Works(c)
  /\ Placed(u, {}, m) /\ AllOf(t, {}) \subseteq AllOf(u, {})
  /\ \E n \in Nat : Kept(u, 0, n, now, t.waiting)
  /\ Unanswered(u, 0, now)

\* A handler has nothing new when it starts.
LEMMA NothingNew ==
  ASSUME NEW c, NEW t \in Works(c), Paid(t, 0), t.emitted = << >>, NEW now
  PROVE  Len(t.waiting) \in Nat /\ Kept(t, 0, Len(t.waiting), now, t.waiting)
<1> DEFINE l == Len(t.waiting)
<1>1. t.waiting \in Seq(Queued) BY DEF Works
<1>2. l \in Nat /\ l <= l /\ l + 1..l = {} /\ DOMAIN t.waiting = 1..l BY <1>1
<1>3. Unanswered(t, l, now) /\ NewAttempts(t, l, t.waiting) /\ Old(t, l, t.waiting)
  BY <1>2 DEF Unanswered, NewAttempts, Old
<1>4. Asked(t, l)
  <2>1. \A hop : AskedOf(t.emitted, hop) = {} BY DEF AskedOf
  <2>2. \A hop : NewFor(t.waiting, l, hop) = {} BY <1>2 DEF NewFor
  <2> QED BY <2>1, <2>2 DEF Asked
<1> QED BY <1>2, <1>3, <1>4 DEF Kept

\* What is sent besides requests is not asked.
LEMMA AlsoEmitted ==
  ASSUME NEW c, NEW t \in Works(c), NEW e \in Emission, e.kind # "request",
         NEW B, NEW n, NEW now, NEW q, Kept(t, B, n, now, q)
  PROVE  /\ [t EXCEPT !.emitted = Append(t.emitted, e)] \in Works(c)
         /\ [t EXCEPT !.emitted = Append(t.emitted, e)].waiting = t.waiting
         /\ [t EXCEPT !.emitted = Append(t.emitted, e)].sent = t.sent
         /\ [t EXCEPT !.emitted = Append(t.emitted, e)].lost = t.lost
         /\ [t EXCEPT !.emitted = Append(t.emitted, e)].cache = t.cache
         /\ Kept([t EXCEPT !.emitted = Append(t.emitted, e)], B, n, now, q)
<1> DEFINE em == Append(t.emitted, e)
           u == [t EXCEPT !.emitted = em]
           a == Len(t.emitted)
<1>1. t.emitted \in Seq(Emission) BY DEF Works
<1>2. /\ em \in Seq(Emission) /\ a \in Nat /\ DOMAIN t.emitted = 1..a /\ DOMAIN em = 1..a + 1 /\ em[a + 1] = e
      /\ \A k \in 1..a : em[k] = t.emitted[k]
  BY <1>1
<1> HIDE DEF em
<1>3. /\ u \in Works(c) /\ u.waiting = t.waiting /\ u.sent = t.sent /\ u.lost = t.lost /\ u.bytes = t.bytes
      /\ u.cache = t.cache /\ u.emitted = em
  BY <1>2 DEF Works
<1> HIDE DEF u, a
<1>4. \A hop : AskedOf(u.emitted, hop) = AskedOf(t.emitted, hop)
  <2>1. \A k \in 1..a + 1 : k \in 1..a \/ k = a + 1 BY <1>2
  <2>2. \A k \in 1..a : k \in 1..a + 1 BY <1>2
  <2> QED BY <1>2, <1>3, <2>1, <2>2 DEF AskedOf
<1>5. Kept(u, B, n, now, q)
  <2>1. Asked(u, n) BY <1>3, <1>4 DEF Kept, Asked
  <2> QED BY <1>3, <2>1 DEF Kept, Paid, Unanswered, NewAttempts, HasEntry, Old
<1> QED BY <1>3, <1>5 DEF u, em

\* Where the frames are depends on the queue, the sent and the lost alone.
LEMMA SamePlaced ==
  ASSUME NEW t, NEW u, u.waiting = t.waiting, u.sent = t.sent, u.lost = t.lost
  PROVE  /\ \A E : AllOf(u, E) = AllOf(t, E)
         /\ \A E, m : Placed(t, E, m) => Placed(u, E, m)
<1>1. SentIds(u) = SentIds(t) /\ LostIds(u) = LostIds(t) BY DEF SentIds, LostIds
<1>2. \A E : AllOf(u, E) = AllOf(t, E) BY <1>1 DEF AllOf
<1>3. \A E, m : Placed(t, E, m) => Placed(u, E, m) BY <1>1, <1>2 DEF Placed
<1> QED BY <1>2, <1>3

Arriving == [no : Nat, kind : {"data", "echo", "error"}, about : {"none"}, src : Address,
             dst : Address, ttl : Int, size : Nat]

Answers == {"echo-reply", "port-unreachable", "time-exceeded", "network-unreachable"}

\* A packet that arrives is answered or not, and then put somewhere or given up.
Answered(t, v, frame) ==
  v = t \/ (frame.kind # "error" /\ \E kind \in Answers : v = Answer(t, kind, frame))

\* A frame that arrives is answered or dealt with once.
LEMMA HandleFrameDeals ==
  ASSUME NEW c, CacheTyped(c), NEW t \in Works(c), NEW frame \in Arriving, NEW now \in Int
  PROVE  /\ frame \in Frame
         /\ \E v, f : /\ Answered(t, v, frame) /\ f \in Frame /\ Id(f) = Id(frame)
                      /\ f.no = frame.no /\ f.about = "none"
                      /\ Dealt(v, HandleFrame(t, frame, now), f, 0, now)
<1> DEFINE Goal(u) == \E v, f : /\ Answered(t, v, frame) /\ f \in Frame /\ Id(f) = Id(frame)
                                /\ f.no = frame.no /\ f.about = "none" /\ Dealt(v, u, f, 0, now)
           h == Hopped(frame)
           route == Route(frame.dst)
<1>1. frame \in Frame /\ frame.about = "none" BY DEF Arriving, Frame, AnyFrame, Place
<1>2. ASSUME NEW v, Answered(t, v, frame) PROVE Goal(Finalized(v, frame))
  <2>1. Dealt(v, Finalized(v, frame), frame, 0, now) BY DEF Dealt, Put
  <2> QED BY <1>1, <1>2, <2>1
<1>3. /\ h.kind = frame.kind /\ h.no = frame.no /\ h.about = frame.about /\ h.dst = frame.dst
      /\ h.src = frame.src /\ h.size = frame.size /\ h \in AnyFrame
  <2>1. (frame.ttl - 1) % 256 \in Int BY DEF Arriving
  <2>2. h = [frame EXCEPT !.ttl = (frame.ttl - 1) % 256] BY DEF Hopped
  <2> HIDE DEF h
  <2>3. h = [no |-> frame.no, kind |-> frame.kind, about |-> frame.about, src |-> frame.src,
             dst |-> frame.dst, ttl |-> (frame.ttl - 1) % 256, size |-> frame.size]
    BY <2>2 DEF Arriving
  <2> QED BY <2>1, <2>3 DEF Arriving, AnyFrame, Place
<1>4. h \in Frame /\ Id(h) = Id(frame) /\ h.about = "none" BY <1>1, <1>3 DEF Frame, Id
<1>5. Goal(SendFrame(t, h, route, now))
  <2> HIDE DEF h
  <2>1. Route(h.dst) = route BY <1>3
  <2>2. Dealt(t, SendFrame(t, h, route, now), h, 0, now) BY <1>4, <2>1, SendFrameDeals
  <2>3. Answered(t, t, frame) BY DEF Answered
  <2> QED BY <1>3, <1>4, <2>2, <2>3
<1>6. \A kind \in Answers : Goal(Unreachable(t, kind, frame))
  <2> SUFFICES ASSUME NEW kind \in Answers PROVE Goal(Unreachable(t, kind, frame)) OBVIOUS
  <2> DEFINE v == IF frame.kind # "error" THEN Answer(t, kind, frame) ELSE t
  <2>1. Answered(t, v, frame) BY DEF Answered
  <2>2. Unreachable(t, kind, frame) = Finalized(v, frame) BY DEF Unreachable
  <2> HIDE DEF v, Goal
  <2> QED BY <1>2, <2>1, <2>2
<1>7. Goal(Finalized(ToMe(t, frame), frame))
  <2>1. Answered(t, ToMe(t, frame), frame)
    <3>1. frame.kind \in {"data", "echo", "error"} BY DEF Arriving
    <3>2. CASE frame.kind = "echo" BY <3>2 DEF ToMe, Answered, Answers
    <3>3. CASE frame.kind = "data" BY <3>3 DEF ToMe, Answered, Answers
    <3>4. CASE frame.kind = "error" BY <3>4 DEF ToMe, Answered
    <3> QED BY <3>1, <3>2, <3>3, <3>4
  <2> HIDE DEF Goal
  <2> QED BY <1>2, <2>1
<1>8. Goal(Finalized(t, frame))
  <2>1. Answered(t, t, frame) BY DEF Answered
  <2> HIDE DEF Goal
  <2> QED BY <1>2, <2>1
<1> HIDE DEF Goal, h
<1>9. Goal(RoutePacket(t, frame, now))
  <2>1. \/ RoutePacket(t, frame, now) = Unreachable(t, "time-exceeded", frame)
        \/ RoutePacket(t, frame, now) = Unreachable(t, "network-unreachable", frame)
        \/ RoutePacket(t, frame, now) = Finalized(t, frame)
        \/ RoutePacket(t, frame, now) = SendFrame(t, h, route, now)
    BY DEF RoutePacket, h
  <2>2. "time-exceeded" \in Answers /\ "network-unreachable" \in Answers BY DEF Answers
  <2>3. Goal(Unreachable(t, "time-exceeded", frame)) /\ Goal(Unreachable(t, "network-unreachable", frame))
    BY <1>6, <2>2
  <2> QED BY <1>5, <1>8, <2>1, <2>3
<1>10. Goal(HandleFrame(t, frame, now)) BY <1>7, <1>9 DEF HandleFrame
<1> QED BY <1>1, <1>10 DEF Goal

\* An answer is not a request, and moves no frame.
LEMMA AnsweredKept ==
  ASSUME NEW c, NEW t \in Works(c), NEW frame \in Arriving, NEW B, NEW n, NEW now, NEW q,
         Kept(t, B, n, now, q), NEW v, Answered(t, v, frame)
  PROVE  /\ v \in Works(c) /\ v.waiting = t.waiting /\ v.sent = t.sent /\ v.lost = t.lost
         /\ v.cache = t.cache /\ Kept(v, B, n, now, q)
<1>1. CASE v = t BY <1>1
<1>2. ASSUME frame.kind # "error", NEW kind \in Answers, v = Answer(t, kind, frame)
      PROVE  /\ v \in Works(c) /\ v.waiting = t.waiting /\ v.sent = t.sent /\ v.lost = t.lost
             /\ v.cache = t.cache /\ Kept(v, B, n, now, q)
  <2> DEFINE e == [kind |-> kind, to |-> frame.src, about |-> frame.kind]
  <2>1. frame.kind \in {"data", "echo"} /\ frame.src \in Place BY <1>2 DEF Arriving, Place
  <2>2. e \in Emission BY <2>1 DEF Emission, Answers, Askers
  <2>3. e.kind # "request" BY DEF Answers
  <2>4. v = [t EXCEPT !.emitted = Append(t.emitted, e)] BY <1>2 DEF Answer
  <2> HIDE DEF e
  <2> QED BY <2>2, <2>3, <2>4, AlsoEmitted
<1> QED BY <1>1, <1>2 DEF Answered

\* Handling a packet leaves the router's account in order, with that packet in it.
LEMMA PacketLeft ==
  ASSUME NEW c, CacheTyped(c), NEW t \in Works(c), NEW m \in Nat, NEW now \in Int,
         Placed(t, {}, m), Paid(t, 0), t.emitted = << >>, Unanswered(t, 0, now),
         NEW frame \in Arriving, frame.no = m
  PROVE  /\ Left(t, HandleFrame(t, frame, now), c, m + 1, now)
         /\ Id(frame) \in AllOf(HandleFrame(t, frame, now), {})
<1> DEFINE q == t.waiting
           n == Len(q)
           u == HandleFrame(t, frame, now)
<1>1. n \in Nat /\ Kept(t, 0, n, now, q) BY NothingNew
<1>2. PICK v, f : /\ Answered(t, v, frame) /\ f \in Frame /\ Id(f) = Id(frame)
                  /\ f.no = frame.no /\ f.about = "none" /\ Dealt(v, u, f, 0, now)
  BY HandleFrameDeals
<1>3. q \in Seq(Queued) /\ DOMAIN q = 1..n BY DEF Works
<1> HIDE DEF u, n
<1>4. /\ v \in Works(c) /\ v.waiting = q /\ v.sent = t.sent /\ v.lost = t.lost /\ v.cache = t.cache
      /\ Kept(v, 0, n, now, q)
  BY <1>1, <1>2, AnsweredKept
<1>5. AllOf(v, {}) = AllOf(t, {}) /\ Placed(v, {}, m) BY <1>4, SamePlaced
<1>6. m + 1 \in Nat /\ m < m + 1 OBVIOUS
<1>7. \A y \in AllOf(v, {}) : y.no \in Nat /\ y.no < m
  <2>1. \A y \in AllOf(v, {}) : y.no < m BY <1>5 DEF Placed
  <2>2. \A x \in Frame : Id(x).no \in Nat BY IdTyped
  <2>3. \A x \in IdsIn(v.waiting) : x.no \in Nat
    <3>1. \A j \in DOMAIN q : q[j].frame \in Frame
      <4>1. \A j \in DOMAIN q : q[j] \in Queued BY <1>3, ElementsOfSeq
      <4> QED BY <4>1 DEF Queued
    <3> QED BY <1>4, <2>2, <3>1 DEF IdsIn
  <2>4. \A x \in SentIds(v) : x.no \in Nat BY <1>4, <2>2 DEF SentIds, Works, Sending
  <2>5. \A x \in LostIds(v) : x.no \in Nat BY <1>4, <2>2 DEF LostIds, Works
  <2> QED BY <2>1, <2>3, <2>4, <2>5 DEF AllOf
<1>8. \A y \in AllOf(v, {}) : y.no < m + 1 /\ y.no # m BY <1>7
<1>9. Placed(v, {}, m + 1) BY <1>5, <1>8 DEF Placed
<1>10. Id(f).no = m /\ f.no = m /\ f.no < m + 1 BY <1>2, IdTyped
<1>11. Free(f, v, {}) BY <1>8, <1>10 DEF Free
<1>12. u \in Works(c) BY <1>2, <1>4, DealtTyped
<1>13. Placed(u, {}, m + 1) /\ AllOf(v, {}) \cup {Id(f)} \subseteq AllOf(u, {})
  BY <1>2, <1>4, <1>6, <1>9, <1>10, <1>11, DealtPlaced
<1>14. \A j \in DOMAIN q : Id(q[j].frame).no # m
  <2>1. \A j \in DOMAIN q : Id(q[j].frame) \in AllOf(v, {}) BY <1>4 DEF AllOf, IdsIn
  <2> QED BY <1>8, <2>1
<1>15. Kept(u, 0, n, now, q)
  <2>1. \A j \in DOMAIN q : Id(q[j].frame) = Id(f) => q[j].attempts # 0 BY <1>10, <1>14
  <2>2. \A j \in DOMAIN q : Id(q[j].frame).no = f.no => Id(q[j].frame).about = "none" BY <1>10, <1>14
  <2>3. 0 \in Int OBVIOUS
  <2> HIDE DEF q
  <2> QED BY <1>1, <1>2, <1>4, <2>1, <2>2, <2>3, DealtKept
<1>16. Unanswered(u, 0, now)
  <2>1. \A hop : HasEntry(u, hop, now) <=> HasEntry(t, hop, now) BY <1>12 DEF HasEntry, Works
  <2>2. \A j \in 1..n : ~HasEntry(t, q[j].hop, now)
    <3>1. \A j \in 0 + 1..Len(q) : ~HasEntry(t, q[j].hop, now) BY DEF Unanswered
    <3>2. 0 + 1 = 1 OBVIOUS
    <3> QED BY <3>1, <3>2 DEF n
  <2>3. \A k \in 1..n : ~HasEntry(u, u.waiting[k].hop, now)
    <3>1. Old(u, n, q) BY <1>15 DEF Kept
    <3> QED BY <1>3, <2>1, <2>2, <3>1 DEF Old
  <2>4. \A k \in n + 1..Len(u.waiting) : ~HasEntry(u, u.waiting[k].hop, now) BY <1>15 DEF Kept, Unanswered
  <2>5. Len(u.waiting) \in Nat
    <3>1. u.waiting \in Seq(Queued) BY <1>12 DEF Works
    <3> QED BY <3>1
  <2>6. \A k \in 0 + 1..Len(u.waiting) : k \in 1..n \/ k \in n + 1..Len(u.waiting) BY <1>1, <2>5
  <2> QED BY <2>3, <2>4, <2>6 DEF Unanswered
<1>17. Left(t, u, c, m + 1, now) BY <1>1, <1>5, <1>12, <1>13, <1>15, <1>16 DEF Left
<1>18. Id(frame) \in AllOf(u, {}) BY <1>2, <1>13
<1> QED BY <1>17, <1>18 DEF u

\* Learning an address makes its hop known, no other unknown, and moves no frame.
LEMMA LearntTyped ==
  ASSUME NEW c, CacheTyped(c), NEW t \in Works(c), NEW ip, NEW mac \in Macs, NEW now \in Int
  PROVE  /\ \E d : CacheTyped(d) /\ Learnt(t, ip, mac, now) \in Works(d)
         /\ Learnt(t, ip, mac, now).waiting = t.waiting /\ Learnt(t, ip, mac, now).bytes = t.bytes
         /\ Learnt(t, ip, mac, now).sent = t.sent /\ Learnt(t, ip, mac, now).lost = t.lost
         /\ Learnt(t, ip, mac, now).emitted = t.emitted
         /\ \A hop : hop # ip => (HasEntry(Learnt(t, ip, mac, now), hop, now) => HasEntry(t, hop, now))
<1> DEFINE d == [a \in DOMAIN t.cache \cup {ip} |-> IF a = ip THEN [mac |-> mac, at |-> now] ELSE t.cache[a]]
           u == Learnt(t, ip, mac, now)
<1>1. t.cache = c BY DEF Works
<1>2. CacheTyped(d) BY <1>1 DEF CacheTyped
<1>3. u = [t EXCEPT !.cache = d] BY DEF Learnt
<1>4. \A hop \in DOMAIN d : hop # ip => hop \in DOMAIN t.cache /\ d[hop] = t.cache[hop] OBVIOUS
<1> HIDE DEF d, u
<1>5. /\ u \in Works(d) /\ u.cache = d /\ u.waiting = t.waiting /\ u.bytes = t.bytes
      /\ u.sent = t.sent /\ u.lost = t.lost /\ u.emitted = t.emitted
  BY <1>3 DEF Works
<1>6. \A hop : hop # ip => (HasEntry(u, hop, now) => HasEntry(t, hop, now)) BY <1>4, <1>5 DEF HasEntry
<1> QED BY <1>2, <1>5, <1>6 DEF u

\* Learning an address and checking the queue leaves the router's account in order.
LEMMA UpdateCacheLeft ==
  ASSUME NEW c, CacheTyped(c), NEW t \in Works(c), NEW m \in Nat, NEW now \in Int,
         Placed(t, {}, m), Paid(t, 0), t.emitted = << >>, NEW ip, NEW mac \in Macs
  PROVE  \E d : Left(t, UpdateCache(t, ip, mac, now), d, m, now)
<1> DEFINE v == Learnt(t, ip, mac, now)
<1>1. PICK d : CacheTyped(d) /\ v \in Works(d) BY LearntTyped
<1>2. v.waiting = t.waiting /\ v.bytes = t.bytes /\ v.sent = t.sent /\ v.lost = t.lost /\ v.emitted = t.emitted
  BY LearntTyped
<1> HIDE DEF v
<1>3. AllOf(v, {}) = AllOf(t, {}) /\ Placed(v, {}, m) /\ Paid(v, 0) BY <1>2, SamePlaced DEF Paid
<1> DEFINE u == CheckQueue(v, now)
<1>4. /\ u \in Works(d) /\ Placed(u, {}, m) /\ AllOf(v, {}) \subseteq AllOf(u, {})
      /\ \E n \in Nat : Kept(u, 0, n, now, v.waiting)
      /\ Unanswered(u, 0, now)
  BY <1>1, <1>2, <1>3, QueueChecking
<1> HIDE DEF u
<1>5. Left(t, u, d, m, now) BY <1>1, <1>2, <1>3, <1>4 DEF Left
<1> QED BY <1>5 DEF UpdateCache, u, v

\* Checking the queue leaves the router's account in order.
LEMMA CheckLeft ==
  ASSUME NEW c, CacheTyped(c), NEW t \in Works(c), NEW m \in Nat, NEW now \in Int,
         Placed(t, {}, m), Paid(t, 0), t.emitted = << >>
  PROVE  Left(t, CheckQueue(t, now), c, m, now)
BY QueueChecking DEF Left

\* Renewing an address that is recorded leaves the router's account in order.
LEMMA IfRecordedLeft ==
  ASSUME NEW c, CacheTyped(c), NEW t \in Works(c), NEW m \in Nat, NEW now \in Int,
         Placed(t, {}, m), Paid(t, 0), t.emitted = << >>, Unanswered(t, 0, now), NEW ip, NEW mac \in Macs
  PROVE  \E d : Left(t, UpdateCacheIfRecorded(t, ip, mac, now), d, m, now)
<1>0. Len(t.waiting) \in Nat /\ Kept(t, 0, Len(t.waiting), now, t.waiting) BY NothingNew
<1>1. CASE ~HasEntry(t, ip, now)
  <2>1. Left(t, t, c, m, now) BY <1>0 DEF Left
  <2> QED BY <1>1, <2>1 DEF UpdateCacheIfRecorded
<1>2. CASE HasEntry(t, ip, now)
  <2> DEFINE u == Learnt(t, ip, mac, now)
  <2>1. PICK d : CacheTyped(d) /\ u \in Works(d) BY LearntTyped
  <2>2. /\ u.waiting = t.waiting /\ u.bytes = t.bytes /\ u.sent = t.sent /\ u.lost = t.lost
        /\ u.emitted = t.emitted
        /\ \A hop : hop # ip => (HasEntry(u, hop, now) => HasEntry(t, hop, now))
    BY LearntTyped
  <2>3. u = UpdateCacheIfRecorded(t, ip, mac, now) BY <1>2 DEF UpdateCacheIfRecorded
  <2> HIDE DEF u
  <2>4. AllOf(u, {}) = AllOf(t, {}) /\ Placed(u, {}, m) /\ Paid(u, 0) BY <2>2, SamePlaced DEF Paid
  <2>5. Unanswered(u, 0, now) BY <1>2, <2>2 DEF Unanswered
  <2>6. Kept(u, 0, Len(t.waiting), now, t.waiting)
    <3>1. Kept(u, 0, Len(u.waiting), now, u.waiting) BY <2>1, <2>2, <2>4, NothingNew
    <3> QED BY <2>2, <3>1
  <2>7. Left(t, u, d, m, now) BY <1>0, <2>1, <2>4, <2>5, <2>6 DEF Left
  <2> QED BY <2>3, <2>7
<1> QED BY <1>1, <1>2

\* Handling an ARP packet leaves the router's account in order.
LEMMA ArpLeft ==
  ASSUME NEW c, CacheTyped(c), NEW t \in Works(c), NEW m \in Nat, NEW now \in Int,
         Placed(t, {}, m), Paid(t, 0), t.emitted = << >>, Unanswered(t, 0, now),
         NEW arp \in ArpPackets, NEW ifIndex
  PROVE  \E d : Left(t, ReceiveArp(t, arp, ifIndex, now), d, m, now)
<1> DEFINE v == UpdateCache(t, arp.ip, arp.mac, now)
           e == [kind |-> "reply", to |-> arp.ip]
<1>1. arp.mac \in Macs /\ arp.ip \in Askers BY DEF Macs, Askers
<1>2. PICK d : Left(t, v, d, m, now) BY <1>1, UpdateCacheLeft
<1>3. Left(t, [v EXCEPT !.emitted = Append(v.emitted, e)], d, m, now)
  <2> DEFINE u == [v EXCEPT !.emitted = Append(v.emitted, e)]
  <2>1. e \in Emission /\ e.kind # "request" BY <1>1 DEF Emission
  <2>2. v \in Works(d) BY <1>2 DEF Left
  <2>3. PICK n \in Nat : Kept(v, 0, n, now, t.waiting) BY <1>2 DEF Left
  <2> HIDE DEF e, v
  <2>4. /\ u \in Works(d) /\ u.waiting = v.waiting /\ u.sent = v.sent /\ u.lost = v.lost
        /\ u.cache = v.cache /\ Kept(u, 0, n, now, t.waiting)
    BY <2>1, <2>2, <2>3, AlsoEmitted
  <2> HIDE DEF u
  <2>5. AllOf(u, {}) = AllOf(v, {}) /\ Placed(u, {}, m) BY <1>2, <2>4, SamePlaced DEF Left
  <2>6. Unanswered(u, 0, now) BY <1>2, <2>4 DEF Left, Unanswered, HasEntry
  <2>7. Left(t, u, d, m, now) BY <1>2, <2>3, <2>4, <2>5, <2>6 DEF Left
  <2> QED BY <2>7 DEF u
<1>4. \E b : Left(t, UpdateCacheIfRecorded(t, arp.ip, arp.mac, now), b, m, now) BY <1>1, IfRecordedLeft
<1>5. \/ ReceiveArp(t, arp, ifIndex, now) = v
      \/ ReceiveArp(t, arp, ifIndex, now) = [v EXCEPT !.emitted = Append(v.emitted, e)]
      \/ ReceiveArp(t, arp, ifIndex, now) = UpdateCacheIfRecorded(t, arp.ip, arp.mac, now)
  BY DEF ReceiveArp
<1> QED BY <1>2, <1>3, <1>4, <1>5
-----------------------------------------------------------------------------
(* The invariant of a router. *)

RouterTyped ==
  /\ CacheTyped(cache) /\ waiting \in Seq(Queued) /\ bytes \in Int
  /\ sent \in SUBSET Sending /\ lost \in SUBSET Frame /\ emitted \in Seq(Emission)

RouterInv ==
  /\ SchedulerInv({"arp"}) /\ RouterTyped
  /\ IsFiniteSet(arrived) /\ Ids(arrived) \subseteq AllOf(Work, {})
  /\ Placed(Work, {}, Cardinality(arrived)) /\ Paid(Work, 0)
  /\ Unanswered(Work, 0, CurrentMs)

\* Each handler starts from the router's state, with nothing emitted yet.
LEMMA WorkTyped ==
  ASSUME RouterTyped
  PROVE  Work \in Works(cache) /\ Work.waiting = waiting /\ Work.emitted = << >>
<1>1. << >> \in Seq(Emission) /\ << >> \in RequestsOf({"arp"}) BY DEF RequestsOf
<1> QED BY <1>1 DEF RouterTyped, Work, Works

\* Entries only grow older.
LEMMA EntriesAge ==
  ASSUME NEW c, CacheTyped(c), NEW t, t.cache = c, NEW hop, NEW now \in Int, NEW later \in Int,
         now <= later, HasEntry(t, hop, later)
  PROVE  HasEntry(t, hop, now)
<1>1. hop \in DOMAIN c /\ later - c[hop].at <= LifeTime BY DEF HasEntry
<1>2. c[hop].at \in Int BY <1>1 DEF CacheTyped
<1>3. now - c[hop].at <= LifeTime
  <2> DEFINE at == c[hop].at
  <2>1. at \in Int /\ later - at <= LifeTime BY <1>1, <1>2
  <2> HIDE DEF at
  <2>2. now - at <= LifeTime BY <2>1, ArpAssumption
  <2> QED BY <2>2 DEF at
<1> QED BY <1>1, <1>3 DEF HasEntry

\* As time goes on, entries of the cache expire: no hop becomes known by waiting.
LEMMA StillUnanswered ==
  ASSUME NEW c, CacheTyped(c), NEW t \in Works(c), NEW n, NEW now \in Int, NEW later \in Int,
         now <= later, Unanswered(t, n, now)
  PROVE  Unanswered(t, n, later)
<1>1. t.cache = c BY DEF Works
<1> QED BY <1>1, EntriesAge DEF Unanswered

\* The state that a handler leaves.
LEMMA DoneKeeps ==
  ASSUME NEW c, NEW t, NEW u, NEW m \in Nat, NEW now, Left(t, u, c, m, now), Done(u)
  PROVE  /\ RouterTyped' /\ AllOf(Work', {}) = AllOf(u, {}) /\ Placed(Work', {}, m)
         /\ Paid(Work', 0) /\ Unanswered(Work', 0, now)
<1>1. u \in Works(c) /\ CacheTyped(c) BY DEF Left
<1>2. /\ u.cache = c /\ u.waiting \in Seq(Queued) /\ u.bytes \in Int /\ u.sent \in SUBSET Sending
      /\ u.lost \in SUBSET Frame /\ u.emitted \in Seq(Emission)
  BY <1>1 DEF Works
<1>3. RouterTyped' BY <1>1, <1>2 DEF RouterTyped, Done
<1>4. /\ Work'.cache = u.cache /\ Work'.waiting = u.waiting /\ Work'.bytes = u.bytes
      /\ Work'.sent = u.sent /\ Work'.lost = u.lost
  BY DEF Work, Done
<1>5. AllOf(Work', {}) = AllOf(u, {}) BY <1>4, SamePlaced
<1>6. Placed(Work', {}, m) BY <1>4, SamePlaced DEF Left
<1>7. Unanswered(Work', 0, now) BY <1>4 DEF Left, Unanswered, HasEntry
<1>8. Paid(Work', 0)
  <2>1. PICK n \in Nat : Kept(u, 0, n, now, t.waiting) BY DEF Left
  <2> QED BY <1>4, <2>1 DEF Kept, Paid
<1> QED BY <1>3, <1>5, <1>6, <1>7, <1>8

\* The time that a handler reads is the clock, late by its lag, in milli-seconds.
LEMMA NowTyped ==
  ASSUME NEW from \in Nat, NEW lag \in Nat
  PROVE  from + lag \in Nat /\ Now(from, lag) \in Int /\ Now(from, lag) = (from + lag) \div TicksPerMs
<1>1. from + lag \in Nat OBVIOUS
<1>2. (from + lag) \div TicksPerMs \in Nat BY <1>1, MsBounds
<1> QED BY <1>1, <1>2 DEF Now

\* A packet is numbered by those that arrived before it.
LEMMA PacketTyped ==
  ASSUME RouterInv, NEW p \in Packets
  PROVE  /\ Cardinality(arrived) \in Nat
         /\ [no |-> Cardinality(arrived), kind |-> p.kind, about |-> "none",
             src |-> p.src, dst |-> p.dst, ttl |-> p.ttl, size |-> p.size] \in Arriving
<1>1. Cardinality(arrived) \in Nat BY FS_CardinalityType DEF RouterInv
<1>2. p \in [kind : {"data", "echo", "error"}, src : Address, dst : Address, ttl : 0..255, size : Nat]
  BY PacketsAssumption
<1> QED BY <1>1, <1>2 DEF Arriving

\* The router starts within its invariant.
LEMMA InitKeeps == Init => RouterInv
<1> SUFFICES ASSUME Init PROVE RouterInv OBVIOUS
<1>1. SchedulerInv({"arp"}) BY SchedulerStarts DEF Init
<1>2. /\ cache = [a \in {} |-> {}] /\ waiting = << >> /\ bytes = 0 /\ sent = {} /\ lost = {}
      /\ emitted = << >> /\ arrived = {}
  BY DEF Init, ArpInit
<1>3. RouterTyped BY <1>2 DEF RouterTyped, CacheTyped
<1>4. Work.waiting = << >> /\ Work.bytes = 0 /\ Work.sent = {} /\ Work.lost = {} BY <1>2 DEF Work
<1>5. DOMAIN << >> = {} /\ Len(<< >>) = 0 /\ << >> \in Seq(Queued) OBVIOUS
<1>6. IdsIn(Work.waiting) = {} /\ SentIds(Work) = {} /\ LostIds(Work) = {} /\ OnceIn(Work.waiting)
  BY <1>4, <1>5 DEF IdsIn, SentIds, LostIds, OnceIn
<1>7. AllOf(Work, {}) = {} BY <1>6 DEF AllOf
<1>8. Placed(Work, {}, Cardinality(arrived))
  <2>1. Apart({}, {}, {}, {}) BY DEF Apart
  <2> QED BY <1>6, <1>7, <2>1 DEF Placed
<1>9. Paid(Work, 0)
  <2>1. PICK a : Sums(<< >>, a) /\ BytesOf(<< >>) = a[Len(<< >>)] BY <1>5, SumsExist
  <2>2. BytesOf(<< >>) = 0 BY <1>5, <2>1 DEF Sums
  <2> QED BY <1>4, <2>2 DEF Paid
<1>10. Unanswered(Work, 0, CurrentMs) BY <1>4, <1>5 DEF Unanswered
<1>11. IsFiniteSet(arrived) /\ Ids(arrived) = {} BY <1>2, FS_EmptySet DEF Ids
<1> QED BY <1>1, <1>3, <1>7, <1>8, <1>9, <1>10, <1>11 DEF RouterInv

\* A handler works on the state, with what an invariant says of it.
LEMMA WorkStarts ==
  ASSUME RouterInv
  PROVE  /\ Work \in Works(cache) /\ CacheTyped(cache) /\ Work.waiting = waiting
         /\ Work.emitted = << >> /\ Placed(Work, {}, Cardinality(arrived)) /\ Paid(Work, 0)
         /\ Cardinality(arrived) \in Nat /\ Ids(arrived) \subseteq AllOf(Work, {})
         /\ Unanswered(Work, 0, CurrentMs) /\ clock \in Nat /\ CurrentMs \in Int
<1>1. RouterTyped /\ clock \in Nat BY DEF RouterInv, SchedulerInv
<1>2. CurrentMs \in Nat BY <1>1, MsBounds DEF CurrentMs
<1>3. Cardinality(arrived) \in Nat BY FS_CardinalityType DEF RouterInv
<1> QED BY <1>1, <1>2, <1>3, WorkTyped DEF RouterInv, RouterTyped

\* Lags are numbers.
LEMMA LagTyped == ASSUME RouterInv, NEW lag \in Lags PROVE lag \in Nat
BY LagsAreNumbers DEF RouterInv, SchedulerInv

\* What has no entry now has none lag ticks later.
LEMMA UnansweredLater ==
  ASSUME RouterInv, NEW lag \in Nat
  PROVE  /\ Unanswered(Work, 0, Now(clock, lag)) /\ Now(clock, lag) \in Int
         /\ clock + lag \in Nat /\ Now(clock, lag) = (clock + lag) \div TicksPerMs
<1>1. clock \in Nat /\ CurrentMs \in Int /\ Unanswered(Work, 0, CurrentMs)
      /\ Work \in Works(cache) /\ CacheTyped(cache)
  BY WorkStarts
<1>2. /\ clock + lag \in Nat /\ Now(clock, lag) \in Int
      /\ Now(clock, lag) = (clock + lag) \div TicksPerMs
  BY <1>1, NowTyped
<1>3. clock <= clock + lag BY <1>1
<1>4. clock \div TicksPerMs <= (clock + lag) \div TicksPerMs BY <1>1, <1>2, <1>3, MsGrow
<1>5. CurrentMs <= Now(clock, lag) BY <1>2, <1>4 DEF CurrentMs
<1> QED BY <1>1, <1>2, <1>5, StillUnanswered

\* Receiving a packet keeps the router's invariant.
LEMMA PacketStep ==
  ASSUME RouterInv, NEW p \in Packets, NEW lag \in Lags,
         LET frame == [no |-> Cardinality(arrived), kind |-> p.kind, about |-> "none",
                       src |-> p.src, dst |-> p.dst, ttl |-> p.ttl, size |-> p.size]
             t == HandleFrame(Work, frame, Now(clock, lag))
         IN  Done(t) /\ Register(lag, t.requests) /\ arrived' = arrived \cup {frame}
  PROVE  RouterInv' /\ \E u, c, m, now : Left(Work, u, c, m, now) /\ Done(u)
<1> DEFINE m == Cardinality(arrived)
           frame == [no |-> m, kind |-> p.kind, about |-> "none",
                     src |-> p.src, dst |-> p.dst, ttl |-> p.ttl, size |-> p.size]
           now == Now(clock, lag)
           u == HandleFrame(Work, frame, now)
<1>1. m \in Nat /\ frame \in Arriving BY PacketTyped
<1>2. frame.no = m OBVIOUS
<1>3. lag \in Nat BY LagTyped
<1>4. Unanswered(Work, 0, now) /\ now \in Int /\ clock + lag \in Nat /\ now = (clock + lag) \div TicksPerMs
  BY <1>3, UnansweredLater
<1>5. Done(u) /\ Register(lag, u.requests) /\ arrived' = arrived \cup {frame} OBVIOUS
<1> HIDE DEF m, frame, now, u
<1>6. Left(Work, u, cache, m + 1, now) /\ Id(frame) \in AllOf(u, {})
  <2>1. /\ Work \in Works(cache) /\ CacheTyped(cache) /\ Work.emitted = << >> /\ Placed(Work, {}, m)
        /\ Paid(Work, 0)
    BY WorkStarts DEF m
  <2> QED BY <1>1, <1>2, <1>4, <2>1, PacketLeft DEF u
<1>7. u \in Works(cache) BY <1>6 DEF Left
<1>8. u.requests \in RequestsOf({"arp"}) BY <1>7 DEF Works
<1>9. SchedulerInv({"arp"})' BY <1>3, <1>5, <1>8, RegisterKeeps DEF RouterInv
<1>10. m + 1 \in Nat BY <1>1
<1>11. /\ RouterTyped' /\ AllOf(Work', {}) = AllOf(u, {}) /\ Placed(Work', {}, m + 1)
       /\ Paid(Work', 0) /\ Unanswered(Work', 0, now)
  BY <1>5, <1>6, <1>10, DoneKeeps
<1>12. Ids(arrived) \subseteq AllOf(Work, {}) /\ Placed(Work, {}, m) /\ IsFiniteSet(arrived)
  BY WorkStarts DEF RouterInv, m
<1>13. frame \notin arrived
  <2>1. SUFFICES ASSUME frame \in arrived PROVE FALSE OBVIOUS
  <2>2. Id(frame) \in AllOf(Work, {}) BY <1>12, <2>1 DEF Ids
  <2>3. Id(frame).no < m BY <1>12, <2>2 DEF Placed
  <2>4. Id(frame).no = m BY <1>2 DEF Id
  <2> QED BY <1>1, <2>3, <2>4
<1>14. IsFiniteSet(arrived') /\ Cardinality(arrived') = m + 1
  BY <1>5, <1>12, <1>13, FS_AddElement DEF m
<1>15. Ids(arrived)' \subseteq AllOf(Work', {})
  <2>1. AllOf(Work, {}) \subseteq AllOf(u, {}) BY <1>6 DEF Left
  <2>2. Ids(arrived') = Ids(arrived) \cup {Id(frame)} BY <1>5 DEF Ids
  <2> QED BY <1>6, <1>11, <1>12, <2>1, <2>2
<1>16. CurrentMs' = now BY <1>4, <1>5 DEF CurrentMs, Register
<1>17. RouterInv' BY <1>9, <1>11, <1>14, <1>15, <1>16 DEF RouterInv
<1> QED BY <1>5, <1>6, <1>17

\* A handler after which no packet has arrived.
LEMMA HandlerStep ==
  ASSUME RouterInv, NEW u, NEW c, NEW now, Left(Work, u, c, Cardinality(arrived), now), Done(u),
         UNCHANGED arrived, SchedulerInv({"arp"})', CurrentMs' = now
  PROVE  RouterInv'
<1> DEFINE m == Cardinality(arrived)
<1>1. m \in Nat BY WorkStarts
<1>2. /\ RouterTyped' /\ AllOf(Work', {}) = AllOf(u, {}) /\ Placed(Work', {}, m)
      /\ Paid(Work', 0) /\ Unanswered(Work', 0, now)
  BY <1>1, DoneKeeps
<1>3. Ids(arrived) \subseteq AllOf(Work, {}) /\ AllOf(Work, {}) \subseteq AllOf(u, {}) /\ IsFiniteSet(arrived)
  BY WorkStarts DEF Left, RouterInv
<1>4. Ids(arrived)' \subseteq AllOf(Work', {}) BY <1>2, <1>3 DEF Ids
<1> QED BY <1>2, <1>3, <1>4 DEF RouterInv

\* Receiving an ARP packet keeps the router's invariant.
LEMMA ArpStep ==
  ASSUME RouterInv, NEW arp \in ArpPackets, NEW ifIndex, NEW lag \in Lags, UNCHANGED arrived,
         LET t == ReceiveArp(Work, arp, ifIndex, Now(clock, lag))
         IN  Done(t) /\ Register(lag, t.requests)
  PROVE  RouterInv' /\ \E u, c, m, now : Left(Work, u, c, m, now) /\ Done(u)
<1> DEFINE m == Cardinality(arrived)
           now == Now(clock, lag)
           u == ReceiveArp(Work, arp, ifIndex, now)
<1>1. lag \in Nat BY LagTyped
<1>2. Unanswered(Work, 0, now) /\ now \in Int /\ clock + lag \in Nat /\ now = (clock + lag) \div TicksPerMs
  BY <1>1, UnansweredLater
<1>3. Done(u) /\ Register(lag, u.requests) OBVIOUS
<1> HIDE DEF now, u
<1>4. PICK d : Left(Work, u, d, m, now)
  <2>1. /\ Work \in Works(cache) /\ CacheTyped(cache) /\ Work.emitted = << >> /\ Placed(Work, {}, m)
        /\ Paid(Work, 0) /\ m \in Nat
    BY WorkStarts
  <2> HIDE DEF m
  <2> QED BY <1>2, <2>1, ArpLeft DEF u
<1>5. u.requests \in RequestsOf({"arp"}) BY <1>4 DEF Left, Works
<1>6. SchedulerInv({"arp"})' BY <1>1, <1>3, <1>5, RegisterKeeps DEF RouterInv
<1>7. CurrentMs' = now BY <1>2, <1>3 DEF CurrentMs, Register
<1>8. RouterInv' BY <1>3, <1>4, <1>6, <1>7, HandlerStep
<1> QED BY <1>3, <1>4, <1>8

\* The timer that checks the queue keeps the router's invariant.
LEMMA CheckStep ==
  ASSUME RouterInv, NEW lag \in Lags, UNCHANGED arrived,
         LET t == CheckQueue(Work, Now(HandlerClock, lag))
         IN  ProcessNext(lag, t.requests) /\ Done(t)
  PROVE  RouterInv' /\ \E u, c, m, now : Left(Work, u, c, m, now) /\ Done(u)
<1> DEFINE m == Cardinality(arrived)
           now == Now(HandlerClock, lag)
           u == CheckQueue(Work, now)
<1>1. lag \in Nat BY LagTyped
<1>2. ProcessNext(lag, u.requests) /\ Done(u) OBVIOUS
<1>3. HandlerClock \in Nat BY <1>2, NotEarly DEF ProcessNext, RouterInv
<1>4. now \in Int /\ HandlerClock + lag \in Nat /\ now = (HandlerClock + lag) \div TicksPerMs
  BY <1>1, <1>3, NowTyped
<1> HIDE DEF now, u
<1>5. Left(Work, u, cache, m, now)
  <2>1. /\ Work \in Works(cache) /\ CacheTyped(cache) /\ Work.emitted = << >> /\ Placed(Work, {}, m)
        /\ Paid(Work, 0) /\ m \in Nat
    BY WorkStarts
  <2> HIDE DEF m
  <2> QED BY <1>4, <2>1, CheckLeft DEF u
<1>6. u.requests \in RequestsOf({"arp"}) BY <1>5 DEF Left, Works
<1>7. SchedulerInv({"arp"})' BY <1>1, <1>2, <1>6, ProcessNextKeeps DEF RouterInv
<1>8. CurrentMs' = now BY <1>2, <1>4 DEF CurrentMs, ProcessNext
<1>9. RouterInv' BY <1>2, <1>5, <1>7, <1>8, HandlerStep
<1> QED BY <1>2, <1>5, <1>9

\* While only the clock moves, nothing is learnt.
LEMMA IdleStep ==
  ASSUME RouterInv, UNCHANGED <<arpVars, arrived>>, SchedulerInv({"arp"})', clock <= clock'
  PROVE  RouterInv'
<1>1. clock \in Nat /\ clock' \in Nat BY DEF RouterInv, SchedulerInv
<1>2. CurrentMs \in Int /\ CurrentMs' \in Int
  <2>1. CurrentMs \in Nat BY <1>1, MsBounds DEF CurrentMs
  <2>2. clock' \div TicksPerMs \in Nat BY <1>1, MsBounds
  <2> QED BY <2>1, <2>2 DEF CurrentMs
<1>3. CurrentMs <= CurrentMs'
  <2>1. clock \div TicksPerMs <= clock' \div TicksPerMs BY <1>1, MsGrow
  <2> QED BY <2>1 DEF CurrentMs
<1>4. Work' = Work BY DEF Work, arpVars
<1>5. Work \in Works(cache) /\ CacheTyped(cache) /\ Unanswered(Work, 0, CurrentMs) BY WorkStarts
<1>6. Unanswered(Work, 0, CurrentMs') BY <1>2, <1>3, <1>5, StillUnanswered
<1>7. RouterTyped' BY DEF RouterTyped, RouterInv, arpVars
<1>8. /\ IsFiniteSet(arrived)' /\ Ids(arrived)' \subseteq AllOf(Work', {})
      /\ Placed(Work', {}, Cardinality(arrived')) /\ Paid(Work', 0)
  BY <1>4 DEF RouterInv, Ids
<1> QED BY <1>4, <1>6, <1>7, <1>8 DEF RouterInv

\* Every step keeps the router's invariant.
LEMMA NextKeeps == RouterInv /\ [Next]_vars => RouterInv'
<1> SUFFICES ASSUME RouterInv, [Next]_vars PROVE RouterInv' OBVIOUS
<1>1. CASE PacketArrives
  <2>1. PICK p \in Packets, lag \in Lags :
          LET frame == [no |-> Cardinality(arrived), kind |-> p.kind, about |-> "none",
                        src |-> p.src, dst |-> p.dst, ttl |-> p.ttl, size |-> p.size]
              t == HandleFrame(Work, frame, Now(clock, lag))
          IN  Done(t) /\ Register(lag, t.requests) /\ arrived' = arrived \cup {frame}
    BY <1>1 DEF PacketArrives
  <2> QED BY <2>1, PacketStep
<1>2. CASE ArpArrives
  <2>1. PICK arp \in ArpPackets, k \in DOMAIN Interfaces, lag \in Lags :
          LET t == ReceiveArp(Work, arp, k - 1, Now(clock, lag))
          IN  Done(t) /\ Register(lag, t.requests)
    BY <1>2 DEF ArpArrives
  <2> QED BY <1>2, <2>1, ArpStep DEF ArpArrives
<1>3. CASE QueueChecked
  <2>1. PICK lag \in Lags : LET t == CheckQueue(Work, Now(HandlerClock, lag))
                            IN  ProcessNext(lag, t.requests) /\ Done(t)
    BY <1>3 DEF QueueChecked
  <2> QED BY <1>3, <2>1, CheckStep DEF QueueChecked
<1>4. CASE OthersRun
  <2>1. SchedulerInv({"arp"})'
    BY <1>4 DEF OthersRun, RouterInv, SchedulerInv, EventsTyped, TimersTyped, TimersMatchEvents
  <2>2. clock <= clock' BY <1>4 DEF OthersRun, RouterInv, SchedulerInv
  <2> QED BY <1>4, <2>1, <2>2, IdleStep DEF OthersRun
<1>5. CASE TimePasses
  <2>1. SchedulerInv({"arp"})' BY <1>5, TickKeeps DEF TimePasses, RouterInv
  <2>2. clock <= clock' BY <1>5 DEF TimePasses, Tick, RouterInv, SchedulerInv
  <2> QED BY <1>5, <2>1, <2>2, IdleStep DEF TimePasses
<1>6. CASE UNCHANGED vars
  <2>1. SchedulerInv({"arp"})'
    BY <1>6, IdleKeeps DEF vars, RouterInv
  <2>2. clock <= clock' BY <1>6 DEF vars, schedulerVars, RouterInv, SchedulerInv
  <2> QED BY <1>6, <2>1, <2>2, IdleStep DEF vars
<1> QED BY <1>1, <1>2, <1>3, <1>4, <1>5, <1>6 DEF Next

\* The invariant of a router: its scheduler, its types, where every frame is, the account
\* of the bytes that wait, and whom they wait for.
THEOREM RouterInvariant == Spec => []RouterInv
BY InitKeeps, NextKeeps, PTL DEF Spec

\* The account of the waiting bytes is what the waiting frames hold, through retries,
\* refusals and errors that are queued while the queue is walked.
THEOREM BytesAreExact == Spec => []ArpBytesExact
<1>1. RouterInv => ArpBytesExact
  <2> SUFFICES ASSUME RouterInv PROVE ArpBytesExact OBVIOUS
  <2>1. Work.waiting = waiting /\ Work.bytes = bytes BY DEF Work
  <2>2. waiting \in Seq(Queued) /\ bytes = BytesOf(waiting) + 0 BY <2>1 DEF RouterInv, RouterTyped, Paid
  <2>3. BytesOf(waiting) \in Nat BY <2>2, BytesJoin
  <2> QED BY <2>2, <2>3 DEF ArpBytesExact
<1> QED BY <1>1, RouterInvariant, PTL

\* A queue that holds each frame once holds as many frames as it has entries.
LEMMA QueueCounted ==
  ASSUME NEW q \in Seq(Queued), OnceIn(q)
  PROVE  Cardinality(IdsIn(q)) = Len(q)
<1> DEFINE J == 1..Len(q)
           f == [k \in J |-> Id(q[k].frame)]
<1>1. Len(q) \in Nat /\ DOMAIN q = J BY SizesTyped
<1>2. IsFiniteSet(J) /\ Cardinality(J) = Len(q) BY <1>1, FS_Interval
<1>3. f \in [J -> IdsIn(q)] BY <1>1 DEF IdsIn
<1>4. \A j, k \in J : f[j] = f[k] => j = k BY <1>1 DEF OnceIn
<1>5. \A s \in IdsIn(q) : \E k \in J : f[k] = s BY <1>1 DEF IdsIn
<1> HIDE DEF f, J
<1>6. Cardinality(IdsIn(q)) = Cardinality(J) BY <1>2, <1>3, <1>4, <1>5, NumberedSet
<1> QED BY <1>2, <1>6

\* Every packet that arrived, and every error made about one, is in one place: it waits
\* once, or it was sent, or it was given up; none is sent twice or forgotten.
THEOREM FramesAreAccounted == Spec => []FramesAccountedOnce
<1>1. RouterInv => FramesAccountedOnce
  <2> SUFFICES ASSUME RouterInv PROVE FramesAccountedOnce OBVIOUS
  <2>1. Work.waiting = waiting /\ Work.sent = sent /\ Work.lost = lost BY DEF Work
  <2>2. Ids(WaitingFrames) = IdsIn(waiting) BY DEF Ids, WaitingFrames, IdsIn
  <2>3. Ids(SentFrames) = SentIds(Work) BY <2>1 DEF Ids, SentFrames, SentIds
  <2>4. Ids(lost) = LostIds(Work) BY <2>1 DEF Ids, LostIds
  <2>5. OnceIn(waiting) /\ Apart(IdsIn(waiting), {}, SentIds(Work), LostIds(Work))
    BY <2>1 DEF RouterInv, Placed
  <2>6. waiting \in Seq(Queued) BY DEF RouterInv, RouterTyped
  <2>7. Cardinality(Ids(WaitingFrames)) = Len(waiting) BY <2>2, <2>5, <2>6, QueueCounted
  <2>8. /\ Ids(WaitingFrames) \cap (Ids(SentFrames) \cup Ids(lost)) = {}
        /\ Ids(SentFrames) \cap Ids(lost) = {}
    BY <2>2, <2>3, <2>4, <2>5 DEF Apart
  <2>9. Ids(arrived) \subseteq Ids(WaitingFrames) \cup Ids(SentFrames) \cup Ids(lost)
    BY <2>1, <2>2, <2>3, <2>4 DEF RouterInv, AllOf
  <2> QED BY <2>7, <2>8, <2>9 DEF FramesAccountedOnce
<1> QED BY <1>1, RouterInvariant, PTL

\* No frame waits for a host whose address the cache holds: whatever puts an entry there
\* or renews it also sends the frames that wait for it.
THEOREM NobodyWaitsForTheKnown == Spec => []NoneWaitsForKnownHost
<1>1. RouterInv => NoneWaitsForKnownHost
  <2> SUFFICES ASSUME RouterInv, NEW k \in DOMAIN waiting
               PROVE  ~HasEntry(Work, waiting[k].hop, CurrentMs)
    BY DEF NoneWaitsForKnownHost
  <2>1. waiting \in Seq(Queued) /\ Work.waiting = waiting BY DEF RouterInv, RouterTyped, Work
  <2>2. k \in 0 + 1..Len(waiting) BY <2>1
  <2> QED BY <2>1, <2>2 DEF RouterInv, Unanswered
<1> QED BY <1>1, RouterInvariant, PTL

\* An error is never about an error, neither one sent back at once nor one queued.
THEOREM NoErrorsAboutErrors == Spec => []NoErrorAboutError
<1>1. RouterInv => NoErrorAboutError
  <2> SUFFICES ASSUME RouterInv PROVE NoErrorAboutError OBVIOUS
  <2>1. /\ waiting \in Seq(Queued) /\ sent \in SUBSET Sending /\ lost \in SUBSET Frame
        /\ emitted \in Seq(Emission)
    BY DEF RouterInv, RouterTyped
  <2>2. \A k \in DOMAIN waiting : waiting[k] \in Queued BY <2>1, ElementsOfSeq
  <2>3. WaitingFrames \subseteq Frame BY <2>2 DEF WaitingFrames, Queued
  <2>4. SentFrames \subseteq Frame BY <2>1 DEF SentFrames, Sending
  <2>5. \A f \in Frame : f.about # "error" BY DEF Frame, AnyFrame
  <2>6. \A k \in DOMAIN emitted : emitted[k] \in Emission BY <2>1, ElementsOfSeq
  <2>7. \A e \in Emission : e.kind \notin {"request", "reply", "echo-reply"} => e.about # "error"
    BY DEF Emission
  <2> QED BY <2>1, <2>3, <2>4, <2>5, <2>6, <2>7 DEF NoErrorAboutError
<1> QED BY <1>1, RouterInvariant, PTL

\* What waits in q, by frame, hop and attempts.
AttemptOf(entry) == [id |-> Id(entry.frame), hop |-> entry.hop, attempts |-> entry.attempts]
FreshFor(w, q, hop) == {a \in Attempts(w) \ Attempts(q) : a.hop = hop}

\* The entries of the queue that no earlier step left there are the new ones.
LEMMA FreshAreNew ==
  ASSUME NEW q, NEW w \in Seq(Queued), OnceIn(w), NEW n \in Nat, n <= Len(w), NEW t, t.waiting = w,
         Old(t, n, q), NewAttempts(t, n, q), NEW hop
  PROVE  Cardinality(FreshFor(w, q, hop)) = Cardinality(NewFor(w, n, hop))
<1> DEFINE J == NewFor(w, n, hop)
           S == FreshFor(w, q, hop)
           f == [k \in J |-> AttemptOf(w[k])]
<1>1. Len(w) \in Nat /\ DOMAIN w = 1..Len(w) BY SizesTyped
<1>2. J = {k \in n + 1..Len(w) : w[k].hop = hop} BY DEF NewFor
<1>3. \A k \in 1..Len(w) : k \in 1..n \/ k \in n + 1..Len(w) BY <1>1
<1>4. \A k \in n + 1..Len(w) : k \in 1..Len(w) BY <1>1
<1>5. Attempts(w) = {AttemptOf(w[k]) : k \in DOMAIN w} BY DEF Attempts, AttemptOf
<1>6. Attempts(q) = {AttemptOf(q[j]) : j \in DOMAIN q} BY DEF Attempts, AttemptOf
<1> HIDE DEF J
<1>7. \A k \in J : AttemptOf(w[k]) \in S
  <2> SUFFICES ASSUME NEW k \in J PROVE AttemptOf(w[k]) \in S OBVIOUS
  <2>1. k \in n + 1..Len(w) /\ w[k].hop = hop /\ k \in DOMAIN w BY <1>1, <1>2, <1>4
  <2>2. AttemptOf(w[k]) \in Attempts(w) BY <1>5, <2>1
  <2>3. NewAttempt(q, w[k]) BY <2>1 DEF NewAttempts
  <2>4. AttemptOf(w[k]) \notin Attempts(q)
    <3> SUFFICES ASSUME NEW j \in DOMAIN q, AttemptOf(w[k]) = AttemptOf(q[j]) PROVE FALSE BY <1>6
    <3>1. /\ Id(w[k].frame) = Id(q[j].frame) /\ w[k].attempts = q[j].attempts
      <4>1. AttemptOf(w[k]).id = AttemptOf(q[j]).id /\ AttemptOf(w[k]).attempts = AttemptOf(q[j]).attempts
        OBVIOUS
      <4> QED BY <4>1 DEF AttemptOf
    <3> QED BY <2>3, <3>1 DEF NewAttempt
  <2>5. AttemptOf(w[k]).hop = hop BY <2>1 DEF AttemptOf
  <2> QED BY <2>2, <2>4, <2>5 DEF FreshFor
<1>8. f \in [J -> S] BY <1>7
<1>9. \A i, k \in J : f[i] = f[k] => i = k
  <2> SUFFICES ASSUME NEW i \in J, NEW k \in J, f[i] = f[k] PROVE i = k OBVIOUS
  <2>1. AttemptOf(w[i]).id = AttemptOf(w[k]).id OBVIOUS
  <2>2. Id(w[i].frame) = Id(w[k].frame) BY <2>1 DEF AttemptOf
  <2>3. i \in DOMAIN w /\ k \in DOMAIN w BY <1>1, <1>2, <1>4
  <2> QED BY <2>2, <2>3 DEF OnceIn
<1>10. \A s \in S : \E k \in J : f[k] = s
  <2> SUFFICES ASSUME NEW s \in S PROVE \E k \in J : AttemptOf(w[k]) = s OBVIOUS
  <2>1. s \in Attempts(w) /\ s \notin Attempts(q) /\ s.hop = hop BY DEF FreshFor
  <2>2. PICK k \in DOMAIN w : s = AttemptOf(w[k]) BY <1>5, <2>1
  <2>3. k \notin 1..n
    <3> SUFFICES ASSUME k \in 1..n PROVE FALSE OBVIOUS
    <3>1. PICK j \in DOMAIN q : w[k] = q[j] BY DEF Old
    <3> QED BY <1>6, <2>1, <2>2, <3>1
  <2>4. k \in n + 1..Len(w) BY <1>1, <1>3, <2>3
  <2>5. w[k].hop = hop BY <2>1, <2>2 DEF AttemptOf
  <2> QED BY <1>2, <2>2, <2>4, <2>5
<1>11. IsFiniteSet(J)
  <2>1. IsFiniteSet(n + 1..Len(w)) BY <1>1, FS_Interval
  <2> QED BY <1>2, <2>1, FS_Subset
<1> HIDE DEF S, f
<1>12. Cardinality(S) = Cardinality(J) BY <1>8, <1>9, <1>10, <1>11, NumberedSet
<1> QED BY <1>12 DEF S, J

\* A frame begins to wait, or to wait again, only as its next hop is asked for, once for
\* each attempt.
THEOREM AttemptsAsk == Spec => EveryAttemptAsks
<1> DEFINE Asks == LET fresh == Attempts(waiting') \ Attempts(waiting)
                       asked == {k \in DOMAIN emitted' : emitted'[k].kind = "request"}
                   IN \A hop \in {a.hop : a \in fresh} :
                        Cardinality({a \in fresh : a.hop = hop})
                          = Cardinality({k \in asked : emitted'[k].to = hop})
<1>1. RouterInv /\ [Next]_vars => [Asks]_vars
  <2> SUFFICES ASSUME RouterInv, Next PROVE Asks OBVIOUS
  <2>1. CASE UNCHANGED waiting
    <3>1. Attempts(waiting') \ Attempts(waiting) = {} BY <2>1
    <3> QED BY <3>1
  <2>2. ASSUME NEW u, NEW c, NEW m, NEW now, Left(Work, u, c, m, now), Done(u) PROVE Asks
    <3>1. waiting' = u.waiting /\ emitted' = u.emitted BY <2>2 DEF Done
    <3>2. u.waiting \in Seq(Queued) /\ OnceIn(u.waiting) BY <2>2 DEF Left, Works, Placed
    <3>3. PICK n \in Nat : Kept(u, 0, n, now, waiting) BY <2>2 DEF Left, Work
    <3>4. \A hop : Cardinality(AskedOf(u.emitted, hop)) = Cardinality(NewFor(u.waiting, n, hop))
      BY <3>3 DEF Kept, Asked
    <3>5. \A hop : Cardinality(FreshFor(u.waiting, waiting, hop)) = Cardinality(NewFor(u.waiting, n, hop))
      BY <3>2, <3>3, FreshAreNew DEF Kept
    <3>6. \A hop : Cardinality(FreshFor(waiting', waiting, hop)) = Cardinality(AskedOf(emitted', hop))
      BY <3>1, <3>4, <3>5
    <3>7. \A hop : {k \in {j \in DOMAIN emitted' : emitted'[j].kind = "request"} : emitted'[k].to = hop}
                     = AskedOf(emitted', hop)
      BY DEF AskedOf
    <3> QED BY <3>6, <3>7 DEF FreshFor
  <2>3. CASE PacketArrives
    <3>1. PICK p \in Packets, lag \in Lags :
            LET frame == [no |-> Cardinality(arrived), kind |-> p.kind, about |-> "none",
                          src |-> p.src, dst |-> p.dst, ttl |-> p.ttl, size |-> p.size]
                t == HandleFrame(Work, frame, Now(clock, lag))
            IN  Done(t) /\ Register(lag, t.requests) /\ arrived' = arrived \cup {frame}
      BY <2>3 DEF PacketArrives
    <3> HIDE DEF Asks
    <3> QED BY <2>2, <3>1, PacketStep
  <2>4. CASE ArpArrives
    <3>1. PICK arp \in ArpPackets, k \in DOMAIN Interfaces, lag \in Lags :
            LET t == ReceiveArp(Work, arp, k - 1, Now(clock, lag))
            IN  Done(t) /\ Register(lag, t.requests)
      BY <2>4 DEF ArpArrives
    <3> HIDE DEF Asks
    <3> QED BY <2>2, <2>4, <3>1, ArpStep DEF ArpArrives
  <2>5. CASE QueueChecked
    <3>1. PICK lag \in Lags : LET t == CheckQueue(Work, Now(HandlerClock, lag))
                              IN  ProcessNext(lag, t.requests) /\ Done(t)
      BY <2>5 DEF QueueChecked
    <3> HIDE DEF Asks
    <3> QED BY <2>2, <2>5, <3>1, CheckStep DEF QueueChecked
  <2> HIDE DEF Asks
  <2>6. CASE OthersRun BY <2>1, <2>6 DEF OthersRun, arpVars
  <2>7. CASE TimePasses BY <2>1, <2>7 DEF TimePasses, arpVars
  <2> QED BY <2>3, <2>4, <2>5, <2>6, <2>7 DEF Next
<1> HIDE DEF Asks
<1>2. Spec => [][Asks]_vars BY <1>1, RouterInvariant, PTL DEF Spec
<1> QED BY <1>2, PTL DEF EveryAttemptAsks, Asks
=============================================================================
