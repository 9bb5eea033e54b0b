------------------------ MODULE FrameTransit_proofs -------------------------
(***************************************************************************)
(* Two parts, for any links and interfaces, any connections that map files *)
(* make, any frames and both schedulers.                                   *)
(* First: nobody writes into another's half of an 802.3 link and no frame  *)
(* strays.                                                                 *)
(* Second: the queues. What they count is what they hold, every frame in   *)
(* them is awaited by an event of its queue that comes when the frame may  *)
(* go on, and they are lines: first in, first out, nobody before its time. *)
(***************************************************************************)
EXTENDS FrameTransit, EventScheduler_proofs

-----------------------------------------------------------------------------
(* Wirings. *)

SendsOnHalf(w, i, h) == h \in RangeOf(w.sendsOn[i])
BridgedTo(w, g, h) == h \in RangeOf(w.bridges[g])

\* No interface writes on h, and only links in K feed it.
FedBy(w, h, K) ==
  /\ \A i \in Interface : ~SendsOnHalf(w, i, h)
  /\ \A g \in Half : BridgedTo(w, g, h) => LinkOf(g) \in K

\* Only the interface i writes on h, and no link feeds it.
WrittenBy(w, h, i) ==
  /\ \A j \in Interface : SendsOnHalf(w, j, h) => j = i
  /\ \A g \in Half : ~BridgedTo(w, g, h)

Exclusive(w) ==
  \A h \in Half : LinkOf(h) \notin CsmaCd =>
    (\E k \in Link : FedBy(w, h, {k})) \/ (\E i \in Interface : WrittenBy(w, h, i))
      \/ FedBy(w, h, {})

\* The halves that a client yet to come will write on are unused.
Spare(w) ==
  \A l \in Link \ CsmaCd :
    /\ w.clients[l] \in 0..2
    /\ \A n \in 0..1 : w.clients[l] <= n => FedBy(w, WriteHalf(l, n), {})

\* A half belongs to its link, and the two clients of a link write on two halves.
LEMMA HalfOfLink ==
  ASSUME NEW l \in Link, NEW n \in Nat
  PROVE  /\ ReadHalf(l, n) \in Half /\ WriteHalf(l, n) \in Half
         /\ LinkOf(WriteHalf(l, n)) = l /\ LinkOf(ReadHalf(l, n)) = l
BY DEF ReadHalf, WriteHalf, Half, Halves, Whole, Up, Down, LinkOf

\* The two ways of a duplex link, and those of different links, are different halves.
LEMMA HalvesDiffer ==
  ASSUME NEW l \in Link \ CsmaCd, NEW k \in Link, NEW m \in 0..1, NEW n \in 0..1,
         WriteHalf(l, m) = WriteHalf(k, n)
  PROVE  l = k /\ m = n
BY DEF WriteHalf, Whole, Up, Down

\* Every half belongs to a link.
LEMMA LinkOfHalf == \A h \in Half : LinkOf(h) \in Link
BY DEF Half, Halves, Whole, Up, Down, LinkOf

\* An element more
LEMMA RangeOfAppend ==
  ASSUME NEW S, NEW s \in Seq(S), NEW x
  PROVE  RangeOf(Append(s, x)) = RangeOf(s) \cup {x}
<1>1. /\ DOMAIN Append(s, x) = DOMAIN s \cup {Len(s) + 1}
      /\ Append(s, x)[Len(s) + 1] = x
      /\ \A k \in DOMAIN s : Append(s, x)[k] = s[k]
  OBVIOUS
<1> QED BY <1>1 DEF RangeOf

\* The elements of a sequence over S are in S.
LEMMA RangeOfSeq ==
  ASSUME NEW S, NEW s \in Seq(S)
  PROVE  RangeOf(s) \subseteq S
BY DEF RangeOf

\* A wiring by its parts, and what the operators of LinkWiring make of it
WiringOf(c, h, b, s) == [clients |-> c, hears |-> h, bridges |-> b, sendsOn |-> s]

Clients == [Link -> Nat]
Hearing == [Half -> Seq(Interface)]
Bridging == [Half -> Seq(Half)]
Sending == [Interface -> Seq(Half)]

\* A wiring is made of four parts: who counts, hears, bridges and sends on.
LEMMA WiringByParts ==
  ASSUME NEW w \in Wiring
  PROVE  \E c \in Clients, a \in Hearing, b \in Bridging, s \in Sending : w = WiringOf(c, a, b, s)
<1>1. w = WiringOf(w.clients, w.hears, w.bridges, w.sendsOn) BY DEF Wiring, WiringOf
<1>2. /\ w.clients \in Clients /\ w.hears \in Hearing
      /\ w.bridges \in Bridging /\ w.sendsOn \in Sending
  BY DEF Wiring, Clients, Hearing, Bridging, Sending
<1> QED BY <1>1, <1>2

\* The four parts of a wiring are read back as they were put in.
LEMMA PartsOfWiring ==
  ASSUME NEW c, NEW h, NEW b, NEW s
  PROVE  /\ WiringOf(c, h, b, s).clients = c /\ WiringOf(c, h, b, s).hears = h
         /\ WiringOf(c, h, b, s).bridges = b /\ WiringOf(c, h, b, s).sendsOn = s
BY DEF WiringOf

\* Four typed parts make a typed wiring.
LEMMA PartsMakeWiring ==
  ASSUME NEW c \in Clients, NEW h \in Hearing, NEW b \in Bridging, NEW s \in Sending
  PROVE  WiringOf(c, h, b, s) \in Wiring
BY DEF Wiring, WiringOf, Clients, Hearing, Bridging, Sending

\* Counting a client of a duplex link changes the counters alone.
LEMMA CountOfParts ==
  ASSUME NEW c, NEW h, NEW b, NEW s, NEW l, l \notin CsmaCd
  PROVE  Count(WiringOf(c, h, b, s), l) = WiringOf([c EXCEPT ![l] = @ + 1], h, b, s)
BY DEF Count, WiringOf

\* Bridging two halves changes the bridges alone.
LEMMA BridgeOfParts ==
  ASSUME NEW c, NEW h, NEW b, NEW s, NEW g, NEW x
  PROVE  Bridge(WiringOf(c, h, b, s), g, x) = WiringOf(c, h, [b EXCEPT ![g] = Append(@, x)], s)
BY DEF Bridge, WiringOf

\* An interface that hears a half changes the listeners alone.
LEMMA HearOfParts ==
  ASSUME NEW c, NEW h, NEW b, NEW s, NEW g, NEW x
  PROVE  Hear(WiringOf(c, h, b, s), g, x) = WiringOf(c, [h EXCEPT ![g] = Append(@, x)], b, s)
BY SMTT(60) DEF Hear, WiringOf

\* An interface that sends on a half changes the ways out alone.
LEMMA SendOnOfParts ==
  ASSUME NEW c, NEW h, NEW b, NEW s, NEW g, NEW x
  PROVE  SendOn(WiringOf(c, h, b, s), g, x) = WiringOf(c, h, b, [s EXCEPT ![g] = Append(@, x)])
BY DEF SendOn, WiringOf

\* Another client is counted; nothing else changes.
LEMMA Counted ==
  ASSUME NEW w \in Wiring, NEW l \in Link
  PROVE  /\ Count(w, l) \in Wiring
         /\ Count(w, l).bridges = w.bridges /\ Count(w, l).sendsOn = w.sendsOn
         /\ Count(w, l).clients
              = IF l \in CsmaCd THEN w.clients ELSE [w.clients EXCEPT ![l] = @ + 1]
<1>1. CASE l \in CsmaCd BY <1>1 DEF Count
<1>2. CASE l \notin CsmaCd
  <2>1. PICK c \in Clients, a \in Hearing, b \in Bridging, s \in Sending : w = WiringOf(c, a, b, s)
    BY WiringByParts
  <2> DEFINE d == [c EXCEPT ![l] = @ + 1]
  <2>2. Count(w, l) = WiringOf(d, a, b, s) BY <1>2, <2>1, CountOfParts
  <2>3. d \in Clients BY DEF Clients
  <2>4. w.clients = c /\ w.bridges = b /\ w.sendsOn = s BY <2>1, PartsOfWiring
  <2> HIDE DEF d
  <2>5. Count(w, l) \in Wiring BY <2>2, <2>3, PartsMakeWiring
  <2>6. /\ Count(w, l).clients = d /\ Count(w, l).bridges = b /\ Count(w, l).sendsOn = s
    BY <2>2, PartsOfWiring
  <2> QED BY <1>2, <2>4, <2>5, <2>6 DEF d
<1> QED BY <1>1, <1>2

\* A bridge feeds one half more, from one half more.
LEMMA Bridged ==
  ASSUME NEW w \in Wiring, NEW g \in Half, NEW h \in Half
  PROVE  /\ Bridge(w, g, h) \in Wiring
         /\ Bridge(w, g, h).clients = w.clients
         /\ Bridge(w, g, h).sendsOn = w.sendsOn
         /\ \A f, x \in Half : BridgedTo(Bridge(w, g, h), f, x)
                                 <=> BridgedTo(w, f, x) \/ (f = g /\ x = h)
<1>1. PICK c \in Clients, a \in Hearing, b \in Bridging, s \in Sending : w = WiringOf(c, a, b, s)
  BY WiringByParts
<1> DEFINE d == [b EXCEPT ![g] = Append(@, h)]
<1>2. Bridge(w, g, h) = WiringOf(c, a, d, s) BY <1>1, BridgeOfParts
<1>3. d \in Bridging BY DEF Bridging
<1>4. \A f \in Half : b[f] \in Seq(Half) /\ d[f] = IF f = g THEN Append(b[f], h) ELSE b[f]
  BY DEF Bridging
<1>5. \A q \in Seq(Half) : RangeOf(Append(q, h)) = RangeOf(q) \cup {h} BY RangeOfAppend
<1> HIDE DEF d
<1>6. \A f, x \in Half : x \in RangeOf(d[f]) <=> x \in RangeOf(b[f]) \/ (f = g /\ x = h)
  BY <1>4, <1>5
<1>7. w.clients = c /\ w.bridges = b /\ w.sendsOn = s BY <1>1, PartsOfWiring
<1>8. Bridge(w, g, h) \in Wiring BY <1>2, <1>3, PartsMakeWiring
<1>9. /\ Bridge(w, g, h).clients = c /\ Bridge(w, g, h).bridges = d
      /\ Bridge(w, g, h).sendsOn = s
  BY <1>2, PartsOfWiring
<1> QED BY <1>6, <1>7, <1>8, <1>9 DEF BridgedTo

\* An interface that is plugged in writes on one half more.
LEMMA Plugged ==
  ASSUME NEW w \in Wiring, NEW i \in Interface, NEW g \in Half, NEW h \in Half,
         NEW v, v = SendOn(Hear(w, g, i), i, h)
  PROVE  /\ v \in Wiring
         /\ v.clients = w.clients /\ v.bridges = w.bridges
         /\ \A j \in Interface, x \in Half :
              SendsOnHalf(v, j, x) <=> SendsOnHalf(w, j, x) \/ (j = i /\ x = h)
<1>1. PICK c \in Clients, a \in Hearing, b \in Bridging, s \in Sending : w = WiringOf(c, a, b, s)
  BY WiringByParts
<1> DEFINE d == [a EXCEPT ![g] = Append(@, i)]
           t == [s EXCEPT ![i] = Append(@, h)]
<1>2. Hear(w, g, i) = WiringOf(c, d, b, s) BY <1>1, HearOfParts
<1>3. v = WiringOf(c, d, b, t) BY <1>2, SendOnOfParts
<1>4. d \in Hearing /\ t \in Sending BY DEF Hearing, Sending
<1>5. \A j \in Interface : s[j] \in Seq(Half) /\ t[j] = IF j = i THEN Append(s[j], h) ELSE s[j]
  BY DEF Sending
<1>6. \A q \in Seq(Half) : RangeOf(Append(q, h)) = RangeOf(q) \cup {h} BY RangeOfAppend
<1> HIDE DEF d, t
<1>7. \A j \in Interface, x \in Half : x \in RangeOf(t[j]) <=> x \in RangeOf(s[j]) \/ (j = i /\ x = h)
  BY <1>5, <1>6
<1>8. w.clients = c /\ w.bridges = b /\ w.sendsOn = s BY <1>1, PartsOfWiring
<1>9. v \in Wiring BY <1>3, <1>4, PartsMakeWiring
<1>10. v.clients = c /\ v.bridges = b /\ v.sendsOn = t BY <1>3, PartsOfWiring
<1> QED BY <1>7, <1>8, <1>9, <1>10 DEF SendsOnHalf

-----------------------------------------------------------------------------
(* Connections keep each half of an 802.3 link to one source.              *)

\* Bridging g to h keeps every other half exclusive, and h has g's link for its one source.
LEMMA BridgeKeeps ==
  ASSUME NEW w \in Wiring, Exclusive(w), NEW g \in Half, NEW h \in Half,
         LinkOf(h) \notin CsmaCd => FedBy(w, h, {LinkOf(g)}),
         NEW v, v = Bridge(w, g, h)
  PROVE  /\ v \in Wiring /\ v.clients = w.clients /\ Exclusive(v)
         /\ \A x \in Half \ {h} : FedBy(w, x, {}) => FedBy(v, x, {})
         /\ LinkOf(h) \notin CsmaCd => FedBy(v, h, {LinkOf(g)})
<1>1. v \in Wiring /\ v.clients = w.clients BY Bridged
<1>2. \A i \in Interface, x \in Half : SendsOnHalf(v, i, x) = SendsOnHalf(w, i, x)
  BY Bridged DEF SendsOnHalf
<1>3. \A f, x \in Half : BridgedTo(v, f, x) <=> BridgedTo(w, f, x) \/ (f = g /\ x = h)
  BY Bridged
<1>4. \A x \in Half \ {h} : \A K : FedBy(w, x, K) => FedBy(v, x, K) BY <1>2, <1>3 DEF FedBy
<1>5. \A x \in Half \ {h}, i \in Interface : WrittenBy(w, x, i) => WrittenBy(v, x, i)
  BY <1>2, <1>3 DEF WrittenBy
<1>6. LinkOf(h) \notin CsmaCd => FedBy(v, h, {LinkOf(g)}) BY <1>2, <1>3 DEF FedBy
<1>7. Exclusive(v) BY <1>4, <1>5, <1>6, LinkOfHalf DEF Exclusive
<1> QED BY <1>1, <1>4, <1>6, <1>7

\* Counting a client changes no list: halves stay exclusive and are fed as before.
LEMMA CountKeeps ==
  ASSUME NEW w \in Wiring, Exclusive(w), NEW l \in Link, NEW v, v = Count(w, l)
  PROVE  /\ v \in Wiring /\ Exclusive(v)
         /\ v.clients = IF l \in CsmaCd THEN w.clients ELSE [w.clients EXCEPT ![l] = @ + 1]
         /\ \A x \in Half : \A K : FedBy(w, x, K) => FedBy(v, x, K)
<1>1. v \in Wiring /\ v.bridges = w.bridges /\ v.sendsOn = w.sendsOn BY Counted
<1>2. v.clients = IF l \in CsmaCd THEN w.clients ELSE [w.clients EXCEPT ![l] = @ + 1]
  BY Counted
<1>3. \A x \in Half : \A K : FedBy(w, x, K) => FedBy(v, x, K)
  BY <1>1 DEF FedBy, SendsOnHalf, BridgedTo
<1>4. \A x \in Half, i \in Interface : WrittenBy(w, x, i) => WrittenBy(v, x, i)
  BY <1>1 DEF WrittenBy, SendsOnHalf, BridgedTo
<1>5. Exclusive(v) BY <1>3, <1>4 DEF Exclusive
<1> QED BY <1>1, <1>2, <1>3, <1>5

\* Plugging an interface into a half that nobody feeds yet keeps the halves exclusive.
LEMMA PlugKeeps ==
  ASSUME NEW w \in Wiring, Exclusive(w), NEW i \in Interface, NEW g \in Half, NEW h \in Half,
         LinkOf(h) \notin CsmaCd => FedBy(w, h, {}),
         NEW v, v = SendOn(Hear(w, g, i), i, h)
  PROVE  /\ v \in Wiring /\ v.clients = w.clients /\ Exclusive(v)
         /\ \A x \in Half \ {h} : FedBy(w, x, {}) => FedBy(v, x, {})
<1>1. v \in Wiring /\ v.clients = w.clients /\ v.bridges = w.bridges BY Plugged
<1>2. \A f, x \in Half : BridgedTo(v, f, x) = BridgedTo(w, f, x) BY <1>1 DEF BridgedTo
<1>3. ASSUME NEW j \in Interface, NEW x \in Half
      PROVE  SendsOnHalf(v, j, x) <=> SendsOnHalf(w, j, x) \/ (j = i /\ x = h)
  BY Plugged, SMTT(30)
<1>4. \A x \in Half \ {h} : \A K : FedBy(w, x, K) => FedBy(v, x, K) BY <1>2, <1>3 DEF FedBy
<1>5. \A x \in Half \ {h}, j \in Interface : WrittenBy(w, x, j) => WrittenBy(v, x, j)
  BY <1>2, <1>3 DEF WrittenBy
<1>6. LinkOf(h) \notin CsmaCd => WrittenBy(v, h, i) BY <1>2, <1>3 DEF FedBy, WrittenBy
<1>7. Exclusive(v) BY <1>4, <1>5, <1>6 DEF Exclusive
<1> QED BY <1>1, <1>4, <1>7

\* What was written on by a client that is counted now is no longer spare.
LEMMA SpareKept ==
  ASSUME NEW w, Spare(w), NEW v, NEW T,
         \A x \in Half \ T : FedBy(w, x, {}) => FedBy(v, x, {}),
         \A l \in Link \ CsmaCd :
           /\ v.clients[l] \in 0..2 /\ w.clients[l] <= v.clients[l]
           /\ \A n \in 0..1 : v.clients[l] <= n => WriteHalf(l, n) \notin T
  PROVE  Spare(v)
<1> SUFFICES ASSUME NEW l \in Link \ CsmaCd, NEW n \in 0..1, v.clients[l] <= n
             PROVE  FedBy(v, WriteHalf(l, n), {})
  BY DEF Spare
<1>1. w.clients[l] \in 0..2 /\ w.clients[l] <= n BY DEF Spare
<1>2. FedBy(w, WriteHalf(l, n), {}) BY <1>1 DEF Spare
<1>3. WriteHalf(l, n) \in Half BY HalfOfLink
<1> QED BY <1>2, <1>3

\* The half that the next client of l writes on is unused, if l takes another client.
LEMMA NextHalfUnused ==
  ASSUME NEW w, Spare(w), NEW l \in Link, HasRoom(w, l)
  PROVE  l \notin CsmaCd => w.clients[l] \in 0..1 /\ FedBy(w, WriteHalf(l, w.clients[l]), {})
BY DEF Spare, HasRoom

\* The half of a client that is counted is not one of a client yet to come.
LEMMA HalfTaken ==
  ASSUME NEW w \in Wiring, Spare(w), NEW l \in Link, HasRoom(w, l), NEW c, c = Count(w, l),
         Exclusive(w), NEW j \in Link \ CsmaCd
  PROVE  /\ c.clients[j] \in 0..2 /\ w.clients[j] <= c.clients[j]
         /\ \A m \in 0..1 : c.clients[j] <= m => WriteHalf(j, m) # WriteHalf(l, w.clients[l])
<1>1. w.clients[j] \in 0..2 BY DEF Spare
<1>2. w.clients \in [Link -> Nat] BY DEF Wiring
<1>3. c.clients = IF l \in CsmaCd THEN w.clients ELSE [w.clients EXCEPT ![l] = @ + 1]
  BY CountKeeps
<1>4. CASE j = l
  <2>1. c.clients[j] = w.clients[l] + 1 /\ w.clients[l] \in 0..1
    BY <1>2, <1>3, <1>4, NextHalfUnused
  <2>2. \A m \in 0..1 : w.clients[l] + 1 <= m => WriteHalf(j, m) # WriteHalf(l, w.clients[l])
    BY <1>4, <2>1, HalvesDiffer
  <2> QED BY <1>4, <2>1, <2>2
<1>5. CASE j # l
  <2>1. c.clients[j] = w.clients[j] BY <1>2, <1>3, <1>5
  <2>2. \A m \in 0..1 : WriteHalf(j, m) # WriteHalf(l, w.clients[l])
    BY <1>2, <1>5, HalfOfLink
  <2> QED BY <1>1, <2>1, <2>2
<1> QED BY <1>4, <1>5

\* Counting a client leaves the other halves spare.
LEMMA CountSpare ==
  ASSUME NEW w \in Wiring, Exclusive(w), Spare(w), NEW l \in Link, HasRoom(w, l),
         NEW c, c = Count(w, l)
  PROVE  Spare(c)
<1>1. \A x \in Half \ {} : FedBy(w, x, {}) => FedBy(c, x, {}) BY CountKeeps
<1>2. \A j \in Link \ CsmaCd :
        /\ c.clients[j] \in 0..2 /\ w.clients[j] <= c.clients[j]
        /\ \A n \in 0..1 : c.clients[j] <= n => WriteHalf(j, n) \notin {}
  BY HalfTaken
<1> QED BY <1>1, <1>2, SpareKept

Sound(w) == w \in Wiring /\ Exclusive(w) /\ Spare(w)

\* An interface becomes the next client of l.
LEMMA PlugSound ==
  ASSUME NEW w, Sound(w), NEW l \in Link, NEW i \in Interface, HasRoom(w, l)
  PROVE  Sound(ConnectToInterface(w, l, i))
<1> DEFINE n == w.clients[l]
           c == Count(w, l)
           g == ReadHalf(l, n)
           h == WriteHalf(l, n)
           v == SendOn(Hear(c, g, i), i, h)
<1>1. w \in Wiring /\ Exclusive(w) /\ Spare(w) BY DEF Sound
<1>2. n \in Nat BY <1>1 DEF Wiring
<1>3. g \in Half /\ h \in Half /\ LinkOf(h) = l BY <1>2, HalfOfLink
<1>4. l \notin CsmaCd => FedBy(w, h, {}) BY <1>1, NextHalfUnused
<1>5. \A j \in Link \ CsmaCd :
        /\ c.clients[j] \in 0..2 /\ w.clients[j] <= c.clients[j]
        /\ \A m \in 0..1 : c.clients[j] <= m => WriteHalf(j, m) \notin {h}
  BY <1>1, HalfTaken
<1> HIDE DEF g, h
<1>6. c \in Wiring /\ Exclusive(c) /\ \A x \in Half : \A K : FedBy(w, x, K) => FedBy(c, x, K)
  BY <1>1, CountKeeps
<1>7. LinkOf(h) \notin CsmaCd => FedBy(c, h, {}) BY <1>3, <1>4, <1>6
<1> HIDE DEF c
<1>8. /\ v \in Wiring /\ v.clients = c.clients /\ Exclusive(v)
      /\ \A x \in Half \ {h} : FedBy(c, x, {}) => FedBy(v, x, {})
  BY <1>3, <1>6, <1>7, PlugKeeps
<1> HIDE DEF v
<1>9. \A x \in Half \ {h} : FedBy(w, x, {}) => FedBy(v, x, {}) BY <1>6, <1>8
<1>10. Spare(v) BY <1>1, <1>5, <1>8, <1>9, SpareKept
<1>11. Sound(v) BY <1>8, <1>10 DEF Sound
<1> QED BY <1>11 DEF ConnectToInterface, v, c, g, h

\* A second bridge to a half that its link feeds, or to one of its own
LEMMA OneWaySound ==
  ASSUME NEW w, Sound(w), NEW k \in Link, NEW l \in Link, HasRoom(w, l)
  PROVE  Sound(ConnectOneWay(w, k, l))
<1> DEFINE c == Count(w, l)
           h == WriteHalf(l, w.clients[l])
<1>1. w \in Wiring /\ Exclusive(w) /\ Spare(w) BY DEF Sound
<1>2. w.clients[l] \in Nat BY <1>1 DEF Wiring
<1>3. h \in Half /\ LinkOf(h) = l BY <1>2, HalfOfLink
<1>4. l \notin CsmaCd => FedBy(w, h, {}) BY <1>1, NextHalfUnused
<1>5. \A j \in Link \ CsmaCd :
        /\ c.clients[j] \in 0..2 /\ w.clients[j] <= c.clients[j]
        /\ \A m \in 0..1 : c.clients[j] <= m => WriteHalf(j, m) \notin {h}
  BY <1>1, HalfTaken
<1>6. c \in Wiring /\ Exclusive(c) /\ \A x \in Half : \A K : FedBy(w, x, K) => FedBy(c, x, K)
  BY <1>1, CountKeeps
<1> HIDE DEF c, h
<1>7. LinkOf(h) \notin CsmaCd => FedBy(c, h, {k}) BY <1>3, <1>4, <1>6 DEF FedBy
<1>8. ASSUME NEW v, v \in Wiring, Exclusive(v), v.clients = c.clients,
             \A x \in Half \ {h} : FedBy(c, x, {}) => FedBy(v, x, {})
      PROVE  Sound(v)
  <2>1. \A x \in Half \ {h} : FedBy(w, x, {}) => FedBy(v, x, {}) BY <1>6, <1>8
  <2>2. Spare(v) BY <1>1, <1>5, <1>8, <2>1, SpareKept
  <2> QED BY <1>8, <2>2 DEF Sound
<1>9. CASE k \in CsmaCd
  <2> DEFINE v == Bridge(c, Whole(k), h)
  <2>1. Whole(k) \in Half /\ LinkOf(Whole(k)) = k BY <1>9 DEF Half, Halves, Whole, LinkOf
  <2>2. /\ v \in Wiring /\ v.clients = c.clients /\ Exclusive(v)
        /\ \A x \in Half \ {h} : FedBy(c, x, {}) => FedBy(v, x, {})
    BY <1>3, <1>6, <1>7, <2>1, BridgeKeeps
  <2>3. Sound(v) BY <1>8, <2>2
  <2> QED BY <1>9, <2>3 DEF ConnectOneWay, c, h
<1>10. CASE k \notin CsmaCd
  <2> DEFINE u == Bridge(c, Up(k), h)
             v == Bridge(u, Down(k), h)
  <2>1. /\ Up(k) \in Half /\ LinkOf(Up(k)) = k
        /\ Down(k) \in Half /\ LinkOf(Down(k)) = k
    BY <1>10 DEF Half, Halves, Up, Down, LinkOf
  <2>2. /\ u \in Wiring /\ u.clients = c.clients /\ Exclusive(u)
        /\ \A x \in Half \ {h} : FedBy(c, x, {}) => FedBy(u, x, {})
        /\ LinkOf(h) \notin CsmaCd => FedBy(u, h, {k})
    BY <1>3, <1>6, <1>7, <2>1, BridgeKeeps
  <2> HIDE DEF u
  <2>3. /\ v \in Wiring /\ v.clients = u.clients /\ Exclusive(v)
        /\ \A x \in Half \ {h} : FedBy(u, x, {}) => FedBy(v, x, {})
    BY <1>3, <2>1, <2>2, BridgeKeeps
  <2>4. Sound(v) BY <1>8, <2>2, <2>3
  <2> QED BY <1>10, <2>4 DEF ConnectOneWay, c, h, u
<1> QED BY <1>9, <1>10

\* Each of two links becomes a client of the other, or a link two clients of itself.
LEMMA BothWaysSound ==
  ASSUME NEW w, Sound(w), NEW k \in Link, NEW l \in Link, HasRoom(w, k), HasRoom(Count(w, k), l)
  PROVE  Sound(ConnectBothWays(w, k, l))
<1> DEFINE c == Count(w, k)
           d == Count(c, l)
           g == ReadHalf(k, w.clients[k])
           h == WriteHalf(k, w.clients[k])
           e == ReadHalf(l, c.clients[l])
           f == WriteHalf(l, c.clients[l])
           u == Bridge(d, g, f)
           v == Bridge(u, e, h)
<1>1. w \in Wiring /\ Exclusive(w) /\ Spare(w) BY DEF Sound
<1>2. /\ c \in Wiring /\ Exclusive(c)
      /\ \A x \in Half : \A K : FedBy(w, x, K) => FedBy(c, x, K)
  BY <1>1, CountKeeps
<1>3. Spare(c) BY <1>1, CountSpare
<1>4. /\ k \notin CsmaCd => FedBy(w, h, {})
      /\ \A j \in Link \ CsmaCd : /\ c.clients[j] \in 0..2
                                  /\ \A m \in 0..1 : c.clients[j] <= m => WriteHalf(j, m) # h
  BY <1>1, NextHalfUnused, HalfTaken
<1>5. w.clients[k] \in Nat /\ c.clients[l] \in Nat BY <1>1, <1>2 DEF Wiring
<1>6. /\ g \in Half /\ h \in Half /\ LinkOf(g) = k /\ LinkOf(h) = k
      /\ e \in Half /\ f \in Half /\ LinkOf(e) = l /\ LinkOf(f) = l
  BY <1>5, HalfOfLink
<1> HIDE DEF c, g, h
<1>7. /\ d \in Wiring /\ Exclusive(d)
      /\ \A x \in Half : \A K : FedBy(c, x, K) => FedBy(d, x, K)
  BY <1>2, CountKeeps
<1>8. Spare(d) BY <1>2, <1>3, CountSpare DEF c
<1>9. l \notin CsmaCd => c.clients[l] \in 0..1 /\ FedBy(c, f, {})
  BY <1>3, NextHalfUnused DEF c
<1>10. \A j \in Link \ CsmaCd :
         /\ d.clients[j] \in 0..2 /\ c.clients[j] <= d.clients[j]
         /\ \A m \in 0..1 : d.clients[j] <= m => WriteHalf(j, m) # f
  BY <1>2, <1>3, HalfTaken DEF c
<1>11. LinkOf(f) \notin CsmaCd => f # h BY <1>4, <1>6, <1>9
<1> HIDE DEF d, e, f
<1>12. LinkOf(f) \notin CsmaCd => FedBy(d, f, {LinkOf(g)}) BY <1>6, <1>7, <1>9 DEF FedBy
<1>13. /\ u \in Wiring /\ u.clients = d.clients /\ Exclusive(u)
       /\ \A x \in Half \ {f} : FedBy(d, x, {}) => FedBy(u, x, {})
  BY <1>6, <1>7, <1>12, BridgeKeeps
<1> HIDE DEF u
<1>14. LinkOf(h) \notin CsmaCd => FedBy(d, h, {}) BY <1>2, <1>4, <1>6, <1>7
<1>15. LinkOf(h) \notin CsmaCd => FedBy(u, h, {LinkOf(e)})
  <2>1. LinkOf(h) \notin CsmaCd => h # f BY <1>6, <1>11
  <2> QED BY <1>6, <1>13, <1>14, <2>1 DEF FedBy
<1>16. /\ v \in Wiring /\ v.clients = u.clients /\ Exclusive(v)
       /\ \A x \in Half \ {h} : FedBy(u, x, {}) => FedBy(v, x, {})
  <2>1. u \in Wiring /\ Exclusive(u) /\ e \in Half /\ h \in Half BY <1>6, <1>13
  <2> QED BY <2>1, <1>15, BridgeKeeps
<1> HIDE DEF v
<1>17. \A x \in Half \ {f, h} : FedBy(d, x, {}) => FedBy(v, x, {}) BY <1>13, <1>16
<1>18. \A j \in Link \ CsmaCd :
         /\ v.clients[j] \in 0..2 /\ d.clients[j] <= v.clients[j]
         /\ \A m \in 0..1 : v.clients[j] <= m => WriteHalf(j, m) \notin {f, h}
  <2> SUFFICES ASSUME NEW j \in Link \ CsmaCd
               PROVE  /\ v.clients[j] \in 0..2 /\ d.clients[j] <= v.clients[j]
                      /\ \A m \in 0..1 : v.clients[j] <= m => WriteHalf(j, m) \notin {f, h}
    OBVIOUS
  <2>1. v.clients[j] = d.clients[j] /\ d.clients[j] \in 0..2 /\ c.clients[j] <= d.clients[j]
    BY <1>10, <1>13, <1>16
  <2>2. \A m \in 0..1 : d.clients[j] <= m => WriteHalf(j, m) # f /\ c.clients[j] <= m
    BY <1>4, <1>10, <2>1
  <2>3. \A m \in 0..1 : c.clients[j] <= m => WriteHalf(j, m) # h BY <1>4
  <2> QED BY <2>1, <2>2, <2>3
<1>19. Spare(v) BY <1>8, <1>17, <1>18, SpareKept
<1>20. Sound(v) BY <1>16, <1>19 DEF Sound
<1> QED BY <1>20 DEF ConnectBothWays, v, u, c, d, e, f, g, h

\* Whatever tag of the map file comes next
LEMMA ConnectionSound ==
  ASSUME NEW w, Sound(w), NEW s \in Step, Possible(w, s)
  PROVE  Sound(Connected(w, s))
<1>1. CASE \E l \in Link, i \in Interface : s = PlugStep(l, i)
  <2>1. PICK l \in Link, i \in Interface : s = PlugStep(l, i) BY <1>1
  <2>2. s.do = "plug" /\ s.link = l /\ s.iface = i BY <2>1 DEF PlugStep
  <2>3. HasRoom(w, l) BY <2>2 DEF Possible
  <2>4. Sound(ConnectToInterface(w, l, i)) BY <2>3, PlugSound
  <2> QED BY <2>2, <2>4 DEF Connected
<1>2. CASE \E k, l \in Link, twoway \in BOOLEAN : s = BridgeStep(k, l, twoway)
  <2>1. PICK k \in Link, l \in Link, twoway \in BOOLEAN : s = BridgeStep(k, l, twoway) BY <1>2
  <2>2. s.do # "plug" /\ s.from = k /\ s.to = l /\ s.twoway = twoway BY <2>1 DEF BridgeStep
  <2>3. CASE twoway
    <3>1. HasRoom(w, k) /\ HasRoom(Count(w, k), l) BY <2>2, <2>3 DEF Possible
    <3>2. Sound(ConnectBothWays(w, k, l)) BY <3>1, BothWaysSound
    <3> QED BY <2>2, <2>3, <3>2 DEF Connected
  <2>4. CASE ~twoway
    <3>1. HasRoom(w, l) BY <2>2, <2>4 DEF Possible
    <3>2. Sound(ConnectOneWay(w, k, l)) BY <3>1, OneWaySound
    <3> QED BY <2>2, <2>4, <3>2 DEF Connected
  <2> QED BY <2>3, <2>4
<1> QED BY <1>1, <1>2 DEF Step

\* Before the first connection the wiring is sound.
LEMMA UnwiredSound == Sound(Unwired)
<1>1. Unwired \in Wiring BY DEF Unwired, Wiring
<1>2. \A h \in Half : \A K : FedBy(Unwired, h, K)
  BY DEF FedBy, SendsOnHalf, BridgedTo, RangeOf, Unwired
<1>3. \A l \in Link : Unwired.clients[l] = 0 BY DEF Unwired
<1>4. Exclusive(Unwired) BY <1>2 DEF Exclusive
<1>5. Spare(Unwired)
  <2>1. \A l \in Link, n \in 0..1 : WriteHalf(l, n) \in Half BY HalfOfLink
  <2> QED BY <1>2, <1>3, <2>1 DEF Spare
<1> QED BY <1>1, <1>4, <1>5 DEF Sound

\* The property of the wiring, from its single sources
LEMMA ExclusiveWrites ==
  ASSUME Sound(wiring)
  PROVE  OneClientWrites
<1> SUFFICES ASSUME NEW h \in Half, LinkOf(h) \notin CsmaCd
             PROVE  Cardinality(Writers(h)) + Cardinality(Feeders(h)) <= 1
  BY DEF OneClientWrites
<1>1. \A S, x : S \subseteq {x} => Cardinality(S) \in 0..1
  <2> SUFFICES ASSUME NEW S, NEW x, S \subseteq {x} PROVE Cardinality(S) \in 0..1 OBVIOUS
  <2>1. CASE S = {} BY <2>1, FS_EmptySet
  <2>2. CASE S = {x}
    <3>1. Cardinality({x}) = 1 BY FS_Singleton
    <3> QED BY <2>2, <3>1
  <2> QED BY <2>1, <2>2
<1>2. Cardinality({}) = 0 BY FS_EmptySet
<1>3. CASE \E k \in Link : FedBy(wiring, h, {k})
  <2>1. PICK k \in Link : FedBy(wiring, h, {k}) BY <1>3
  <2>2. Writers(h) = {} BY <2>1 DEF FedBy, SendsOnHalf, Writers
  <2>3. Feeders(h) \subseteq {k} BY <2>1 DEF FedBy, BridgedTo, Feeders
  <2> QED BY <1>1, <1>2, <2>2, <2>3
<1>4. CASE \E i \in Interface : WrittenBy(wiring, h, i)
  <2>1. PICK i \in Interface : WrittenBy(wiring, h, i) BY <1>4
  <2>2. Feeders(h) = {} BY <2>1 DEF WrittenBy, BridgedTo, Feeders
  <2>3. Writers(h) \subseteq {i} BY <2>1 DEF WrittenBy, SendsOnHalf, Writers
  <2> QED BY <1>1, <1>2, <2>2, <2>3
<1>5. CASE FedBy(wiring, h, {})
  <2>1. Writers(h) = {} /\ Feeders(h) = {}
    BY <1>5 DEF FedBy, SendsOnHalf, BridgedTo, Writers, Feeders
  <2> QED BY <1>2, <2>1
<1> QED BY <1>3, <1>4, <1>5 DEF Sound, Exclusive

-----------------------------------------------------------------------------
(* Frames. *)

\* A frame of the model, with whatever time is promised
IsFrame(f) ==
  /\ f = [from |-> f.from, fresh |-> f.fresh, to |-> f.to, size |-> f.size, ready |-> f.ready]
  /\ f.from \in Interface /\ f.fresh \in BOOLEAN

CarriedOn(w, i) ==
  RangeOf(w.sendsOn[i]) \cup UNION {RangeOf(w.bridges[h]) : h \in RangeOf(w.sendsOn[i])}

\* A frame may be in a queue: on a half that its sender writes on or that is bridged to
\* one, at an interface that is addressed and hears such a half.
MayBeIn(w, q, f) ==
  /\ IsFrame(f)
  /\ q \in Half => q \in (IF f.fresh THEN RangeOf(w.sendsOn[f.from]) ELSE CarriedOn(w, f.from))
  /\ q \in Interface => q \in f.to /\ \E h \in CarriedOn(w, f.from) : q \in RangeOf(w.hears[h])

FramesPlaced(w, queues) ==
  /\ queues = [q \in Queue |-> queues[q]]
  /\ \A q \in Queue : /\ queues[q] \in Seq(RangeOf(queues[q]))
                      /\ \A f \in RangeOf(queues[q]) : MayBeIn(w, q, f)

TransitInv ==
  /\ Sound(wiring)
  /\ script \in Seq(Step)
  /\ script # <<>> => \A q \in Queue : pending[q] = <<>>
  /\ FramesPlaced(wiring, pending)

\* Sequences of their own elements
LEMMA SeqOfRange ==
  ASSUME NEW S, NEW s \in Seq(S)
  PROVE  s \in Seq(RangeOf(s))
<1>1. s \in [1..Len(s) -> RangeOf(s)] BY DEF RangeOf
<1>2. Len(s) \in Nat OBVIOUS
<1> QED BY <1>1, <1>2

\* Appending adds the one element to those of a sequence.
LEMMA AppendSeq ==
  ASSUME NEW s, s \in Seq(RangeOf(s)), NEW x
  PROVE  /\ RangeOf(Append(s, x)) = RangeOf(s) \cup {x}
         /\ Append(s, x) \in Seq(RangeOf(Append(s, x)))
<1>1. RangeOf(Append(s, x)) = RangeOf(s) \cup {x} BY RangeOfAppend
<1>2. s \in Seq(RangeOf(s) \cup {x}) OBVIOUS
<1>3. Append(s, x) \in Seq(RangeOf(s) \cup {x}) BY <1>2
<1> QED BY <1>1, <1>3

\* Taking the head leaves a sequence of elements that were there.
LEMMA TailSeq ==
  ASSUME NEW s, s \in Seq(RangeOf(s)), s # <<>>
  PROVE  /\ Head(s) \in RangeOf(s) /\ RangeOf(Tail(s)) \subseteq RangeOf(s)
         /\ Tail(s) \in Seq(RangeOf(Tail(s)))
<1>1. /\ Len(s) \in Nat \ {0} /\ DOMAIN s = 1..Len(s) /\ Head(s) = s[1]
      /\ Len(Tail(s)) = Len(s) - 1 /\ DOMAIN Tail(s) = 1..Len(s) - 1
      /\ \A k \in 1..Len(s) - 1 : Tail(s)[k] = s[k + 1]
  OBVIOUS
<1>2. Head(s) \in RangeOf(s) BY <1>1 DEF RangeOf
<1>3. \A k \in 1..Len(s) - 1 : k + 1 \in 1..Len(s) BY <1>1
<1>4. ASSUME NEW x \in RangeOf(Tail(s)) PROVE x \in RangeOf(s)
  <2>1. PICK k \in 1..Len(s) - 1 : x = Tail(s)[k] BY <1>1 DEF RangeOf
  <2>2. x = s[k + 1] /\ k + 1 \in DOMAIN s BY <1>1, <1>3, <2>1
  <2> QED BY <2>2 DEF RangeOf
<1>5. Tail(s) \in Seq(RangeOf(s)) BY <1>1
<1>6. Tail(s) \in Seq(RangeOf(Tail(s))) BY <1>5, SeqOfRange
<1> QED BY <1>2, <1>4, <1>6

\* A concatenation has no elements but those of its two parts.
LEMMA RangeOfConcat ==
  ASSUME NEW S, NEW T, NEW s \in Seq(S), NEW t \in Seq(T)
  PROVE  RangeOf(s \o t) \subseteq RangeOf(s) \cup RangeOf(t)
<1> SUFFICES ASSUME NEW k \in DOMAIN (s \o t)
             PROVE  (s \o t)[k] \in RangeOf(s) \cup RangeOf(t)
  BY DEF RangeOf
<1>1. /\ s \in Seq(S \cup T) /\ t \in Seq(S \cup T) OBVIOUS
<1>2. /\ k \in 1..Len(s) + Len(t)
      /\ (s \o t)[k] = IF k <= Len(s) THEN s[k] ELSE t[k - Len(s)]
  BY <1>1
<1>3. CASE k <= Len(s) BY <1>2, <1>3 DEF RangeOf
<1>4. CASE k > Len(s)
  <2>1. k - Len(s) \in DOMAIN t BY <1>2, <1>4
  <2> QED BY <1>2, <1>4, <2>1 DEF RangeOf
<1> QED BY <1>2, <1>3, <1>4

\* The queues that take a frame keep it behind the others.
LEMMA EnqueuePlaces ==
  ASSUME NEW w, NEW queues, FramesPlaced(w, queues), NEW takers, NEW f, NEW ms,
         \A q \in takers \cap Queue : MayBeIn(w, q, f)
  PROVE  FramesPlaced(w, Enqueued(queues, takers, f, ms))
<1> DEFINE e == Enqueued(queues, takers, f, ms)
           copy(q) == [f EXCEPT !.ready = ReadyAt(q, f.size, ms)]
<1>1. e = [q \in Queue |-> e[q]] BY DEF Enqueued
<1>2. ASSUME NEW q \in Queue
      PROVE  e[q] \in Seq(RangeOf(e[q])) /\ \A g \in RangeOf(e[q]) : MayBeIn(w, q, g)
  <2>1. queues[q] \in Seq(RangeOf(queues[q])) /\ \A g \in RangeOf(queues[q]) : MayBeIn(w, q, g)
    BY DEF FramesPlaced
  <2>2. CASE q \notin takers
    <3>1. e[q] = queues[q] BY <2>2 DEF Enqueued
    <3> QED BY <2>1, <3>1
  <2>3. CASE q \in takers
    <3>1. e[q] = Append(queues[q], copy(q)) BY <2>3 DEF Enqueued
    <3>2. MayBeIn(w, q, f) BY <2>3
    <3> DEFINE r == ReadyAt(q, f.size, ms)
    <3> HIDE DEF r
    <3>3. copy(q) = [from |-> f.from, fresh |-> f.fresh, to |-> f.to, size |-> f.size, ready |-> r]
      BY <3>2 DEF MayBeIn, IsFrame, r
    <3> HIDE DEF copy
    <3>4. MayBeIn(w, q, copy(q)) BY <3>2, <3>3 DEF MayBeIn, IsFrame
    <3>5. /\ RangeOf(e[q]) = RangeOf(queues[q]) \cup {copy(q)}
          /\ e[q] \in Seq(RangeOf(e[q]))
      BY <2>1, <3>1, AppendSeq
    <3> QED BY <2>1, <3>4, <3>5
  <2> QED BY <2>2, <2>3
<1> HIDE DEF e
<1>3. FramesPlaced(w, e) BY <1>1, <1>2 DEF FramesPlaced
<1> QED BY <1>3 DEF e

\* A frame leaves its queue.
LEMMA RestPlaces ==
  ASSUME FramesPlaced(wiring, pending), NEW q \in Queue, pending[q] # <<>>
  PROVE  /\ MayBeIn(wiring, q, Head(pending[q]))
         /\ FramesPlaced(wiring, Rest(q))
<1>1. \A p \in Queue : /\ pending[p] \in Seq(RangeOf(pending[p]))
                       /\ \A f \in RangeOf(pending[p]) : MayBeIn(wiring, p, f)
  BY DEF FramesPlaced
<1>2. /\ Head(pending[q]) \in RangeOf(pending[q])
      /\ RangeOf(Tail(pending[q])) \subseteq RangeOf(pending[q])
      /\ Tail(pending[q]) \in Seq(RangeOf(Tail(pending[q])))
  BY <1>1, TailSeq
<1>3. MayBeIn(wiring, q, Head(pending[q])) BY <1>1, <1>2
<1>4. pending = [p \in Queue |-> pending[p]] BY DEF FramesPlaced
<1>5. /\ Rest(q) = [p \in Queue |-> Rest(q)[p]]
      /\ \A p \in Queue : Rest(q)[p] = IF p = q THEN Tail(pending[p]) ELSE pending[p]
  BY <1>4 DEF Rest
<1>6. ASSUME NEW p \in Queue
      PROVE  /\ Rest(q)[p] \in Seq(RangeOf(Rest(q)[p]))
             /\ \A f \in RangeOf(Rest(q)[p]) : MayBeIn(wiring, p, f)
  <2>1. CASE p = q BY <1>1, <1>2, <1>5, <2>1
  <2>2. CASE p # q BY <1>1, <1>5, <2>2
  <2> QED BY <2>1, <2>2
<1>7. FramesPlaced(wiring, Rest(q)) BY <1>5, <1>6 DEF FramesPlaced
<1> QED BY <1>3, <1>7

\* A node's frame is fresh on the halves that its interface writes on.
LEMMA NodeSendsPlaces ==
  ASSUME TransitInv, NEW i \in Interface, NEW size, NEW to, NodeSends(i, size, to)
  PROVE  FramesPlaced(wiring, pending')
<1> DEFINE f == [from |-> i, fresh |-> TRUE, to |-> to, size |-> size, ready |-> 0]
           ms == CurrentMs
<1>1. PICK takers \in Takers(wiring.sendsOn[i], f) : pending' = Enqueued(pending, takers, f, ms)
  BY DEF NodeSends
<1>2. takers \subseteq RangeOf(wiring.sendsOn[i]) BY <1>1 DEF Takers
<1>3. wiring.sendsOn[i] \in Seq(Half) BY DEF TransitInv, Sound, Wiring
<1>4. RangeOf(wiring.sendsOn[i]) \subseteq Half BY <1>3, RangeOfSeq
<1>5. IsFrame(f) /\ f.fresh /\ f.from = i BY DEF IsFrame
<1> HIDE DEF f, ms
<1>6. \A q \in takers \cap Queue : MayBeIn(wiring, q, f)
  BY <1>2, <1>4, <1>5, MapAssumption DEF MayBeIn
<1> QED BY <1>1, <1>6, EnqueuePlaces DEF TransitInv

\* A frame that a link has propagated has the same sender and addressees.
LEMMA ForwardFrame ==
  ASSUME NEW f, IsFrame(f)
  PROVE  IsFrame(Forward(f)) /\ Forward(f).from = f.from /\ ~Forward(f).fresh /\ Forward(f).to = f.to
<1> DEFINE g == [from |-> f.from, fresh |-> FALSE, to |-> f.to, size |-> f.size, ready |-> f.ready]
<1>1. Forward(f) = g
  <2>1. PICK i, b, t, n, r : f = [from |-> i, fresh |-> b, to |-> t, size |-> n, ready |-> r]
    BY DEF IsFrame
  <2>2. ASSUME NEW x
        PROVE  [[from |-> i, fresh |-> b, to |-> t, size |-> n, ready |-> r] EXCEPT !.fresh = x]
                 = [from |-> i, fresh |-> x, to |-> t, size |-> n, ready |-> r]
    OBVIOUS
  <2>3. Forward([from |-> i, fresh |-> b, to |-> t, size |-> n, ready |-> r])
          = [from |-> i, fresh |-> FALSE, to |-> t, size |-> n, ready |-> r]
    BY <2>2, Zenon DEF Forward
  <2> QED BY <2>1, <2>3
<1>2. g.from = f.from /\ ~g.fresh /\ g.to = f.to OBVIOUS
<1>3. IsFrame(g) BY DEF IsFrame
<1> QED BY <1>1, <1>2, <1>3

\* A half shows its first frame to who hears it, and a fresh one to the bridged halves.
LEMMA LinkPropagatesPlaces ==
  ASSUME TransitInv, LinkPropagates
  PROVE  FramesPlaced(wiring, pending')
<1> DEFINE h == Served
           f == Head(pending[h])
           ms == HandlerClock \div TicksPerMs
           targets == Receivers(h, f)
<1>1. h \in Half /\ pending[h] # <<>> BY DEF LinkPropagates
<1>2. PICK takers \in Takers(targets, f) :
        pending' = Enqueued(Rest(h), takers, Forward(f), ms)
  BY DEF LinkPropagates
<1> HIDE DEF h, ms
<1>3. h \in Queue BY <1>1 DEF Queue
<1>4. MayBeIn(wiring, h, f) /\ FramesPlaced(wiring, Rest(h))
  BY <1>1, <1>3, RestPlaces DEF TransitInv
<1> HIDE DEF f
<1>5. /\ wiring.hears[h] \in Seq(Interface) /\ wiring.bridges[h] \in Seq(Half)
      /\ \A i \in Interface : wiring.sendsOn[i] \in Seq(Half)
  BY <1>1 DEF TransitInv, Sound, Wiring
<1>6. \A q \in takers : q \in RangeOf(targets) /\ Accepts(q, f) BY <1>2 DEF Takers
<1>7. RangeOf(targets) \subseteq RangeOf(wiring.hears[h])
                                   \cup (IF f.fresh THEN RangeOf(wiring.bridges[h]) ELSE {})
  <2>1. CASE f.fresh BY <1>5, <2>1, RangeOfConcat DEF Receivers
  <2>2. CASE ~f.fresh BY <1>5, <2>2 DEF Receivers
  <2> QED BY <2>1, <2>2
<1> HIDE DEF targets
<1>8. RangeOf(wiring.hears[h]) \subseteq Interface /\ RangeOf(wiring.bridges[h]) \subseteq Half
  BY <1>5, RangeOfSeq
<1> DEFINE g == Forward(f)
<1>9. IsFrame(f) BY <1>4 DEF MayBeIn
<1>10. IsFrame(g) /\ g.from = f.from /\ ~g.fresh /\ g.to = f.to BY <1>9, ForwardFrame
<1> HIDE DEF g
<1>11. h \in CarriedOn(wiring, f.from) BY <1>1, <1>4 DEF MayBeIn, CarriedOn
<1>12. f.fresh => RangeOf(wiring.bridges[h]) \subseteq CarriedOn(wiring, f.from)
  BY <1>1, <1>4 DEF MayBeIn, CarriedOn
<1>13. ASSUME NEW q \in takers \cap Queue
       PROVE  MayBeIn(wiring, q, g)
  <2>1. CASE q \in Half
    <3>1. q \notin Interface BY <2>1, MapAssumption
    <3>2. f.fresh /\ q \in RangeOf(wiring.bridges[h]) BY <1>6, <1>7, <1>8, <3>1
    <3> QED BY <1>10, <1>12, <3>1, <3>2 DEF MayBeIn
  <2>2. CASE q \in Interface
    <3>1. q \notin Half BY <2>2, MapAssumption
    <3>2. q \in RangeOf(wiring.hears[h]) BY <1>6, <1>7, <1>8, <3>1
    <3>3. q \in f.to BY <1>6, <2>2 DEF Accepts
    <3> QED BY <1>10, <1>11, <3>1, <3>2, <3>3 DEF MayBeIn
  <2> QED BY <2>1, <2>2 DEF Queue
<1>14. FramesPlaced(wiring, Enqueued(Rest(h), takers, g, ms))
  BY <1>4, <1>13, EnqueuePlaces
<1> QED BY <1>2, <1>14 DEF g

\* A new map satisfies the invariant of the transit.
LEMMA TransitInitial ==
  ASSUME Init
  PROVE  TransitInv
<1>1. Sound(wiring) BY UnwiredSound DEF Init
<1>2. script \in Seq(Step) BY MapAssumption DEF Init
<1>3. pending = [q \in Queue |-> <<>>] BY DEF Init
<1>4. RangeOf(<<>>) = {} BY DEF RangeOf
<1>5. FramesPlaced(wiring, pending) BY <1>3, <1>4 DEF FramesPlaced
<1> QED BY <1>1, <1>2, <1>3, <1>5 DEF TransitInv

\* Every step of the map keeps the invariant of the transit.
LEMMA TransitStep ==
  ASSUME TransitInv, [Next]_vars
  PROVE  TransitInv'
<1>1. CASE Connect
  <2>1. /\ script # <<>> /\ Possible(wiring, Head(script))
        /\ wiring' = Connected(wiring, Head(script))
        /\ script' = Tail(script) /\ pending' = pending
    BY <1>1 DEF Connect
  <2>2. Head(script) \in Step /\ Tail(script) \in Seq(Step) BY <2>1 DEF TransitInv
  <2>3. Sound(wiring') BY <2>1, <2>2, ConnectionSound DEF TransitInv
  <2>4. \A q \in Queue : pending[q] = <<>> BY <2>1 DEF TransitInv
  <2>5. ASSUME NEW q \in Queue
        PROVE  /\ pending[q] \in Seq(RangeOf(pending[q]))
               /\ \A f \in RangeOf(pending[q]) : MayBeIn(wiring', q, f)
    <3>1. RangeOf(<<>>) = {} /\ <<>> \in Seq({}) BY DEF RangeOf
    <3>2. RangeOf(pending[q]) = {} /\ pending[q] \in Seq({}) BY <2>4, <3>1
    <3> QED BY <3>2
  <2>6. pending = [q \in Queue |-> pending[q]] BY DEF TransitInv, FramesPlaced
  <2>7. FramesPlaced(wiring', pending) BY <2>5, <2>6 DEF FramesPlaced
  <2> QED BY <2>1, <2>2, <2>3, <2>4, <2>7 DEF TransitInv
<1>2. ASSUME NEW i \in Interface, NEW size, NEW to, NodeSends(i, size, to)
      PROVE  TransitInv'
  <2>1. FramesPlaced(wiring, pending') BY <1>2, NodeSendsPlaces
  <2>2. script = <<>> /\ UNCHANGED <<script, wiring>> BY <1>2 DEF NodeSends, Running
  <2> QED BY <2>1, <2>2 DEF TransitInv
<1>3. CASE LinkPropagates
  <2>1. FramesPlaced(wiring, pending') BY <1>3, LinkPropagatesPlaces
  <2>2. UNCHANGED <<script, wiring>> BY <1>3 DEF LinkPropagates
  <2>3. script = <<>> BY <1>3 DEF LinkPropagates, TransitInv, Queue
  <2> QED BY <2>1, <2>2, <2>3 DEF TransitInv
<1>4. CASE InterfaceForwards
  <2>1. Served \in Queue /\ pending[Served] # <<>> /\ pending' = Rest(Served)
    BY <1>4 DEF InterfaceForwards, Queue
  <2>2. FramesPlaced(wiring, pending') BY <2>1, RestPlaces DEF TransitInv
  <2>3. UNCHANGED <<script, wiring>> BY <1>4 DEF InterfaceForwards
  <2>4. script = <<>> BY <2>1 DEF TransitInv
  <2> QED BY <2>2, <2>3, <2>4 DEF TransitInv
<1>5. CASE UNCHANGED <<script, wiring, pending>> BY <1>5 DEF TransitInv
<1>6. ASSUME Refuse \/ (\E l \in Switched, up \in BOOLEAN : TurnLink(l, up)) \/ TimePasses
               \/ UNCHANGED vars
      PROVE  UNCHANGED <<script, wiring, pending>>
  BY <1>6 DEF Refuse, TurnLink, TimePasses, vars, transitVars
<1> QED BY <1>1, <1>2, <1>3, <1>4, <1>5, <1>6 DEF Next

\* The invariant holds in every reachable state.
THEOREM TransitInvariance == Spec => []TransitInv
<1>1. Init => TransitInv BY TransitInitial
<1>2. TransitInv /\ [Next]_vars => TransitInv' BY TransitStep
<1> QED BY <1>1, <1>2, PTL DEF Spec

\* In any order of connections, no half of an 802.3 link has two writers (LinkPointToPoint.h),
\* and a frame is only where its sender's halves and one bridge lead (Link.cpp).
THEOREM FramesKept == Spec => []FramesKeepToTheirWay
<1>1. TransitInv => OneClientWrites BY ExclusiveWrites DEF TransitInv
<1>2. ASSUME TransitInv PROVE OneBridgeOnly
  <2>1. \A q \in Queue : \A f \in RangeOf(pending[q]) : MayBeIn(wiring, q, f)
    BY <1>2 DEF TransitInv, FramesPlaced
  <2> QED BY <2>1 DEF OneBridgeOnly, MayBeIn, CarriedOn, Audible, Queue
<1>3. TransitInv => FramesKeepToTheirWay BY <1>1, <1>2 DEF FramesKeepToTheirWay
<1> QED BY <1>3, TransitInvariance, PTL

(***************************************************************************)
(* The queues.                                                             *)
(* The invariant is QueuesInv: beside the scheduler's own it says that a   *)
(* queue's frames are in the order of their times, that for each of them   *)
(* there is an event of that queue at that time (as many events as frames), *)
(* that the bytes a half counts are the sum of the sizes it holds, and that *)
(* nothing in a queue is promised later than its half is reserved. That    *)
(* needs the wiring: a receiver is in a list once, or it would get a frame *)
(* twice, and a half does not feed itself.                                 *)
(***************************************************************************)

-----------------------------------------------------------------------------
(* Nobody is connected twice. *)

HeardBy(w, h, i) == i \in RangeOf(w.hears[h])

\* Whoever a queue hands frames to is in its list once, and it is not there itself.
NoRepeats(w) ==
  /\ \A h \in Half : IsInjective(w.hears[h]) /\ IsInjective(w.bridges[h]) /\ ~BridgedTo(w, h, h)
  /\ \A i \in Interface : IsInjective(w.sendsOn[i])

\* Nobody hears what a client yet to come will read.
SilentYet(w) ==
  \A l \in Link \ CsmaCd : \A n \in 0..1 : w.clients[l] <= n => w.hears[ReadHalf(l, n)] = <<>>

\* What is still to be connected to a CSMA/CD link is not connected.
NotYet(w, steps) ==
  \A n \in DOMAIN steps : \A l \in CsmaCd :
    /\ \A i \in Interface : steps[n] = PlugStep(l, i) =>
         ~SendsOnHalf(w, i, Whole(l)) /\ ~HeardBy(w, Whole(l), i)
    /\ \A g \in Half : Carries(steps[n], LinkOf(g), l) => ~BridgedTo(w, g, Whole(l))

\* No client yet to come will read g.
ReadAlready(w, g) ==
  \A l \in Link \ CsmaCd : \A n \in 0..1 : w.clients[l] <= n => ReadHalf(l, n) # g

OnceWired(w, steps) ==
  Sound(w) /\ NoRepeats(w) /\ SilentYet(w) /\ NotYet(w, steps) /\ ConnectsOnce(steps)

\* Appending a new element to a list without repeats repeats nothing.
LEMMA AppendInjective ==
  ASSUME NEW S, NEW s \in Seq(S), IsInjective(s), NEW x, x \notin RangeOf(s)
  PROVE  IsInjective(Append(s, x))
<1>1. /\ Len(s) \in Nat /\ DOMAIN s = 1..Len(s)
      /\ DOMAIN Append(s, x) = 1..Len(s) + 1
      /\ Append(s, x)[Len(s) + 1] = x
      /\ \A k \in DOMAIN s : Append(s, x)[k] = s[k]
  OBVIOUS
<1>2. \A k \in DOMAIN s : s[k] # x BY DEF RangeOf
<1> QED BY <1>1, <1>2 DEF IsInjective

\* Counting a client leaves the three lists of a wiring alone.
LEMMA CountedLists ==
  ASSUME NEW w \in Wiring, NEW l \in Link
  PROVE  Count(w, l).hears = w.hears /\ Count(w, l).bridges = w.bridges /\ Count(w, l).sendsOn = w.sendsOn
<1>1. CASE l \in CsmaCd BY <1>1 DEF Count
<1>2. CASE l \notin CsmaCd
  <2>1. PICK c \in Clients, a \in Hearing, b \in Bridging, s \in Sending : w = WiringOf(c, a, b, s)
    BY WiringByParts
  <2> DEFINE d == [c EXCEPT ![l] = @ + 1]
  <2>2. Count(w, l) = WiringOf(d, a, b, s) BY <1>2, <2>1, CountOfParts
  <2> HIDE DEF d
  <2> QED BY <2>1, <2>2, PartsOfWiring
<1> QED BY <1>1, <1>2

\* Bridging appends to the list of one half and leaves all else alone.
LEMMA BridgedLists ==
  ASSUME NEW w \in Wiring, NEW g \in Half, NEW h \in Half, NEW v, v = Bridge(w, g, h)
  PROVE  /\ v.clients = w.clients /\ v.hears = w.hears /\ v.sendsOn = w.sendsOn
         /\ \A f \in Half : v.bridges[f] = IF f = g THEN Append(w.bridges[f], h) ELSE w.bridges[f]
<1>1. PICK c \in Clients, a \in Hearing, b \in Bridging, s \in Sending : w = WiringOf(c, a, b, s)
  BY WiringByParts
<1> DEFINE d == [b EXCEPT ![g] = Append(@, h)]
<1>2. v = WiringOf(c, a, d, s) BY <1>1, BridgeOfParts
<1>3. \A f \in Half : d[f] = IF f = g THEN Append(b[f], h) ELSE b[f] BY DEF Bridging
<1> HIDE DEF d
<1>4. w.clients = c /\ w.hears = a /\ w.bridges = b /\ w.sendsOn = s BY <1>1, PartsOfWiring
<1>5. v.clients = c /\ v.hears = a /\ v.bridges = d /\ v.sendsOn = s BY <1>2, PartsOfWiring
<1> QED BY <1>3, <1>4, <1>5

\* Plugging appends to one half's listeners and to one interface's ways out, no more.
LEMMA PluggedLists ==
  ASSUME NEW w \in Wiring, NEW i \in Interface, NEW g \in Half, NEW h \in Half,
         NEW v, v = SendOn(Hear(w, g, i), i, h)
  PROVE  /\ v.clients = w.clients /\ v.bridges = w.bridges
         /\ \A f \in Half : v.hears[f] = IF f = g THEN Append(w.hears[f], i) ELSE w.hears[f]
         /\ \A j \in Interface : v.sendsOn[j] = IF j = i THEN Append(w.sendsOn[j], h) ELSE w.sendsOn[j]
<1>1. PICK c \in Clients, a \in Hearing, b \in Bridging, s \in Sending : w = WiringOf(c, a, b, s)
  BY WiringByParts
<1> DEFINE d == [a EXCEPT ![g] = Append(@, i)]
           t == [s EXCEPT ![i] = Append(@, h)]
<1>2. Hear(w, g, i) = WiringOf(c, d, b, s) BY <1>1, HearOfParts
<1>3. v = WiringOf(c, d, b, t) BY <1>2, SendOnOfParts
<1>4. /\ \A f \in Half : d[f] = IF f = g THEN Append(a[f], i) ELSE a[f]
      /\ \A j \in Interface : t[j] = IF j = i THEN Append(s[j], h) ELSE s[j]
  BY DEF Hearing, Sending
<1> HIDE DEF d, t
<1>5. w.clients = c /\ w.hears = a /\ w.bridges = b /\ w.sendsOn = s BY <1>1, PartsOfWiring
<1>6. v.clients = c /\ v.hears = d /\ v.bridges = b /\ v.sendsOn = t BY <1>3, PartsOfWiring
<1> QED BY <1>4, <1>5, <1>6

\* Another client is counted.
LEMMA CountOnce ==
  ASSUME NEW w \in Wiring, NoRepeats(w), SilentYet(w), Spare(w), NEW l \in Link, NEW v, v = Count(w, l)
  PROVE  /\ v \in Wiring /\ NoRepeats(v) /\ SilentYet(v)
         /\ \A steps : NotYet(w, steps) => NotYet(v, steps)
         /\ \A g, h \in Half : BridgedTo(v, g, h) <=> BridgedTo(w, g, h)
<1>1. v.hears = w.hears /\ v.bridges = w.bridges /\ v.sendsOn = w.sendsOn BY CountedLists
<1>2. v \in Wiring /\ v.clients = IF l \in CsmaCd THEN w.clients ELSE [w.clients EXCEPT ![l] = @ + 1]
  BY Counted
<1>3. \A k \in Link : w.clients[k] \in Nat /\ w.clients[k] <= v.clients[k] BY <1>2 DEF Wiring
<1>4. NoRepeats(v) BY <1>1 DEF NoRepeats, BridgedTo
<1>5. SilentYet(v)
  <2> SUFFICES ASSUME NEW k \in Link \ CsmaCd, NEW n \in 0..1, v.clients[k] <= n
               PROVE  v.hears[ReadHalf(k, n)] = <<>>
    BY DEF SilentYet
  <2>1. w.clients[k] \in Nat /\ v.clients[k] \in Nat BY <1>2, <1>3 DEF Wiring
  <2>2. w.clients[k] <= n BY <1>3, <2>1
  <2> QED BY <1>1, <2>2 DEF SilentYet
<1>6. \A steps : NotYet(w, steps) => NotYet(v, steps)
  BY <1>1 DEF NotYet, SendsOnHalf, HeardBy, BridgedTo
<1> QED BY <1>1, <1>2, <1>4, <1>5, <1>6 DEF BridgedTo

\* A bridge that is not there yet is made without a repeat, and spoils no connection to come.
LEMMA BridgeOnce ==
  ASSUME NEW w \in Wiring, NoRepeats(w), SilentYet(w), NEW g \in Half, NEW h \in Half,
         g # h, ~BridgedTo(w, g, h), NEW v, v = Bridge(w, g, h)
  PROVE  /\ v \in Wiring /\ NoRepeats(v) /\ SilentYet(v)
         /\ \A f, x \in Half : BridgedTo(v, f, x) <=> BridgedTo(w, f, x) \/ (f = g /\ x = h)
         /\ \A steps : NotYet(w, steps)
              /\ (\A n \in DOMAIN steps : \A l \in CsmaCd :
                    h = Whole(l) => ~Carries(steps[n], LinkOf(g), l))
              => NotYet(v, steps)
<1>1. /\ v.clients = w.clients /\ v.hears = w.hears /\ v.sendsOn = w.sendsOn
      /\ \A f \in Half : v.bridges[f] = IF f = g THEN Append(w.bridges[f], h) ELSE w.bridges[f]
  BY BridgedLists
<1>2. v \in Wiring /\ \A f, x \in Half : BridgedTo(v, f, x) <=> BridgedTo(w, f, x) \/ (f = g /\ x = h)
  BY Bridged
<1>3. IsInjective(Append(w.bridges[g], h))
  <2>1. w.bridges[g] \in Seq(Half) BY DEF Wiring
  <2> QED BY <2>1, AppendInjective DEF NoRepeats, BridgedTo
<1>4. NoRepeats(v)
  <2>1. \A f \in Half : IsInjective(v.hears[f]) /\ IsInjective(v.bridges[f]) /\ ~BridgedTo(v, f, f)
    BY <1>1, <1>2, <1>3 DEF NoRepeats
  <2> QED BY <1>1, <2>1 DEF NoRepeats
<1>5. SilentYet(v) BY <1>1 DEF SilentYet
<1>6. ASSUME NEW steps, NotYet(w, steps),
             \A n \in DOMAIN steps : \A l \in CsmaCd :
               h = Whole(l) => ~Carries(steps[n], LinkOf(g), l)
      PROVE  NotYet(v, steps)
  <2> SUFFICES ASSUME NEW n \in DOMAIN steps, NEW l \in CsmaCd
               PROVE  /\ \A i \in Interface : steps[n] = PlugStep(l, i) =>
                           ~SendsOnHalf(v, i, Whole(l)) /\ ~HeardBy(v, Whole(l), i)
                      /\ \A f \in Half : Carries(steps[n], LinkOf(f), l) => ~BridgedTo(v, f, Whole(l))
    BY DEF NotYet
  <2>1. Whole(l) \in Half BY LinksAssumption DEF Half, Halves
  <2>2. \A i \in Interface : steps[n] = PlugStep(l, i) =>
          ~SendsOnHalf(v, i, Whole(l)) /\ ~HeardBy(v, Whole(l), i)
    BY <1>1, <1>6 DEF NotYet, SendsOnHalf, HeardBy
  <2>3. ASSUME NEW f \in Half, Carries(steps[n], LinkOf(f), l) PROVE ~BridgedTo(v, f, Whole(l))
    <3>1. ~BridgedTo(w, f, Whole(l)) BY <1>6, <2>3 DEF NotYet
    <3>2. ~(f = g /\ Whole(l) = h) BY <1>6, <2>3
    <3> QED BY <1>2, <2>1, <3>1, <3>2
  <2> QED BY <2>2, <2>3
<1> QED BY <1>2, <1>4, <1>5, <1>6

\* A plug that is not there yet is made without a repeat, and spoils no connection to come.
LEMMA PlugOnce ==
  ASSUME NEW w \in Wiring, NoRepeats(w), NEW i \in Interface, NEW g \in Half, NEW h \in Half,
         ~HeardBy(w, g, i), ~SendsOnHalf(w, i, h), NEW v, v = SendOn(Hear(w, g, i), i, h),
         SilentYet(w), ReadAlready(w, g)
  PROVE  /\ v \in Wiring /\ NoRepeats(v) /\ SilentYet(v)
         /\ \A steps : NotYet(w, steps)
              /\ (\A n \in DOMAIN steps : \A l \in CsmaCd :
                    (g = Whole(l) \/ h = Whole(l)) => steps[n] # PlugStep(l, i))
              => NotYet(v, steps)
<1>1. /\ v.clients = w.clients /\ v.bridges = w.bridges
      /\ \A f \in Half : v.hears[f] = IF f = g THEN Append(w.hears[f], i) ELSE w.hears[f]
      /\ \A j \in Interface : v.sendsOn[j] = IF j = i THEN Append(w.sendsOn[j], h) ELSE w.sendsOn[j]
  BY PluggedLists
<1>2. v \in Wiring BY Plugged
<1>3. w.hears[g] \in Seq(Interface) /\ w.sendsOn[i] \in Seq(Half) BY DEF Wiring
<1>4. /\ IsInjective(Append(w.hears[g], i)) /\ RangeOf(Append(w.hears[g], i)) = RangeOf(w.hears[g]) \cup {i}
  BY <1>3, AppendInjective, RangeOfAppend DEF NoRepeats, HeardBy
<1>5. /\ IsInjective(Append(w.sendsOn[i], h)) /\ RangeOf(Append(w.sendsOn[i], h)) = RangeOf(w.sendsOn[i]) \cup {h}
  BY <1>3, AppendInjective, RangeOfAppend DEF NoRepeats, SendsOnHalf
<1>6. NoRepeats(v)
  <2>1. \A f \in Half : IsInjective(v.hears[f]) BY <1>1, <1>4 DEF NoRepeats
  <2>2. \A j \in Interface : IsInjective(v.sendsOn[j]) BY <1>1, <1>5 DEF NoRepeats
  <2> QED BY <1>1, <2>1, <2>2 DEF NoRepeats, BridgedTo
<1>7. SilentYet(v)
  <2> SUFFICES ASSUME NEW l \in Link \ CsmaCd, NEW n \in 0..1, v.clients[l] <= n
               PROVE  v.hears[ReadHalf(l, n)] = <<>>
    BY DEF SilentYet
  <2>1. ReadHalf(l, n) \in Half BY HalfOfLink
  <2> QED BY <1>1, <2>1 DEF SilentYet, ReadAlready
<1>8. \A f \in Half, j \in Interface : HeardBy(v, f, j) => HeardBy(w, f, j) \/ (f = g /\ j = i)
  BY <1>1, <1>4 DEF HeardBy
<1>9. \A f \in Half, j \in Interface : SendsOnHalf(v, j, f) => SendsOnHalf(w, j, f) \/ (f = h /\ j = i)
  BY <1>1, <1>5 DEF SendsOnHalf
<1>10. ASSUME NEW steps, NotYet(w, steps),
              \A n \in DOMAIN steps : \A l \in CsmaCd :
                (g = Whole(l) \/ h = Whole(l)) => steps[n] # PlugStep(l, i)
       PROVE  NotYet(v, steps)
  <2> SUFFICES ASSUME NEW n \in DOMAIN steps, NEW l \in CsmaCd
               PROVE  /\ \A j \in Interface : steps[n] = PlugStep(l, j) =>
                           ~SendsOnHalf(v, j, Whole(l)) /\ ~HeardBy(v, Whole(l), j)
                      /\ \A f \in Half : Carries(steps[n], LinkOf(f), l) => ~BridgedTo(v, f, Whole(l))
    BY DEF NotYet
  <2>1. Whole(l) \in Half BY LinksAssumption DEF Half, Halves
  <2>2. \A f \in Half : Carries(steps[n], LinkOf(f), l) => ~BridgedTo(v, f, Whole(l))
    BY <1>1, <1>10 DEF NotYet, BridgedTo
  <2>3. ASSUME NEW j \in Interface, steps[n] = PlugStep(l, j)
        PROVE  ~SendsOnHalf(v, j, Whole(l)) /\ ~HeardBy(v, Whole(l), j)
    <3>1. ~SendsOnHalf(w, j, Whole(l)) /\ ~HeardBy(w, Whole(l), j) BY <1>10, <2>3 DEF NotYet
    <3>2. j = i => g # Whole(l) /\ h # Whole(l) BY <1>10, <2>3
    <3> QED BY <1>8, <1>9, <2>1, <3>1, <3>2
  <2> QED BY <2>2, <2>3
<1> QED BY <1>2, <1>6, <1>7, <1>10

\* What is left to connect after the next tag is again connected once, and is not the same.
LEMMA TailOnce ==
  ASSUME NEW steps \in Seq(Step), steps # <<>>, ConnectsOnce(steps)
  PROVE  /\ Head(steps) \in Step /\ 1 \in DOMAIN steps /\ steps[1] = Head(steps)
         /\ Tail(steps) \in Seq(Step) /\ ConnectsOnce(Tail(steps))
         /\ Head(steps).do = "bridge" => Head(steps).from # Head(steps).to
         /\ \A n \in DOMAIN Tail(steps) : \A l \in CsmaCd :
              /\ \A i \in Interface : Head(steps) = PlugStep(l, i) => Tail(steps)[n] # PlugStep(l, i)
              /\ \A k \in Link : Carries(Head(steps), k, l) => ~Carries(Tail(steps)[n], k, l)
         /\ \A w : NotYet(w, steps) => NotYet(w, Tail(steps))
<1>1. /\ Len(steps) \in Nat \ {0} /\ DOMAIN steps = 1..Len(steps) /\ Head(steps) = steps[1]
      /\ Tail(steps) \in Seq(Step) /\ DOMAIN Tail(steps) = 1..Len(steps) - 1
      /\ \A n \in DOMAIN Tail(steps) : Tail(steps)[n] = steps[n + 1]
  OBVIOUS
<1>2. \A n \in DOMAIN Tail(steps) : n + 1 \in DOMAIN steps /\ n + 1 # 1 BY <1>1
<1>3. 1 \in DOMAIN steps /\ Head(steps) \in Step BY <1>1
<1>4. ConnectsOnce(Tail(steps))
  <2>1. \A n \in DOMAIN Tail(steps) : Tail(steps)[n].do = "bridge" => Tail(steps)[n].from # Tail(steps)[n].to
    BY <1>1, <1>2 DEF ConnectsOnce
  <2>2. \A m, n \in DOMAIN Tail(steps) : m # n => m + 1 # n + 1 BY <1>1
  <2>3. ASSUME NEW m \in DOMAIN Tail(steps), NEW n \in DOMAIN Tail(steps), m # n
        PROVE  /\ \A l \in CsmaCd, i \in Interface :
                    ~(Tail(steps)[m] = PlugStep(l, i) /\ Tail(steps)[n] = PlugStep(l, i))
               /\ \A k \in Link, l \in CsmaCd :
                    ~(Carries(Tail(steps)[m], k, l) /\ Carries(Tail(steps)[n], k, l))
    BY <1>1, <1>2, <2>2, <2>3 DEF ConnectsOnce
  <2> QED BY <2>1, <2>3 DEF ConnectsOnce
<1>5. Head(steps).do = "bridge" => Head(steps).from # Head(steps).to BY <1>1, <1>3 DEF ConnectsOnce
<1>6. ASSUME NEW n \in DOMAIN Tail(steps), NEW l \in CsmaCd
      PROVE  /\ \A i \in Interface : Head(steps) = PlugStep(l, i) => Tail(steps)[n] # PlugStep(l, i)
             /\ \A k \in Link : Carries(Head(steps), k, l) => ~Carries(Tail(steps)[n], k, l)
  BY <1>1, <1>2, <1>3 DEF ConnectsOnce
<1>7. \A w : NotYet(w, steps) => NotYet(w, Tail(steps)) BY <1>1, <1>2 DEF NotYet
<1> QED BY <1>1, <1>3, <1>4, <1>5, <1>6, <1>7

\* The halves that a client reads and writes
LEMMA ReadsSpare ==
  ASSUME NEW w \in Wiring, Sound(w), NEW l \in Link, HasRoom(w, l)
  PROVE  /\ l \in CsmaCd => /\ ReadHalf(l, w.clients[l]) = Whole(l)
                            /\ WriteHalf(l, w.clients[l]) = Whole(l)
         /\ l \notin CsmaCd =>
              /\ w.clients[l] \in 0..1
              /\ \A g \in Half : ~BridgedTo(w, g, WriteHalf(l, w.clients[l]))
              /\ \A i \in Interface : ~SendsOnHalf(w, i, WriteHalf(l, w.clients[l]))
              /\ SilentYet(w) => \A i \in Interface : ~HeardBy(w, ReadHalf(l, w.clients[l]), i)
<1>1. l \in CsmaCd => /\ ReadHalf(l, w.clients[l]) = Whole(l)
                      /\ WriteHalf(l, w.clients[l]) = Whole(l)
  BY DEF ReadHalf, WriteHalf
<1>2. ASSUME l \notin CsmaCd
      PROVE  /\ w.clients[l] \in 0..1
             /\ FedBy(w, WriteHalf(l, w.clients[l]), {})
             /\ SilentYet(w) => w.hears[ReadHalf(l, w.clients[l])] = <<>>
  <2>1. w.clients[l] \in 0..1 /\ FedBy(w, WriteHalf(l, w.clients[l]), {})
    BY <1>2, NextHalfUnused DEF Sound
  <2>2. l \in Link \ CsmaCd /\ w.clients[l] <= w.clients[l] BY <1>2, <2>1
  <2>3. SilentYet(w) => w.hears[ReadHalf(l, w.clients[l])] = <<>> BY <2>1, <2>2 DEF SilentYet
  <2> QED BY <2>1, <2>3
<1> QED BY <1>1, <1>2 DEF FedBy, HeardBy, RangeOf

\* An 802.3 link's half is the reading half of one client.
LEMMA ReadersDiffer ==
  ASSUME NEW l \in Link, NEW k \in Link \ CsmaCd, NEW m \in Nat, NEW n \in 0..1,
         ReadHalf(k, n) = ReadHalf(l, m), l \notin CsmaCd => m \in 0..1
  PROVE  k = l /\ n = m
BY DEF ReadHalf, Whole, Up, Down

\* The plug that comes next in the list of connections is a new one.
LEMMA PlugOnceWired ==
  ASSUME NEW w, NEW steps \in Seq(Step), steps # <<>>, OnceWired(w, steps),
         NEW l \in Link, NEW i \in Interface, Head(steps) = PlugStep(l, i), HasRoom(w, l)
  PROVE  OnceWired(ConnectToInterface(w, l, i), Tail(steps))
<1> DEFINE n == w.clients[l]
           c == Count(w, l)
           g == ReadHalf(l, n)
           h == WriteHalf(l, n)
           v == SendOn(Hear(c, g, i), i, h)
<1>1. w \in Wiring /\ Sound(w) /\ Spare(w) /\ NoRepeats(w) /\ SilentYet(w) /\ NotYet(w, steps)
      /\ ConnectsOnce(steps)
  BY DEF OnceWired, Sound
<1>2. n \in Nat BY <1>1 DEF Wiring
<1>3. g \in Half /\ h \in Half /\ LinkOf(g) = l /\ LinkOf(h) = l BY <1>2, HalfOfLink
<1>4. /\ c \in Wiring /\ NoRepeats(c) /\ SilentYet(c) /\ NotYet(c, steps)
      /\ c.hears = w.hears /\ c.sendsOn = w.sendsOn
      /\ c.clients = IF l \in CsmaCd THEN w.clients ELSE [w.clients EXCEPT ![l] = @ + 1]
  BY <1>1, CountOnce, CountedLists, Counted
<1>5. ~HeardBy(w, g, i) /\ ~SendsOnHalf(w, i, h)
  <2>1. CASE l \in CsmaCd
    <3>1. g = Whole(l) /\ h = Whole(l) BY <1>1, <2>1, ReadsSpare
    <3>2. 1 \in DOMAIN steps /\ steps[1] = PlugStep(l, i) BY <1>1, TailOnce
    <3> QED BY <1>1, <2>1, <3>1, <3>2 DEF NotYet
  <2>2. CASE l \notin CsmaCd BY <1>1, <2>2, ReadsSpare
  <2> QED BY <2>1, <2>2
<1>6. ~HeardBy(c, g, i) /\ ~SendsOnHalf(c, i, h) BY <1>4, <1>5 DEF HeardBy, SendsOnHalf
<1>7. ASSUME NEW k \in Link \ CsmaCd, NEW m \in 0..1, c.clients[k] <= m
      PROVE  ReadHalf(k, m) # g
  <2>1. ASSUME ReadHalf(k, m) = g PROVE FALSE
    <3>1. l \notin CsmaCd => n \in 0..1 BY <1>1, ReadsSpare
    <3>2. k = l /\ m = n BY <1>2, <2>1, <3>1, ReadersDiffer
    <3>3. c.clients[k] = n + 1 BY <1>1, <1>4, <3>2 DEF Wiring
    <3> QED BY <1>2, <1>7, <3>2, <3>3
  <2> QED BY <2>1
<1>8. Sound(ConnectToInterface(w, l, i)) BY <1>1, PlugSound
<1>9. v = ConnectToInterface(w, l, i) BY DEF ConnectToInterface
<1>10. \A k \in CsmaCd : (g = Whole(k) \/ h = Whole(k)) => k = l
  BY <1>3 DEF LinkOf, Whole
<1>11. NotYet(c, Tail(steps)) /\ ConnectsOnce(Tail(steps)) BY <1>1, <1>4, TailOnce
<1>12. \A m \in DOMAIN Tail(steps) : \A k \in CsmaCd :
         (g = Whole(k) \/ h = Whole(k)) => Tail(steps)[m] # PlugStep(k, i)
  BY <1>1, <1>10, TailOnce
<1> HIDE DEF v, g, h, c
<1>13. /\ NoRepeats(v) /\ SilentYet(v)
       /\ \A s : NotYet(c, s)
            /\ (\A m \in DOMAIN s : \A k \in CsmaCd :
                  (g = Whole(k) \/ h = Whole(k)) => s[m] # PlugStep(k, i))
            => NotYet(v, s)
  <2>1. /\ c \in Wiring /\ NoRepeats(c) /\ SilentYet(c) /\ g \in Half /\ h \in Half
        /\ ~HeardBy(c, g, i) /\ ~SendsOnHalf(c, i, h) /\ v = SendOn(Hear(c, g, i), i, h)
        /\ ReadAlready(c, g)
    BY <1>3, <1>4, <1>6, <1>7 DEF v, ReadAlready
  <2> QED BY <2>1, PlugOnce
<1>14. NotYet(v, Tail(steps)) BY <1>11, <1>12, <1>13
<1> QED BY <1>8, <1>9, <1>11, <1>13, <1>14 DEF OnceWired

\* A half of k is not bridged to the half that the next client of l writes on.
LEMMA BridgeIsNew ==
  ASSUME NEW w \in Wiring, Sound(w), NEW l \in Link, HasRoom(w, l), NEW steps, NotYet(w, steps),
         1 \in DOMAIN steps, NEW g \in Half, Carries(steps[1], LinkOf(g), l)
  PROVE  ~BridgedTo(w, g, WriteHalf(l, w.clients[l]))
<1>1. CASE l \in CsmaCd
  <2>1. WriteHalf(l, w.clients[l]) = Whole(l) BY <1>1 DEF WriteHalf
  <2> QED BY <1>1, <2>1 DEF NotYet
<1>2. CASE l \notin CsmaCd BY <1>2, ReadsSpare
<1> QED BY <1>1, <1>2

\* The one-way bridge that comes next in the list of connections is a new one.
LEMMA OneWayOnceWired ==
  ASSUME NEW w, NEW steps \in Seq(Step), steps # <<>>, OnceWired(w, steps),
         NEW k \in Link, NEW l \in Link, Head(steps) = BridgeStep(k, l, FALSE), HasRoom(w, l)
  PROVE  OnceWired(ConnectOneWay(w, k, l), Tail(steps))
<1> DEFINE c == Count(w, l)
           h == WriteHalf(l, w.clients[l])
           s == Tail(steps)
<1>1. w \in Wiring /\ Sound(w) /\ Spare(w) /\ NoRepeats(w) /\ SilentYet(w) /\ NotYet(w, steps)
      /\ ConnectsOnce(steps)
  BY DEF OnceWired, Sound
<1>2. w.clients[l] \in Nat BY <1>1 DEF Wiring
<1>3. h \in Half /\ LinkOf(h) = l BY <1>2, HalfOfLink
<1>4. Head(steps).do = "bridge" /\ Head(steps).from = k /\ Head(steps).to = l BY DEF BridgeStep
<1>5. Carries(Head(steps), k, l) BY <1>4 DEF Carries
<1>6. /\ k # l /\ 1 \in DOMAIN steps /\ Carries(steps[1], k, l) /\ ConnectsOnce(s)
      /\ \A n \in DOMAIN s : \A j \in CsmaCd : Carries(Head(steps), k, j) => ~Carries(s[n], k, j)
  BY <1>1, <1>4, <1>5, TailOnce
<1>7. /\ c \in Wiring /\ NoRepeats(c) /\ SilentYet(c) /\ NotYet(c, s)
      /\ \A g, x \in Half : BridgedTo(c, g, x) <=> BridgedTo(w, g, x)
  BY <1>1, CountOnce, TailOnce
<1>8. \A g \in Half : LinkOf(g) = k => ~BridgedTo(c, g, h) /\ g # h
  BY <1>1, <1>3, <1>6, <1>7, BridgeIsNew
<1>9. \A n \in DOMAIN s : \A j \in CsmaCd : h = Whole(j) => ~Carries(s[n], k, j)
  <2>1. \A j \in CsmaCd : h = Whole(j) => j = l BY <1>3 DEF LinkOf, Whole
  <2> QED BY <1>5, <1>6, <2>1
<1>10. Sound(ConnectOneWay(w, k, l)) BY <1>1, OneWaySound
<1> HIDE DEF c, h, s
<1>11. CASE k \in CsmaCd
  <2> DEFINE v == Bridge(c, Whole(k), h)
  <2>1. Whole(k) \in Half /\ LinkOf(Whole(k)) = k BY <1>11 DEF Half, Halves, Whole, LinkOf
  <2>2. NoRepeats(v) /\ SilentYet(v) /\ NotYet(v, s)
    BY <1>3, <1>7, <1>8, <1>9, <2>1, BridgeOnce
  <2>3. v = ConnectOneWay(w, k, l) BY <1>11 DEF ConnectOneWay, c, h
  <2> HIDE DEF v
  <2> QED BY <1>6, <1>10, <2>2, <2>3 DEF OnceWired, s
<1>12. CASE k \notin CsmaCd
  <2> DEFINE u == Bridge(c, Up(k), h)
             v == Bridge(u, Down(k), h)
  <2>1. /\ Up(k) \in Half /\ LinkOf(Up(k)) = k
        /\ Down(k) \in Half /\ LinkOf(Down(k)) = k /\ Up(k) # Down(k)
    BY <1>12 DEF Half, Halves, Up, Down, LinkOf
  <2>2. /\ u \in Wiring /\ NoRepeats(u) /\ SilentYet(u) /\ NotYet(u, s)
        /\ \A f, x \in Half : BridgedTo(u, f, x) <=> BridgedTo(c, f, x) \/ (f = Up(k) /\ x = h)
    BY <1>3, <1>7, <1>8, <1>9, <2>1, BridgeOnce
  <2> HIDE DEF u
  <2>3. ~BridgedTo(u, Down(k), h) /\ Down(k) # h BY <1>3, <1>8, <2>1, <2>2
  <2>4. NoRepeats(v) /\ SilentYet(v) /\ NotYet(v, s)
    BY <1>3, <1>9, <2>1, <2>2, <2>3, BridgeOnce
  <2>5. v = ConnectOneWay(w, k, l) BY <1>12 DEF ConnectOneWay, c, h, u
  <2> HIDE DEF v
  <2> QED BY <1>6, <1>10, <2>4, <2>5 DEF OnceWired, s
<1> QED BY <1>11, <1>12

\* The two-way bridge that comes next in the list of connections is new both ways.
LEMMA BothWaysOnceWired ==
  ASSUME NEW w, NEW steps \in Seq(Step), steps # <<>>, OnceWired(w, steps),
         NEW k \in Link, NEW l \in Link, Head(steps) = BridgeStep(k, l, TRUE),
         HasRoom(w, k), HasRoom(Count(w, k), l)
  PROVE  OnceWired(ConnectBothWays(w, k, l), Tail(steps))
<1> DEFINE c == Count(w, k)
           d == Count(c, l)
           g == ReadHalf(k, w.clients[k])
           h == WriteHalf(k, w.clients[k])
           e == ReadHalf(l, c.clients[l])
           f == WriteHalf(l, c.clients[l])
           u == Bridge(d, g, f)
           v == Bridge(u, e, h)
           s == Tail(steps)
<1>1. w \in Wiring /\ Sound(w) /\ Exclusive(w) /\ Spare(w) /\ NoRepeats(w) /\ SilentYet(w)
      /\ NotYet(w, steps) /\ ConnectsOnce(steps)
  BY DEF OnceWired, Sound
<1>2. /\ Head(steps).do = "bridge" /\ Head(steps).from = k /\ Head(steps).to = l
      /\ Head(steps).twoway
  BY DEF BridgeStep
<1>3. Carries(Head(steps), k, l) /\ Carries(Head(steps), l, k) BY <1>2 DEF Carries
<1>4. /\ k # l /\ 1 \in DOMAIN steps /\ ConnectsOnce(s)
      /\ Carries(steps[1], k, l) /\ Carries(steps[1], l, k)
      /\ \A n \in DOMAIN s : \A j \in CsmaCd : \A i \in Link :
           Carries(Head(steps), i, j) => ~Carries(s[n], i, j)
  BY <1>1, <1>2, <1>3, TailOnce
<1>5. /\ c \in Wiring /\ NoRepeats(c) /\ SilentYet(c) /\ NotYet(c, steps)
      /\ \A x, y \in Half : BridgedTo(c, x, y) <=> BridgedTo(w, x, y)
  BY <1>1, CountOnce
<1>6. Sound(c) /\ Spare(c) BY <1>1, <1>5, CountSpare, CountKeeps DEF Sound
<1>7. w.clients[k] \in Nat /\ c.clients[l] \in Nat BY <1>1, <1>5 DEF Wiring
<1>8. /\ g \in Half /\ h \in Half /\ LinkOf(g) = k /\ LinkOf(h) = k
      /\ e \in Half /\ f \in Half /\ LinkOf(e) = l /\ LinkOf(f) = l
  BY <1>7, HalfOfLink
<1>9. ~BridgedTo(w, e, h) BY <1>1, <1>4, <1>8, BridgeIsNew
<1>10. ~BridgedTo(c, g, f) BY <1>4, <1>5, <1>6, <1>8, BridgeIsNew
<1>11. /\ d \in Wiring /\ NoRepeats(d) /\ SilentYet(d) /\ NotYet(d, steps)
       /\ \A x, y \in Half : BridgedTo(d, x, y) <=> BridgedTo(c, x, y)
  BY <1>5, <1>6, CountOnce
<1>12. NotYet(d, s) BY <1>1, <1>11, TailOnce
<1>13. /\ \A n \in DOMAIN s : \A j \in CsmaCd : f = Whole(j) => ~Carries(s[n], k, j)
       /\ \A n \in DOMAIN s : \A j \in CsmaCd : h = Whole(j) => ~Carries(s[n], l, j)
  <2>1. \A j \in CsmaCd : (f = Whole(j) => j = l) /\ (h = Whole(j) => j = k)
    BY <1>8 DEF LinkOf, Whole
  <2> QED BY <1>3, <1>4, <2>1
<1>14. Sound(ConnectBothWays(w, k, l)) BY <1>1, BothWaysSound
<1>15. v = ConnectBothWays(w, k, l) BY DEF ConnectBothWays
<1> HIDE DEF c, d, e, f, g, h, s
<1>16. /\ u \in Wiring /\ NoRepeats(u) /\ SilentYet(u) /\ NotYet(u, s)
       /\ \A x, y \in Half : BridgedTo(u, x, y) <=> BridgedTo(d, x, y) \/ (x = g /\ y = f)
  <2>1. g # f /\ ~BridgedTo(d, g, f) BY <1>4, <1>8, <1>10, <1>11
  <2> QED BY <1>8, <1>11, <1>12, <1>13, <2>1, BridgeOnce
<1> HIDE DEF u
<1>17. e # h /\ ~BridgedTo(u, e, h)
  BY <1>4, <1>5, <1>8, <1>9, <1>11, <1>16
<1>18. NoRepeats(v) /\ SilentYet(v) /\ NotYet(v, s)
  BY <1>8, <1>13, <1>16, <1>17, BridgeOnce
<1> HIDE DEF v
<1> QED BY <1>4, <1>14, <1>15, <1>18 DEF OnceWired, s

\* Whatever connection comes next, the wiring stays without repeats.
LEMMA ConnectionOnceWired ==
  ASSUME NEW w, NEW steps \in Seq(Step), steps # <<>>, OnceWired(w, steps), Possible(w, Head(steps))
  PROVE  OnceWired(Connected(w, Head(steps)), Tail(steps))
<1> DEFINE s == Head(steps)
<1>0. s \in Step OBVIOUS
<1> HIDE DEF s
<1>1. CASE \E l \in Link, i \in Interface : s = PlugStep(l, i)
  <2>1. PICK l \in Link, i \in Interface : s = PlugStep(l, i) BY <1>1
  <2>2. s.do = "plug" /\ s.link = l /\ s.iface = i BY <2>1 DEF PlugStep
  <2>3. HasRoom(w, l) BY <2>2 DEF Possible, s
  <2>4. OnceWired(ConnectToInterface(w, l, i), Tail(steps)) BY <2>1, <2>3, PlugOnceWired DEF s
  <2> QED BY <2>2, <2>4 DEF Connected, s
<1>2. CASE \E k, l \in Link, twoway \in BOOLEAN : s = BridgeStep(k, l, twoway)
  <2>1. PICK k \in Link, l \in Link, twoway \in BOOLEAN : s = BridgeStep(k, l, twoway) BY <1>2
  <2>2. s.do # "plug" /\ s.from = k /\ s.to = l /\ s.twoway = twoway BY <2>1 DEF BridgeStep
  <2>3. CASE twoway = TRUE
    <3>1. HasRoom(w, k) /\ HasRoom(Count(w, k), l) BY <2>2, <2>3 DEF Possible, s
    <3>2. OnceWired(ConnectBothWays(w, k, l), Tail(steps))
      BY <2>1, <2>3, <3>1, BothWaysOnceWired DEF s
    <3> QED BY <2>2, <2>3, <3>2 DEF Connected, s
  <2>4. CASE twoway = FALSE
    <3>1. HasRoom(w, l) BY <2>2, <2>4 DEF Possible, s
    <3>2. OnceWired(ConnectOneWay(w, k, l), Tail(steps))
      BY <2>1, <2>4, <3>1, OneWayOnceWired DEF s
    <3> QED BY <2>2, <2>4, <3>2 DEF Connected, s
  <2> QED BY <2>3, <2>4
<1> QED BY <1>0, <1>1, <1>2 DEF Step

\* A list that names no connection twice may start from the empty wiring.
LEMMA UnwiredOnce ==
  ASSUME NEW steps, ConnectsOnce(steps)
  PROVE  OnceWired(Unwired, steps)
<1>1. RangeOf(<<>>) = {} /\ IsInjective(<<>>) BY DEF RangeOf, IsInjective
<1>2. /\ \A h \in Half : Unwired.hears[h] = <<>> /\ Unwired.bridges[h] = <<>>
      /\ \A i \in Interface : Unwired.sendsOn[i] = <<>>
  BY DEF Unwired
<1>3. NoRepeats(Unwired) BY <1>1, <1>2 DEF NoRepeats, BridgedTo
<1>4. SilentYet(Unwired)
  <2>1. \A l \in Link, n \in 0..1 : ReadHalf(l, n) \in Half BY HalfOfLink
  <2> QED BY <1>2, <2>1 DEF SilentYet
<1>5. NotYet(Unwired, steps)
  <2>1. \A l \in CsmaCd : Whole(l) \in Half BY LinksAssumption DEF Half, Halves
  <2> QED BY <1>1, <1>2, <2>1 DEF NotYet, SendsOnHalf, HeardBy, BridgedTo
<1> QED BY <1>3, <1>4, <1>5, UnwiredSound DEF OnceWired

-----------------------------------------------------------------------------
(* The bytes of the frames in a queue. *)

\* t counts the bytes of the first frames, up to m of them.
Sums(frames, t, m) ==
  /\ t \in [0..m -> Nat] /\ t[0] = 0
  /\ \A n \in 1..m : t[n] = t[n - 1] + frames[n].size

\* The sizes of any frames have partial sums: the fold of the model is their last one.
LEMMA SumsExist ==
  ASSUME NEW frames, NEW m \in Nat, \A n \in 1..m : frames[n].size \in Nat
  PROVE  \E t : Sums(frames, t, m)
<1> DEFINE Bad == {n \in 0..m : ~\E t : Sums(frames, t, n)}
<1>1. CASE Bad = {} BY <1>1
<1>2. CASE Bad # {}
  <2>1. Bad \in SUBSET Nat OBVIOUS
  <2> HIDE DEF Bad
  <2>2. PICK n \in Bad : \A k \in Bad : n <= k BY <1>2, <2>1, LeastNumber
  <2> USE DEF Bad
  <2>3. n \in 0..m /\ ~\E t : Sums(frames, t, n) BY <2>2
  <2>4. n # 0
    <3>1. Sums(frames, [j \in 0..0 |-> 0], 0) BY DEF Sums
    <3> QED BY <2>3, <3>1
  <2>5. n - 1 \in 0..m /\ n - 1 \notin Bad BY <2>2, <2>3, <2>4
  <2>6. PICK t : Sums(frames, t, n - 1) BY <2>5
  <2> DEFINE u == [j \in 0..n |-> IF j = n THEN t[n - 1] + frames[n].size ELSE t[j]]
  <2>7. /\ n \in 1..m /\ t \in [0..n - 1 -> Nat] /\ t[0] = 0
        /\ \A j \in 1..n - 1 : t[j] = t[j - 1] + frames[j].size
    BY <2>3, <2>4, <2>6 DEF Sums
  <2>8. u \in [0..n -> Nat] /\ u[0] = 0 BY <2>7
  <2>9. ASSUME NEW j \in 1..n PROVE u[j] = u[j - 1] + frames[j].size
    <3>1. j - 1 \in 0..n /\ j - 1 # n /\ u[j - 1] = t[j - 1] BY <2>7
    <3>2. CASE j = n BY <2>7, <3>1, <3>2
    <3>3. CASE j # n
      <4>1. j \in 1..n - 1 /\ u[j] = t[j] BY <2>7, <3>3
      <4> HIDE DEF u
      <4> QED BY <2>7, <3>1, <4>1
    <3> QED BY <3>2, <3>3
  <2>10. Sums(frames, u, n) BY <2>8, <2>9 DEF Sums
  <2> QED BY <2>3, <2>10
<1> QED BY <1>1, <1>2

\* The size of a queue is the last of the partial sums of its frames.
LEMMA SizeIsSum ==
  ASSUME NEW S, NEW frames \in Seq(S), NEW t, Sums(frames, t, Len(frames))
  PROVE  SizeOf(frames) = t[Len(frames)] /\ SizeOf(frames) \in Nat
<1> DEFINE m == Len(frames)
           Def(f) == f = [n \in 0..m |-> IF n = 0 THEN 0 ELSE f[n - 1] + frames[n].size]
           total == CHOOSE f : Def(f)
<1>1. m \in Nat OBVIOUS
<1>2. SizeOf(frames) = total[m] BY DEF SizeOf
<1> HIDE DEF m
<1>3. /\ t \in [0..m -> Nat] /\ t[0] = 0
      /\ \A n \in 1..m : t[n] = t[n - 1] + frames[n].size
  BY DEF Sums, m
<1>4. Def(t)
  <2>1. \A n \in 0..m : t[n] = IF n = 0 THEN 0 ELSE t[n - 1] + frames[n].size
    BY <1>1, <1>3
  <2> QED BY <1>3, <2>1
<1>5. Def(total) BY <1>4
<1> HIDE DEF total
<1>6. DOMAIN total = 0..m /\ \A n \in 0..m : total[n] = IF n = 0 THEN 0 ELSE total[n - 1] + frames[n].size
  BY <1>5
<1> HIDE DEF Def
<1> DEFINE Bad == {n \in 0..m : t[n] # total[n]}
<1>7. CASE Bad = {} BY <1>1, <1>2, <1>3, <1>7 DEF m
<1>8. CASE Bad # {}
  <2>1. Bad \in SUBSET Nat OBVIOUS
  <2> HIDE DEF Bad
  <2>2. PICK n \in Bad : \A k \in Bad : n <= k BY <1>8, <2>1, LeastNumber
  <2>3. n \in 0..m /\ t[n] # total[n] BY <2>2 DEF Bad
  <2>4. n \in 1..m BY <1>1, <1>3, <1>6, <2>3
  <2>5. n - 1 \in 0..m /\ n - 1 \notin Bad BY <1>1, <2>2, <2>4
  <2>6. t[n - 1] = total[n - 1] BY <2>5 DEF Bad
  <2> QED BY <1>3, <1>6, <2>3, <2>4, <2>6
<1> QED BY <1>7, <1>8

\* Another frame behind the others
LEMMA SizeOfAppend ==
  ASSUME NEW frames \in Seq(Frame), NEW f \in Frame
  PROVE  SizeOf(Append(frames, f)) = SizeOf(frames) + f.size /\ SizeOf(frames) \in Nat
<1> DEFINE m == Len(frames)
           more == Append(frames, f)
<1>1. /\ m \in Nat /\ Len(more) = m + 1 /\ more \in Seq(Frame) /\ more[m + 1] = f
      /\ \A n \in 1..m : more[n] = frames[n] /\ frames[n] \in Frame
  OBVIOUS
<1>2. f.size \in Nat /\ \A n \in 1..m : frames[n].size \in Nat BY <1>1 DEF Frame
<1>3. PICK t : Sums(frames, t, m) BY <1>1, <1>2, SumsExist
<1> HIDE DEF more
<1> DEFINE u == [j \in 0..m + 1 |-> IF j = m + 1 THEN t[m] + f.size ELSE t[j]]
<1>4. SizeOf(frames) = t[m] /\ SizeOf(frames) \in Nat BY <1>3, SizeIsSum
<1> HIDE DEF m
<1>5. /\ t \in [0..m -> Nat] /\ t[0] = 0
      /\ \A n \in 1..m : t[n] = t[n - 1] + frames[n].size
  BY <1>3 DEF Sums
<1>6. u \in [0..m + 1 -> Nat] /\ u[0] = 0 /\ u[m + 1] = t[m] + f.size BY <1>1, <1>2, <1>5
<1>7. ASSUME NEW j \in 1..m + 1 PROVE u[j] = u[j - 1] + more[j].size
  <2>1. j - 1 \in 0..m /\ j - 1 # m + 1 /\ u[j - 1] = t[j - 1] BY <1>1
  <2>2. CASE j = m + 1
    <3>1. u[j] = t[m] + f.size /\ j - 1 = m /\ more[j] = f BY <1>1, <2>2
    <3> HIDE DEF u
    <3> QED BY <2>1, <3>1
  <2>3. CASE j # m + 1
    <3>1. j \in 1..m /\ u[j] = t[j] /\ more[j] = frames[j] BY <1>1, <2>3
    <3> HIDE DEF u
    <3> QED BY <1>5, <2>1, <3>1
  <2> QED BY <2>2, <2>3
<1>8. Sums(more, u, Len(more)) BY <1>1, <1>6, <1>7 DEF Sums
<1>9. SizeOf(more) = u[Len(more)] BY <1>1, <1>8, SizeIsSum
<1> QED BY <1>1, <1>4, <1>6, <1>9 DEF more

\* The first frame leaves
LEMMA SizeOfTail ==
  ASSUME NEW frames \in Seq(Frame), frames # <<>>
  PROVE  /\ SizeOf(Tail(frames)) = SizeOf(frames) - Head(frames).size
         /\ SizeOf(Tail(frames)) \in Nat /\ SizeOf(frames) \in Nat
<1> DEFINE m == Len(frames)
           rest == Tail(frames)
<1>1. /\ m \in Nat \ {0} /\ Len(rest) = m - 1 /\ rest \in Seq(Frame) /\ Head(frames) = frames[1]
      /\ \A n \in 1..m - 1 : rest[n] = frames[n + 1] /\ rest[n] \in Frame
      /\ \A n \in 1..m : frames[n] \in Frame
  OBVIOUS
<1>2. frames[1].size \in Nat /\ \A n \in 1..m - 1 : rest[n].size \in Nat BY <1>1 DEF Frame
<1>3. m - 1 \in Nat BY <1>1
<1> HIDE DEF rest
<1>4. PICK t : Sums(rest, t, m - 1) BY <1>2, <1>3, SumsExist
<1> DEFINE u == [j \in 0..m |-> IF j = 0 THEN 0 ELSE t[j - 1] + frames[1].size]
<1>5. SizeOf(rest) = t[m - 1] /\ SizeOf(rest) \in Nat BY <1>1, <1>4, SizeIsSum
<1> HIDE DEF m
<1>6. /\ t \in [0..m - 1 -> Nat] /\ t[0] = 0
      /\ \A n \in 1..m - 1 : t[n] = t[n - 1] + rest[n].size
  BY <1>4 DEF Sums
<1>7. u \in [0..m -> Nat] /\ u[0] = 0 /\ u[m] = t[m - 1] + frames[1].size BY <1>1, <1>2, <1>6
<1>8. ASSUME NEW j \in 1..m PROVE u[j] = u[j - 1] + frames[j].size
  <2>1. CASE j = 1 BY <1>1, <1>2, <1>6, <2>1
  <2>2. CASE j # 1
    <3>1. j - 1 \in 1..m - 1 /\ rest[j - 1] = frames[j] BY <1>1, <2>2
    <3>2. t[j - 1] = t[j - 2] + frames[j].size BY <1>6, <3>1
    <3>3. u[j] = t[j - 1] + frames[1].size /\ u[j - 1] = t[j - 2] + frames[1].size
      BY <1>1, <3>1
    <3>4. j - 2 \in 0..m - 1 /\ j - 1 \in 0..m - 1 /\ t[j - 2] \in Nat /\ t[j - 1] \in Nat
          /\ frames[1].size \in Nat
      BY <1>1, <1>2, <1>6, <2>2
    <3>5. frames[j].size \in Nat BY <1>2, <3>1
    <3> HIDE DEF u
    <3> QED BY <3>2, <3>3, <3>4, <3>5
  <2> QED BY <2>1, <2>2
<1>9. Sums(frames, u, Len(frames)) BY <1>7, <1>8 DEF Sums, m
<1>10. SizeOf(frames) = u[m] /\ SizeOf(frames) \in Nat BY <1>9, SizeIsSum DEF m
<1>11. rest = Tail(frames) BY DEF rest
<1> HIDE DEF u
<1>12. t[m - 1] \in Nat BY <1>5
<1> QED BY <1>1, <1>2, <1>5, <1>7, <1>10, <1>11, <1>12

\* An empty queue holds no byte.
LEMMA SizeOfNothing == SizeOf(<<>>) = 0
<1>1. Sums(<<>>, [j \in 0..0 |-> 0], Len(<<>>)) BY DEF Sums
<1> QED BY <1>1, SizeIsSum

-----------------------------------------------------------------------------
(* A queue and its events. *)

InOrder(frames) == \A m, n \in DOMAIN frames : m <= n => frames[m].ready <= frames[n].ready

\* Each frame has an event of its own, not before the frame is ready; a compact map's
\* events are due at that very time.
Awaited(inTime, frames, E, g) ==
  /\ g \in [DOMAIN frames -> E] /\ IsInjective(g)
  /\ \A e \in E : \E k \in DOMAIN frames : g[k] = e
  /\ \A k \in DOMAIN frames : /\ frames[k].ready * TicksPerMs <= g[k].due
                              /\ ~inTime => frames[k].ready * TicksPerMs = g[k].due

GoodQueue(inTime, frames, E, latest) ==
  /\ frames \in Seq(Frame) /\ InOrder(frames)
  /\ \A k \in DOMAIN frames : frames[k].ready <= latest
  /\ \E g : Awaited(inTime, frames, E, g)

\* A queue whose frames are ready by m is good for every later time.
LEMMA GoodLater ==
  ASSUME NEW inTime, NEW frames, NEW E, NEW m \in Nat, NEW n \in Nat, m <= n,
         GoodQueue(inTime, frames, E, m)
  PROVE  GoodQueue(inTime, frames, E, n)
<1>1. \A k \in DOMAIN frames : frames[k].ready \in Nat /\ frames[k].ready <= m
  <2>1. \A k \in DOMAIN frames : frames[k] \in Frame BY DEF GoodQueue
  <2> QED BY <2>1 DEF GoodQueue, Frame
<1>2. \A k \in DOMAIN frames : frames[k].ready <= n BY <1>1
<1> QED BY <1>2 DEF GoodQueue

\* What a list of frames is: each has a size and a time to be ready at.
LEMMA FramesOf ==
  ASSUME NEW frames \in Seq(Frame)
  PROVE  /\ Len(frames) \in Nat /\ DOMAIN frames = 1..Len(frames)
         /\ \A k \in DOMAIN frames : frames[k] \in Frame /\ frames[k].ready \in Nat /\ frames[k].size \in Nat
<1>1. /\ Len(frames) \in Nat /\ DOMAIN frames = 1..Len(frames)
      /\ \A k \in DOMAIN frames : frames[k] \in Frame
  OBVIOUS
<1> QED BY <1>1 DEF Frame

\* A frame joins a queue, with its event.
LEMMA GoodAppend ==
  ASSUME NEW inTime, NEW frames, NEW E, NEW m \in Nat, NEW n \in Nat, m <= n,
         GoodQueue(inTime, frames, E, m), NEW f \in Frame, f.ready = n,
         NEW e, e \notin E, n * TicksPerMs <= e.due, ~inTime => n * TicksPerMs = e.due
  PROVE  GoodQueue(inTime, Append(frames, f), E \cup {e}, n)
<1> DEFINE L == Len(frames)
           more == Append(frames, f)
<1>1. frames \in Seq(Frame) BY DEF GoodQueue
<1>2. /\ L \in Nat /\ DOMAIN frames = 1..L
      /\ \A k \in 1..L : frames[k] \in Frame /\ frames[k].ready \in Nat
  BY <1>1, FramesOf
<1>3. /\ more \in Seq(Frame) /\ DOMAIN more = 1..L + 1 /\ more[L + 1] = f
      /\ \A k \in 1..L : more[k] = frames[k]
  BY <1>1
<1>4. \A k \in 1..L : frames[k].ready <= n BY <1>2 DEF GoodQueue
<1> HIDE DEF L, more
<1>5. \A k \in DOMAIN more : more[k].ready <= n
  <2> TAKE k \in DOMAIN more
  <2>1. CASE k = L + 1 BY <1>3, <2>1
  <2>2. CASE k # L + 1
    <3>1. k \in 1..L BY <1>2, <1>3, <2>2
    <3> QED BY <1>3, <1>4, <3>1
  <2> QED BY <2>1, <2>2
<1>6. InOrder(more)
  <2> SUFFICES ASSUME NEW j \in DOMAIN more, NEW k \in DOMAIN more, j <= k
               PROVE  more[j].ready <= more[k].ready
    BY DEF InOrder
  <2>1. CASE k = L + 1 BY <1>3, <1>5, <2>1
  <2>2. CASE k # L + 1
    <3>1. j \in 1..L /\ k \in 1..L BY <1>2, <1>3, <2>2
    <3>2. frames[j].ready <= frames[k].ready BY <1>2, <3>1 DEF GoodQueue, InOrder
    <3> QED BY <1>3, <3>1, <3>2
  <2> QED BY <2>1, <2>2
<1>7. PICK g : Awaited(inTime, frames, E, g) BY DEF GoodQueue
<1>8. /\ g \in [1..L -> E] /\ IsInjective(g)
      /\ \A d \in E : \E k \in 1..L : g[k] = d
      /\ \A k \in 1..L : /\ frames[k].ready * TicksPerMs <= g[k].due
                         /\ ~inTime => frames[k].ready * TicksPerMs = g[k].due
  BY <1>2, <1>7 DEF Awaited
<1> DEFINE u == [k \in 1..L + 1 |-> IF k = L + 1 THEN e ELSE g[k]]
<1>9. u[L + 1] = e /\ \A k \in 1..L : u[k] = g[k] BY <1>2
<1>10. u \in [1..L + 1 -> E \cup {e}] BY <1>2, <1>8
<1> HIDE DEF u
<1>11. \A k \in 1..L + 1 : k = L + 1 \/ k \in 1..L BY <1>2
<1>12. IsInjective(u)
  <2>1. DOMAIN u = 1..L + 1 BY <1>10
  <2>2. \A k \in 1..L : g[k] \in E /\ u[k] \in E BY <1>8, <1>9
  <2>3. \A j, k \in 1..L : g[j] = g[k] => j = k BY <1>8 DEF IsInjective
  <2> QED BY <1>9, <1>11, <2>1, <2>2, <2>3 DEF IsInjective
<1>13. \A d \in E \cup {e} : \E k \in 1..L + 1 : u[k] = d
  <2>1. L + 1 \in 1..L + 1 /\ \A k \in 1..L : k \in 1..L + 1 BY <1>2
  <2> QED BY <1>8, <1>9, <2>1
<1>14. \A k \in 1..L + 1 : /\ more[k].ready * TicksPerMs <= u[k].due
                           /\ ~inTime => more[k].ready * TicksPerMs = u[k].due
  BY <1>3, <1>8, <1>9, <1>11
<1>15. Awaited(inTime, more, E \cup {e}, u) BY <1>3, <1>10, <1>12, <1>13, <1>14 DEF Awaited
<1>16. GoodQueue(inTime, more, E \cup {e}, n) BY <1>3, <1>5, <1>6, <1>15 DEF GoodQueue
<1> QED BY <1>16 DEF more

\* The frame is ready when the event is due; a compact map does not wait longer.
Timely(inTime, f, e) ==
  /\ f.ready * TicksPerMs <= e.due
  /\ ~inTime => f.ready * TicksPerMs = e.due

\* The first event is served: the first frame of its queue was ready, and the frame that
\* the event was registered for now waits for the event of the one that leaves.
LEMMA GoodTail ==
  ASSUME NEW inTime, NEW frames, NEW E, NEW m \in Nat, GoodQueue(inTime, frames, E, m),
         E \subseteq [due : Nat, no : Nat, who : Queue],
         NEW first \in E, \A e \in E : first.due <= e.due
  PROVE  /\ frames # <<>> /\ Head(frames) \in Frame
         /\ GoodQueue(inTime, Tail(frames), E \ {first}, m)
         /\ Timely(inTime, Head(frames), first)
<1> DEFINE L == Len(frames)
           rest == Tail(frames)
<1>1. frames \in Seq(Frame) BY DEF GoodQueue
<1>2. /\ L \in Nat /\ DOMAIN frames = 1..L
      /\ \A k \in 1..L : frames[k] \in Frame /\ frames[k].ready \in Nat
  BY <1>1, FramesOf
<1>3. PICK g : Awaited(inTime, frames, E, g) BY DEF GoodQueue
<1>4. /\ g \in [1..L -> E]
      /\ \A j, k \in 1..L : g[j] = g[k] => j = k
      /\ \A d \in E : \E k \in 1..L : g[k] = d
      /\ \A k \in 1..L : /\ frames[k].ready * TicksPerMs <= g[k].due
                         /\ ~inTime => frames[k].ready * TicksPerMs = g[k].due
  BY <1>2, <1>3 DEF Awaited, IsInjective
<1>5. PICK p \in 1..L : g[p] = first BY <1>4
<1>6. L \in Nat \ {0} /\ 1 \in 1..L BY <1>2, <1>5
<1>7. /\ frames # <<>> /\ Head(frames) = frames[1]
      /\ rest \in Seq(Frame) /\ DOMAIN rest = 1..L - 1
      /\ \A k \in 1..L - 1 : rest[k] = frames[k + 1]
  BY <1>1, <1>6
<1> HIDE DEF L, rest
<1>8. \A j, k \in 1..L : j <= k =>
        /\ frames[j].ready <= frames[k].ready
        /\ frames[j].ready * TicksPerMs <= frames[k].ready * TicksPerMs
        /\ frames[j].ready * TicksPerMs \in Nat
  BY <1>2, TicksGrow DEF GoodQueue, InOrder
<1>9. \A k \in 1..L : frames[k].ready * TicksPerMs \in Nat BY <1>2, TicksGrow
<1>10. \A k \in 1..L : g[k] \in E /\ g[k].due \in Nat /\ first.due \in Nat /\ first.due <= g[k].due
  BY <1>4
<1>11. frames[1].ready * TicksPerMs <= frames[p].ready * TicksPerMs /\ 1 <= p
  BY <1>5, <1>6, <1>8
<1>12. /\ frames[1].ready * TicksPerMs <= first.due
       /\ ~inTime => frames[1].ready * TicksPerMs = first.due
  <2>1. /\ frames[p].ready * TicksPerMs <= first.due
        /\ ~inTime => frames[1].ready * TicksPerMs = g[1].due
    BY <1>4, <1>5, <1>6
  <2>2. first.due <= g[1].due /\ g[1].due \in Nat /\ first.due \in Nat BY <1>6, <1>10
  <2>3. frames[1].ready * TicksPerMs \in Nat /\ frames[p].ready * TicksPerMs \in Nat
    BY <1>5, <1>6, <1>9
  <2> QED BY <1>11, <2>1, <2>2, <2>3
<1>13. ~inTime => frames[p].ready * TicksPerMs = g[1].due
  <2>1. ~inTime => /\ frames[p].ready * TicksPerMs = first.due
                   /\ frames[1].ready * TicksPerMs = g[1].due
    BY <1>4, <1>5, <1>6
  <2> QED BY <1>12, <2>1
<1>14. frames[p].ready * TicksPerMs <= g[1].due
  <2>1. frames[p].ready * TicksPerMs <= first.due BY <1>4, <1>5
  <2> QED BY <1>5, <1>6, <1>9, <1>10, <2>1
<1> DEFINE u == [k \in 1..L - 1 |-> IF k + 1 = p THEN g[1] ELSE g[k + 1]]
<1>15. \A k \in 1..L - 1 : k + 1 \in 1..L /\ k + 1 # 1 BY <1>6
<1>16. \A k \in 1..L - 1 : u[k] = IF k + 1 = p THEN g[1] ELSE g[k + 1] OBVIOUS
<1>17. DOMAIN u = 1..L - 1 /\ u = [k \in 1..L - 1 |-> u[k]] OBVIOUS
<1> HIDE DEF u
<1>18. \A k \in 1..L - 1 : u[k] \in E \ {first}
  <2> TAKE k \in 1..L - 1
  <2>1. CASE k + 1 = p BY <1>4, <1>5, <1>6, <1>15, <1>16, <2>1
  <2>2. CASE k + 1 # p BY <1>4, <1>5, <1>15, <1>16, <2>2
  <2> QED BY <2>1, <2>2
<1>19. IsInjective(u)
  <2> SUFFICES ASSUME NEW j \in 1..L - 1, NEW k \in 1..L - 1, u[j] = u[k] PROVE j = k
    BY <1>17 DEF IsInjective
  <2>1. j + 1 = k + 1 BY <1>4, <1>6, <1>15, <1>16
  <2> QED BY <2>1
<1>20. \A d \in E \ {first} : \E k \in 1..L - 1 : u[k] = d
  <2> TAKE d \in E \ {first}
  <2>1. PICK j \in 1..L : g[j] = d BY <1>4
  <2>2. j # p BY <1>5, <2>1
  <2>3. CASE j = 1
    <3>1. p - 1 \in 1..L - 1 /\ (p - 1) + 1 = p BY <1>5, <1>6, <2>2, <2>3
    <3> QED BY <1>16, <2>1, <2>3, <3>1
  <2>4. CASE j # 1
    <3>1. j - 1 \in 1..L - 1 /\ (j - 1) + 1 = j BY <1>6, <2>1, <2>4
    <3> QED BY <1>16, <2>1, <2>2, <3>1
  <2> QED BY <2>3, <2>4
<1>21. \A k \in 1..L - 1 : /\ rest[k].ready * TicksPerMs <= u[k].due
                           /\ ~inTime => rest[k].ready * TicksPerMs = u[k].due
  <2> TAKE k \in 1..L - 1
  <2>1. rest[k] = frames[k + 1] /\ k + 1 \in 1..L BY <1>7, <1>15
  <2>2. CASE k + 1 = p BY <1>13, <1>14, <1>16, <2>1, <2>2
  <2>3. CASE k + 1 # p BY <1>4, <1>16, <2>1, <2>3
  <2> QED BY <2>2, <2>3
<1>22. Awaited(inTime, rest, E \ {first}, u)
  <2>1. u \in [1..L - 1 -> E \ {first}] BY <1>17, <1>18
  <2> QED BY <1>7, <1>19, <1>20, <1>21, <2>1 DEF Awaited
<1>23. InOrder(rest)
  <2> SUFFICES ASSUME NEW j \in 1..L - 1, NEW k \in 1..L - 1, j <= k
               PROVE  rest[j].ready <= rest[k].ready
    BY <1>7 DEF InOrder
  <2>1. j + 1 <= k + 1 OBVIOUS
  <2> QED BY <1>7, <1>8, <1>15, <2>1
<1>24. \A k \in DOMAIN rest : rest[k].ready <= m BY <1>2, <1>7, <1>15 DEF GoodQueue
<1>25. GoodQueue(inTime, rest, E \ {first}, m) BY <1>7, <1>22, <1>23, <1>24 DEF GoodQueue
<1>26. Head(frames) \in Frame BY <1>2, <1>6, <1>7
<1> QED BY <1>7, <1>12, <1>25, <1>26 DEF rest, Timely

\* As many events as frames
LEMMA GoodCount ==
  ASSUME NEW inTime, NEW frames, NEW E, NEW m, GoodQueue(inTime, frames, E, m)
  PROVE  Cardinality(E) = Len(frames)
<1>1. frames \in Seq(Frame) BY DEF GoodQueue
<1>2. DOMAIN frames = 1..Len(frames) /\ Len(frames) \in Nat BY <1>1, FramesOf
<1>3. PICK g : Awaited(inTime, frames, E, g) BY DEF GoodQueue
<1> DEFINE J == 1..Len(frames)
<1>4. IsFiniteSet(J) /\ Cardinality(J) = Len(frames)
  <2>1. \A n \in Nat : IsFiniteSet(1..n) /\ Cardinality(1..n) = IF 1 > n THEN 0 ELSE n - 1 + 1
    BY FS_Interval
  <2> QED BY <1>2, <2>1
<1>5. g \in [J -> E] /\ (\A i, j \in J : g[i] = g[j] => i = j) /\ \A e \in E : \E j \in J : g[j] = e
  BY <1>2, <1>3 DEF Awaited, IsInjective
<1> HIDE DEF J
<1>6. Cardinality(E) = Cardinality(J) BY <1>4, <1>5, NumberedSet
<1> QED BY <1>4, <1>6

-----------------------------------------------------------------------------
(* A frame is offered. *)

\* A copy with the time of its queue, and the frame that a link shows to others
LEMMA CopyOfFrame ==
  ASSUME NEW f \in Frame, NEW r \in Nat
  PROVE  /\ [f EXCEPT !.ready = r] \in Frame /\ [f EXCEPT !.ready = r].ready = r
         /\ [f EXCEPT !.ready = r].size = f.size
<1>1. PICK i \in Interface, b \in BOOLEAN, t \in SUBSET Interface, n \in Nat, m \in Nat :
        f = [from |-> i, fresh |-> b, to |-> t, size |-> n, ready |-> m]
  <2>1. f = [from |-> f.from, fresh |-> f.fresh, to |-> f.to, size |-> f.size, ready |-> f.ready]
        /\ f.from \in Interface /\ f.fresh \in BOOLEAN /\ f.to \in SUBSET Interface
        /\ f.size \in Nat /\ f.ready \in Nat
    BY DEF Frame
  <2> QED BY <2>1
<1> DEFINE c == [from |-> i, fresh |-> b, to |-> t, size |-> n, ready |-> r]
<1>2. ASSUME NEW x
      PROVE  [[from |-> i, fresh |-> b, to |-> t, size |-> n, ready |-> m] EXCEPT !.ready = x]
               = [from |-> i, fresh |-> b, to |-> t, size |-> n, ready |-> x]
  OBVIOUS
<1>3. [f EXCEPT !.ready = r] = c BY <1>1, <1>2
<1>4. c \in Frame /\ c.ready = r /\ c.size = n BY DEF Frame
<1>5. f.size = n BY <1>1
<1> QED BY <1>3, <1>4, <1>5

\* A frame that is passed on keeps its size.
LEMMA ForwardOfFrame ==
  ASSUME NEW f \in Frame
  PROVE  Forward(f) \in Frame /\ Forward(f).size = f.size
<1>1. PICK i \in Interface, b \in BOOLEAN, t \in SUBSET Interface, n \in Nat, m \in Nat :
        f = [from |-> i, fresh |-> b, to |-> t, size |-> n, ready |-> m]
  <2>1. f = [from |-> f.from, fresh |-> f.fresh, to |-> f.to, size |-> f.size, ready |-> f.ready]
        /\ f.from \in Interface /\ f.fresh \in BOOLEAN /\ f.to \in SUBSET Interface
        /\ f.size \in Nat /\ f.ready \in Nat
    BY DEF Frame
  <2> QED BY <2>1
<1> DEFINE c == [from |-> i, fresh |-> FALSE, to |-> t, size |-> n, ready |-> m]
<1>2. ASSUME NEW x
      PROVE  [[from |-> i, fresh |-> b, to |-> t, size |-> n, ready |-> m] EXCEPT !.fresh = x]
               = [from |-> i, fresh |-> x, to |-> t, size |-> n, ready |-> m]
  OBVIOUS
<1>3. Forward([from |-> i, fresh |-> b, to |-> t, size |-> n, ready |-> m]) = c
  BY <1>2, Zenon DEF Forward
<1>4. c \in Frame /\ c.size = n BY DEF Frame
<1>5. f.size = n BY <1>1
<1> QED BY <1>1, <1>3, <1>4, <1>5

\* When the last frame of a queue goes on at the latest
Latest(q, res, ms) ==
  IF q \in Interface THEN ms + Delay[q]
  ELSE res[q] + (IF LinkOf(q) \in CsmaCd THEN 0 ELSE Latency[LinkOf(q)])

NewReserved(takers, f, ms) ==
  [h \in Half |-> IF h \in takers THEN BusyUntil(h, f.size, ms) ELSE reserved[h]]

\* A half that is charged stays busy at least as long as it was, and until now.
LEMMA BusyTime ==
  ASSUME NEW h \in Half, NEW size \in Nat, NEW ms \in Nat, reserved \in [Half -> Nat]
  PROVE  BusyUntil(h, size, ms) \in Nat /\ reserved[h] <= BusyUntil(h, size, ms) /\ ms <= BusyUntil(h, size, ms)
<1>1. LinkOf(h) \in Link BY LinkOfHalf
<1>2. Bandwidth[LinkOf(h)] \in Nat \ {0} /\ Latency[LinkOf(h)] \in Nat
  BY <1>1, TransitAssumption
<1>3. size * MsPerSecond \in Nat BY TransitAssumption
<1>4. Airtime(LinkOf(h), size) \in Nat BY <1>2, <1>3 DEF Airtime
<1>5. Larger(reserved[h], ms) \in Nat /\ reserved[h] <= Larger(reserved[h], ms) /\ ms <= Larger(reserved[h], ms)
  BY DEF Larger
<1> QED BY <1>2, <1>4, <1>5 DEF BusyUntil

\* A queue that takes a frame promises to let it go after the others and not before now.
LEMMA PromisedTime ==
  ASSUME NEW q \in Queue, NEW takers, NEW f \in Frame, NEW ms \in Nat, reserved \in [Half -> Nat]
  PROVE  /\ NewReserved(takers, f, ms) \in [Half -> Nat]
         /\ Latest(q, reserved, ms) \in Nat /\ Latest(q, NewReserved(takers, f, ms), ms) \in Nat
         /\ ReadyAt(q, f.size, ms) \in Nat /\ ms <= ReadyAt(q, f.size, ms)
         /\ Latest(q, reserved, ms) <= Latest(q, NewReserved(takers, f, ms), ms)
         /\ q \in takers => Latest(q, NewReserved(takers, f, ms), ms) = ReadyAt(q, f.size, ms)
<1>1. f.size \in Nat BY DEF Frame
<1>2. \A h \in Half : /\ BusyUntil(h, f.size, ms) \in Nat /\ reserved[h] <= BusyUntil(h, f.size, ms)
                      /\ ms <= BusyUntil(h, f.size, ms)
  BY <1>1, BusyTime
<1>3. NewReserved(takers, f, ms) \in [Half -> Nat] BY <1>2 DEF NewReserved
<1>4. CASE q \in Interface
  <2>1. Delay[q] \in Nat BY <1>4, TransitAssumption
  <2> QED BY <1>3, <1>4, <2>1 DEF Latest, ReadyAt
<1>5. CASE q \notin Interface
  <2>1. q \in Half /\ LinkOf(q) \in Link BY <1>5, LinkOfHalf DEF Queue
  <2> DEFINE wait == IF LinkOf(q) \in CsmaCd THEN 0 ELSE Latency[LinkOf(q)]
             res == NewReserved(takers, f, ms)
  <2>2. wait \in Nat BY <2>1, TransitAssumption
  <2>3. res[q] = IF q \in takers THEN BusyUntil(q, f.size, ms) ELSE reserved[q]
    BY <2>1 DEF NewReserved
  <2> HIDE DEF wait, res
  <2>4. /\ Latest(q, reserved, ms) = reserved[q] + wait /\ Latest(q, res, ms) = res[q] + wait
        /\ ReadyAt(q, f.size, ms) = BusyUntil(q, f.size, ms) + wait
    BY <1>5 DEF Latest, ReadyAt, wait
  <2>5. /\ BusyUntil(q, f.size, ms) \in Nat /\ reserved[q] <= BusyUntil(q, f.size, ms)
        /\ ms <= BusyUntil(q, f.size, ms) /\ reserved[q] \in Nat
    BY <1>2, <2>1
  <2>6. res \in [Half -> Nat] BY <1>3 DEF res
  <2>7. /\ Latest(q, reserved, ms) \in Nat /\ Latest(q, res, ms) \in Nat
        /\ ReadyAt(q, f.size, ms) \in Nat /\ ms <= ReadyAt(q, f.size, ms)
        /\ Latest(q, reserved, ms) <= Latest(q, res, ms)
        /\ q \in takers => Latest(q, res, ms) = ReadyAt(q, f.size, ms)
    BY <2>2, <2>3, <2>4, <2>5
  <2> QED BY <2>6, <2>7 DEF res
<1> QED BY <1>4, <1>5

\* Later, the last frame of a queue may go on later.
LEMMA LatestGrows ==
  ASSUME NEW q \in Queue, NEW res \in [Half -> Nat], NEW m \in Nat, NEW n \in Nat, m <= n
  PROVE  Latest(q, res, m) \in Nat /\ Latest(q, res, n) \in Nat /\ Latest(q, res, m) <= Latest(q, res, n)
<1>1. CASE q \in Interface
  <2>1. Delay[q] \in Nat BY <1>1, TransitAssumption
  <2> QED BY <1>1, <2>1 DEF Latest
<1>2. CASE q \notin Interface
  <2>1. q \in Half /\ LinkOf(q) \in Link BY <1>2, LinkOfHalf DEF Queue
  <2>2. Latency[LinkOf(q)] \in Nat /\ res[q] \in Nat BY <2>1, TransitAssumption
  <2> QED BY <1>2, <2>2 DEF Latest
<1> QED BY <1>1, <1>2

Whose(E, q) == {e \in E : e.who = q}
HasOne(E, q, due) == \E e : Whose(E, q) = {e} /\ e.due = due

\* The fields of a request are read back as they were put in.
LEMMA RequestFields ==
  ASSUME NEW w, NEW m, NEW b \in BOOLEAN
  PROVE  /\ [who |-> w, ms |-> m, wanted |-> b].who = w
         /\ [who |-> w, ms |-> m, wanted |-> b].ms = m
         /\ [who |-> w, ms |-> m, wanted |-> b].wanted = b
OBVIOUS

\* The targets that take a frame register one event each.
LEMMA OfferedEvents ==
  ASSUME NEW targets \in Seq(Queue), IsInjective(targets), NEW takers \in SUBSET RangeOf(targets),
         NEW f \in Frame, NEW from \in Nat, NEW lag \in Nat, NEW ms \in Nat,
         reserved \in [Half -> Nat]
  PROVE  /\ Requests(targets, takers, f, ms) \in RequestsOf(Queue)
         /\ \A q \in Queue \ takers : Whose(NewEvents(from, lag, Requests(targets, takers, f, ms)), q) = {}
         /\ \A q \in Queue \cap takers :
              HasOne(NewEvents(from, lag, Requests(targets, takers, f, ms)), q,
                     Due(from, lag, ReadyAt(q, f.size, ms) - ms))
<1> DEFINE R == Requests(targets, takers, f, ms)
           N == NewEvents(from, lag, R)
           Event(k) == [due |-> Due(from, lag, ReadyAt(targets[k], f.size, ms) - ms),
                        no |-> registered + k, who |-> targets[k]]
<1>1. Len(targets) \in Nat /\ DOMAIN targets = 1..Len(targets) /\ \A k \in DOMAIN targets : targets[k] \in Queue
  BY ElementsOfSeq
<1>2. \A k \in DOMAIN targets :
        R[k] = [who |-> targets[k], ms |-> ReadyAt(targets[k], f.size, ms) - ms,
                wanted |-> targets[k] \in takers]
  BY DEF Requests
<1>3. \A k \in DOMAIN targets : R[k] \in [who : Queue, ms : Nat, wanted : BOOLEAN]
  <2> TAKE k \in DOMAIN targets
  <2> DEFINE r == ReadyAt(targets[k], f.size, ms)
             b == targets[k] \in takers
  <2>1. r \in Nat /\ ms <= r BY <1>1, PromisedTime
  <2> HIDE DEF r
  <2>2. r - ms \in Nat BY <2>1
  <2>3. R[k] = [who |-> targets[k], ms |-> r - ms, wanted |-> b] BY <1>2 DEF r
  <2>4. b \in BOOLEAN OBVIOUS
  <2> HIDE DEF b
  <2> QED BY <1>1, <2>2, <2>3, <2>4
<1>4. DOMAIN R = DOMAIN targets /\ R = [k \in 1..Len(targets) |-> R[k]] BY <1>1 DEF Requests
<1> HIDE DEF R
<1>5. R \in Seq([who : Queue, ms : Nat, wanted : BOOLEAN])
  <2> DEFINE S == [who : Queue, ms : Nat, wanted : BOOLEAN]
  <2>1. \A k \in 1..Len(targets) : R[k] \in S BY <1>1, <1>3
  <2> HIDE DEF S
  <2>2. R \in [1..Len(targets) -> S] BY <1>4, <2>1
  <2>3. R \in Seq(S) BY <1>1, <2>2
  <2> QED BY <2>3 DEF S
<1>6. N = {Event(k) : k \in {j \in DOMAIN targets : targets[j] \in takers}}
  <2>1. {j \in DOMAIN R : R[j].wanted} = {j \in DOMAIN targets : targets[j] \in takers}
    <3>1. \A j \in DOMAIN targets : R[j].wanted = (targets[j] \in takers)
      <4> TAKE j \in DOMAIN targets
      <4> DEFINE b == targets[j] \in takers
                 m == ReadyAt(targets[j], f.size, ms) - ms
      <4>1. R[j] = [who |-> targets[j], ms |-> m, wanted |-> b] BY <1>2
      <4>2. b \in BOOLEAN OBVIOUS
      <4> HIDE DEF b, m
      <4>3. R[j].wanted = b BY <4>1, <4>2, RequestFields
      <4> QED BY <4>3 DEF b
    <3> QED BY <1>4, <3>1
  <2>2. \A k \in DOMAIN targets : /\ R[k].ms = ReadyAt(targets[k], f.size, ms) - ms
                                  /\ R[k].who = targets[k]
    <3> TAKE k \in DOMAIN targets
    <3> DEFINE b == targets[k] \in takers
               m == ReadyAt(targets[k], f.size, ms) - ms
    <3>1. R[k] = [who |-> targets[k], ms |-> m, wanted |-> b] BY <1>2
    <3>2. b \in BOOLEAN OBVIOUS
    <3> HIDE DEF b, m
    <3>3. R[k].ms = m /\ R[k].who = targets[k] BY <3>1, <3>2, RequestFields
    <3> QED BY <3>3 DEF m
  <2> QED BY <2>1, <2>2 DEF NewEvents
<1> HIDE DEF N
<1>7. ASSUME NEW q \in Queue, q \notin takers PROVE {e \in N : e.who = q} = {}
  BY <1>6, <1>7
<1>8. ASSUME NEW q \in Queue, q \in takers
      PROVE  \E e : {d \in N : d.who = q} = {e} /\ e.due = Due(from, lag, ReadyAt(q, f.size, ms) - ms)
  <2>1. PICK k \in DOMAIN targets : targets[k] = q BY <1>8 DEF RangeOf
  <2>2. \A j \in DOMAIN targets : targets[j] = q => j = k BY <2>1 DEF IsInjective
  <2>3. Event(k) \in N BY <1>6, <1>8, <2>1
  <2>4. \A d \in N : d.who = q => d = Event(k) BY <1>6, <2>2
  <2>5. {d \in N : d.who = q} = {Event(k)} BY <2>1, <2>3, <2>4
  <2>6. Event(k).due = Due(from, lag, ReadyAt(q, f.size, ms) - ms) BY <2>1
  <2> QED BY <2>5, <2>6
<1> QED BY <1>5, <1>7, <1>8 DEF R, N, RequestsOf, Whose, HasOne

-----------------------------------------------------------------------------
(* All queues of a map. *)

AllGood(queues, E, res, ms) ==
  /\ queues = [q \in Queue |-> queues[q]]
  /\ \A q \in Queue : GoodQueue(realtime, queues[q], Whose(E, q), Latest(q, res, ms))

\* The milli-second of a handler; in a compact map time has no parts of one.
MsOf(from, lag, ms) ==
  ms = from \div TicksPerMs /\ (~realtime => from = ms * TicksPerMs /\ lag = 0)

\* The queues that take a frame keep a copy, and each registers an event for it.
LEMMA OfferKeeps ==
  ASSUME NEW targets \in Seq(Queue), IsInjective(targets), NEW takers \in SUBSET RangeOf(targets),
         NEW f \in Frame, NEW g \in Frame, g.size = f.size,
         NEW from \in Nat, NEW lag \in Nat, NEW ms, MsOf(from, lag, ms),
         realtime \in BOOLEAN, registered \in Nat, reserved \in [Half -> Nat],
         NEW queues, NEW E, \A e \in E : e.no \in 1..registered, AllGood(queues, E, reserved, ms),
         NEW N, N = NewEvents(from, lag, Requests(targets, takers, f, ms))
  PROVE  AllGood(Enqueued(queues, takers, g, ms), E \cup N, NewReserved(takers, f, ms),
                 (from + lag) \div TicksPerMs)
<1> DEFINE later == (from + lag) \div TicksPerMs
           res == NewReserved(takers, f, ms)
           more(q) == Enqueued(queues, takers, g, ms)[q]
<1>1. ms \in Nat /\ ms * TicksPerMs <= from BY MsBounds DEF MsOf
<1>2. later \in Nat /\ ms <= later
  <2>1. from + lag \in Nat /\ from <= from + lag OBVIOUS
  <2> QED BY <2>1, MsBounds, MsGrow DEF MsOf
<1>3. res \in [Half -> Nat]
  <2>1. \A h \in Half : BusyUntil(h, f.size, ms) \in Nat BY <1>1, BusyTime DEF Frame
  <2> QED BY <2>1 DEF NewReserved
<1>4. /\ Requests(targets, takers, f, ms) \in RequestsOf(Queue)
      /\ \A q \in Queue \ takers : Whose(N, q) = {}
      /\ \A q \in Queue \cap takers : HasOne(N, q, Due(from, lag, ReadyAt(q, f.size, ms) - ms))
  <2>0. ms \in Nat BY <1>1
  <2>1. Requests(targets, takers, f, ms) \in RequestsOf(Queue) BY <2>0, OfferedEvents
  <2>2. \A q \in Queue \ takers : Whose(NewEvents(from, lag, Requests(targets, takers, f, ms)), q) = {}
    BY <2>0, OfferedEvents
  <2>3. \A q \in Queue \cap takers :
          HasOne(NewEvents(from, lag, Requests(targets, takers, f, ms)), q,
                 Due(from, lag, ReadyAt(q, f.size, ms) - ms))
    BY <2>0, OfferedEvents
  <2> QED BY <2>1, <2>2, <2>3
<1>5. \A d \in N : d.no \in registered + 1..registered + Len(Requests(targets, takers, f, ms))
  BY <1>4, NewMatching
<1>6. E \cap N = {}
  <2>1. Len(Requests(targets, takers, f, ms)) \in Nat BY <1>4, ElementsOfSeq DEF RequestsOf
  <2> QED BY <1>5, <2>1
<1> HIDE DEF later, res
<1>7. ASSUME NEW q \in Queue
      PROVE  GoodQueue(realtime, more(q), Whose(E \cup N, q), Latest(q, res, later))
  <2>1. Whose(E \cup N, q) = Whose(E, q) \cup Whose(N, q) BY DEF Whose
  <2>2. GoodQueue(realtime, queues[q], Whose(E, q), Latest(q, reserved, ms)) BY DEF AllGood
  <2>3. /\ Latest(q, reserved, ms) \in Nat /\ Latest(q, res, ms) \in Nat
        /\ ReadyAt(q, f.size, ms) \in Nat /\ ms <= ReadyAt(q, f.size, ms)
        /\ Latest(q, reserved, ms) <= Latest(q, res, ms)
        /\ q \in takers => Latest(q, res, ms) = ReadyAt(q, f.size, ms)
    <3>1. ms \in Nat BY <1>1
    <3>2. Latest(q, reserved, ms) \in Nat BY <3>1, PromisedTime
    <3>3. Latest(q, NewReserved(takers, f, ms), ms) \in Nat BY <3>1, PromisedTime
    <3>4. ReadyAt(q, f.size, ms) \in Nat /\ ms <= ReadyAt(q, f.size, ms) BY <3>1, PromisedTime
    <3>5. q \in takers => Latest(q, NewReserved(takers, f, ms), ms) = ReadyAt(q, f.size, ms) BY <3>1, PromisedTime
    <3>6. Latest(q, reserved, ms) <= Latest(q, NewReserved(takers, f, ms), ms) BY <3>1, PromisedTime
    <3> QED BY <3>2, <3>3, <3>4, <3>5, <3>6 DEF res
  <2>4. Latest(q, res, later) \in Nat /\ Latest(q, res, ms) <= Latest(q, res, later)
    BY <1>1, <1>2, <1>3, LatestGrows
  <2>5. CASE q \notin takers
    <3>1. more(q) = queues[q] BY <2>5 DEF Enqueued
    <3>2. Whose(E \cup N, q) = Whose(E, q) BY <1>4, <2>1, <2>5
    <3>3. Latest(q, reserved, ms) <= Latest(q, res, later) BY <2>3, <2>4
    <3> QED BY <2>2, <2>3, <2>4, <3>1, <3>2, <3>3, GoodLater
  <2>6. CASE q \in takers
    <3> DEFINE r == ReadyAt(q, f.size, ms)
               c == [g EXCEPT !.ready = r]
    <3>1. more(q) = Append(queues[q], c) BY <2>6 DEF Enqueued, ReadyAt, BusyUntil
    <3>2. PICK d : Whose(N, q) = {d} /\ d.due = Due(from, lag, r - ms) BY <1>4, <2>6 DEF HasOne
    <3>3. d \notin Whose(E, q) BY <1>6, <3>2 DEF Whose
    <3> HIDE DEF r
    <3>4. r \in Nat /\ ms <= r /\ r = Latest(q, res, ms) BY <2>3, <2>6 DEF r
    <3>5. c \in Frame /\ c.ready = r BY <3>4, CopyOfFrame
    <3>6. r * TicksPerMs <= d.due /\ (~realtime => r * TicksPerMs = d.due)
      <4> DEFINE T == TicksPerMs
      <4>1. T \in Nat BY TicksAssumption
      <4>2. d.due = (r - ms) * T + from + lag BY <3>2 DEF Due
      <4>3. ms * T <= from /\ (~realtime => from = ms * T /\ lag = 0) BY <1>1 DEF MsOf
      <4> HIDE DEF T
      <4>4. (r - ms) * T = r * T - ms * T BY <1>1, <3>4, <4>1
      <4>5. r * T \in Nat /\ ms * T \in Nat BY <1>1, <3>4, <4>1
      <4>6. r * T <= d.due BY <4>2, <4>3, <4>4, <4>5
      <4>7. ~realtime => r * T = d.due BY <4>2, <4>3, <4>4, <4>5
      <4> QED BY <4>6, <4>7 DEF T
    <3> HIDE DEF c
    <3>7. GoodQueue(realtime, Append(queues[q], c), Whose(E, q) \cup {d}, r)
      BY <2>2, <2>3, <3>3, <3>4, <3>5, <3>6, GoodAppend
    <3> HIDE DEF more
    <3> QED BY <2>1, <2>4, <3>1, <3>2, <3>4, <3>7, GoodLater
  <2> QED BY <2>5, <2>6
<1>8. Enqueued(queues, takers, g, ms) = [q \in Queue |-> more(q)] BY DEF Enqueued
<1> HIDE DEF more
<1>9. AllGood(Enqueued(queues, takers, g, ms), E \cup N, res, later) BY <1>7, <1>8 DEF AllGood, more
<1> QED BY <1>9 DEF res, later

Within(q, n) ==
  /\ q \in Interface => n <= MaxBuffer[q]
  /\ q \in Half /\ Latency[LinkOf(q)] > 0 => n <= Bandwidth[LinkOf(q)] * Latency[LinkOf(q)]

\* usage counts the bytes of the frames in the queues, within the limits.
Counts(usage, queues) ==
  /\ usage = [q \in Queue |-> usage[q]]
  /\ \A q \in Queue : queues[q] \in Seq(Frame) /\ usage[q] = SizeOf(queues[q]) /\ Within(q, usage[q])

\* Charging the takers by the frame's size and queueing it there keeps the counters exact.
LEMMA ChargeKeeps ==
  ASSUME NEW usage, NEW queues, Counts(usage, queues), NEW takers, NEW f \in Frame, NEW g \in Frame,
         g.size = f.size, NEW ms \in Nat, reserved \in [Half -> Nat],
         \A q \in takers : Accepts(q, f) /\ usage[q] = bytes[q]
  PROVE  Counts(Charged(usage, takers, f), Enqueued(queues, takers, g, ms))
<1> DEFINE c == Charged(usage, takers, f)
           n == Enqueued(queues, takers, g, ms)
<1>1. c = [q \in Queue |-> c[q]] BY DEF Charged
<1>2. ASSUME NEW q \in Queue
      PROVE  n[q] \in Seq(Frame) /\ c[q] = SizeOf(n[q]) /\ Within(q, c[q])
  <2>1. queues[q] \in Seq(Frame) /\ usage[q] = SizeOf(queues[q]) /\ Within(q, usage[q])
    BY DEF Counts
  <2>2. CASE q \notin takers
    <3>1. n[q] = queues[q] /\ c[q] = usage[q] BY <2>2 DEF Enqueued, Charged
    <3> QED BY <2>1, <3>1
  <2>3. CASE q \in takers
    <3> DEFINE k == [g EXCEPT !.ready = ReadyAt(q, g.size, ms)]
    <3>1. ReadyAt(q, g.size, ms) \in Nat BY PromisedTime
    <3>2. k \in Frame /\ k.size = f.size BY <3>1, CopyOfFrame
    <3>3. n[q] = Append(queues[q], k) /\ c[q] = usage[q] + f.size BY <2>3 DEF Enqueued, Charged
    <3> HIDE DEF k, n, c
    <3>4. n[q] \in Seq(Frame) BY <2>1, <3>2, <3>3
    <3>5. c[q] = SizeOf(n[q]) BY <2>1, <3>2, <3>3, SizeOfAppend
    <3>6. Accepts(q, f) /\ usage[q] = bytes[q] BY <2>3
    <3>7. q \in Interface => c[q] <= MaxBuffer[q] BY <3>3, <3>6 DEF Accepts
    <3>8. ASSUME q \in Half, Latency[LinkOf(q)] > 0
          PROVE  c[q] <= Bandwidth[LinkOf(q)] * Latency[LinkOf(q)]
      <4>1. q \notin Interface BY <3>8, MapAssumption
      <4>2. Latency[LinkOf(q)] # 0
        <5>1. Latency[LinkOf(q)] \in Nat BY <3>8, LinkOfHalf, TransitAssumption
        <5> QED BY <3>8, <5>1
      <4> QED BY <3>3, <3>6, <4>1, <4>2 DEF Accepts
    <3> QED BY <3>4, <3>5, <3>7, <3>8 DEF Within
  <2> QED BY <2>2, <2>3
<1> HIDE DEF c, n
<1>3. Counts(c, n) BY <1>1, <1>2 DEF Counts
<1> QED BY <1>3 DEF c, n

\* Taking the first frame of a queue and its size off the counter keeps both exact.
LEMMA UncountKeeps ==
  ASSUME Counts(bytes, pending), pending = [q \in Queue |-> pending[q]],
         NEW q \in Queue, pending[q] # <<>>
  PROVE  /\ Counts(Uncounted(q), Rest(q))
         /\ \A p \in Queue : p # q => Uncounted(q)[p] = bytes[p] /\ Rest(q)[p] = pending[p]
         /\ Rest(q)[q] = Tail(pending[q])
<1> DEFINE u == Uncounted(q)
           r == Rest(q)
<1>1. /\ u = [p \in Queue |-> IF p = q THEN bytes[q] - Head(pending[q]).size ELSE bytes[p]]
      /\ r = [p \in Queue |-> IF p = q THEN Tail(pending[q]) ELSE pending[p]]
  BY DEF Uncounted, Rest, Counts
<1> HIDE DEF u, r
<1>2. ASSUME NEW p \in Queue
      PROVE  r[p] \in Seq(Frame) /\ u[p] = SizeOf(r[p]) /\ Within(p, u[p])
  <2>1. pending[p] \in Seq(Frame) /\ bytes[p] = SizeOf(pending[p]) /\ Within(p, bytes[p])
    BY DEF Counts
  <2>2. CASE p # q BY <1>1, <2>1, <2>2
  <2>3. CASE p = q
    <3>1. u[p] = SizeOf(pending[p]) - Head(pending[p]).size /\ r[p] = Tail(pending[p])
      BY <1>1, <2>1, <2>3
    <3>2. /\ SizeOf(Tail(pending[p])) = SizeOf(pending[p]) - Head(pending[p]).size
          /\ SizeOf(Tail(pending[p])) \in Nat /\ SizeOf(pending[p]) \in Nat
      BY <2>1, <2>3, SizeOfTail
    <3>3. Head(pending[p]).size \in Nat
      <4>1. Head(pending[p]) \in Frame BY <2>1, <2>3
      <4> QED BY <4>1 DEF Frame
    <3>4. r[p] \in Seq(Frame) BY <2>1, <2>3, <3>1
    <3>5. u[p] \in Nat /\ u[p] <= bytes[p] /\ bytes[p] \in Nat BY <2>1, <3>1, <3>2, <3>3
    <3>6. p \in Interface => MaxBuffer[p] \in Nat BY TransitAssumption
    <3>7. p \in Half => Bandwidth[LinkOf(p)] * Latency[LinkOf(p)] \in Nat
      BY LinkOfHalf, TransitAssumption
    <3>8. Within(p, u[p]) BY <2>1, <3>5, <3>6, <3>7 DEF Within
    <3> QED BY <3>1, <3>2, <3>4, <3>8
  <2> QED BY <2>2, <2>3
<1>3. Counts(u, r)
  <2>1. u = [p \in Queue |-> u[p]] BY <1>1
  <2> QED BY <1>2, <2>1 DEF Counts
<1> QED BY <1>1, <1>3 DEF u, r

\* In a compact map time stands at whole milli-seconds and never after the next event.
CompactTime ==
  ~realtime => clock = CurrentMs * TicksPerMs /\ \A e \in events : clock <= e.due

QueuesInv ==
  /\ SchedulerInv(Queue) /\ CompactTime
  /\ reserved \in [Half -> Nat]
  /\ AllGood(pending, events, reserved, CurrentMs)
  /\ Counts(bytes, pending)
  /\ script \in Seq(Step) /\ OnceWired(wiring, script)

\* Only targets take a frame, and only those that have room for it.
LEMMA TakersAccept ==
  ASSUME NEW targets, NEW f, NEW takers \in Takers(targets, f)
  PROVE  takers \in SUBSET RangeOf(targets) /\ \A q \in takers : Accepts(q, f)
BY DEF Takers

\* What a half hands a frame to: nobody twice, and not itself.
LEMMA ReceiversOnce ==
  ASSUME NEW steps, OnceWired(wiring, steps), NEW h \in Half, NEW f
  PROVE  /\ Receivers(h, f) \in Seq(Queue) /\ IsInjective(Receivers(h, f))
         /\ h \notin RangeOf(Receivers(h, f))
<1> DEFINE s == wiring.hears[h]
           t == wiring.bridges[h]
<1>1. /\ s \in Seq(Interface) /\ t \in Seq(Half) /\ IsInjective(s) /\ IsInjective(t) /\ h \notin RangeOf(t)
  BY DEF OnceWired, Sound, Wiring, NoRepeats, BridgedTo
<1>2. RangeOf(s) \subseteq Interface /\ RangeOf(t) \subseteq Half BY <1>1, RangeOfSeq
<1>3. Half \cap Interface = {} BY MapAssumption
<1> HIDE DEF s, t
<1>4. h \notin RangeOf(s) /\ RangeOf(s) \cap RangeOf(t) = {} BY <1>2, <1>3
<1>5. s \in Seq(Queue) /\ t \in Seq(Queue) BY <1>1 DEF Queue
<1>6. /\ s \o t \in Seq(Queue) /\ IsInjective(s \o t) /\ h \notin RangeOf(s \o t)
  <2>1. /\ Len(s) \in Nat /\ DOMAIN s = 1..Len(s) /\ Len(t) \in Nat /\ DOMAIN t = 1..Len(t)
        /\ s \o t \in Seq(Queue) /\ DOMAIN (s \o t) = 1..Len(s) + Len(t)
        /\ \A k \in 1..Len(s) + Len(t) : (s \o t)[k] = IF k <= Len(s) THEN s[k] ELSE t[k - Len(s)]
    BY <1>5
  <2>2. \A k \in 1..Len(s) : s[k] \in RangeOf(s) BY <2>1 DEF RangeOf
  <2>3. \A k \in 1..Len(t) : t[k] \in RangeOf(t) BY <2>1 DEF RangeOf
  <2>4. \A k \in 1..Len(s) + Len(t) : k > Len(s) => k - Len(s) \in 1..Len(t) BY <2>1
  <2>5. \A j, k \in 1..Len(s) : s[j] = s[k] => j = k BY <1>1, <2>1 DEF IsInjective
  <2>6. \A j, k \in 1..Len(t) : t[j] = t[k] => j = k BY <1>1, <2>1 DEF IsInjective
  <2>7. ASSUME NEW j \in 1..Len(s) + Len(t), NEW k \in 1..Len(s) + Len(t), (s \o t)[j] = (s \o t)[k]
        PROVE  j = k
    <3>1. CASE j <= Len(s) /\ k <= Len(s) BY <2>1, <2>5, <2>7, <3>1
    <3>2. CASE j <= Len(s) /\ k > Len(s) BY <1>4, <2>1, <2>2, <2>3, <2>4, <2>7, <3>2
    <3>3. CASE j > Len(s) /\ k <= Len(s) BY <1>4, <2>1, <2>2, <2>3, <2>4, <2>7, <3>3
    <3>4. CASE j > Len(s) /\ k > Len(s)
      <4>1. t[j - Len(s)] = t[k - Len(s)] BY <2>1, <2>7, <3>4
      <4>2. j - Len(s) = k - Len(s) BY <2>4, <2>6, <3>4, <4>1
      <4> QED BY <2>1, <4>2
    <3> QED BY <2>1, <3>1, <3>2, <3>3, <3>4
  <2>8. IsInjective(s \o t) BY <2>1, <2>7 DEF IsInjective
  <2>9. RangeOf(s \o t) \subseteq RangeOf(s) \cup RangeOf(t) BY <1>5, RangeOfConcat
  <2> QED BY <1>1, <1>4, <2>1, <2>8, <2>9
<1>7. CASE f.fresh BY <1>6, <1>7 DEF Receivers, s, t
<1>8. CASE ~f.fresh
  <2>1. s \o <<>> = s BY <1>5
  <2>2. Receivers(h, f) = s BY <1>8, <2>1 DEF Receivers, s
  <2> QED BY <1>1, <1>4, <1>5, <2>2
<1> QED BY <1>7, <1>8

\* The frame that a node sends
LEMMA SentFrame ==
  ASSUME NEW i \in Interface, NEW n \in Nat, NEW to \in SUBSET Interface
  PROVE  /\ [from |-> i, fresh |-> TRUE, to |-> to, size |-> n, ready |-> 0] \in Frame
         /\ [from |-> i, fresh |-> TRUE, to |-> to, size |-> n, ready |-> 0].size = n
BY DEF Frame

\* A node that sends keeps the counters of all queues exact.
LEMMA NodeSendsQueues ==
  ASSUME QueuesInv, NEW i \in Interface, NEW size \in Sizes, NEW to \in Addressees, NodeSends(i, size, to)
  PROVE  QueuesInv'
<1> DEFINE f == [from |-> i, fresh |-> TRUE, to |-> to, size |-> size, ready |-> 0]
           targets == wiring.sendsOn[i]
           ms == CurrentMs
<1>1. PICK takers \in Takers(targets, f), lag \in Lags :
        /\ Register(lag, Requests(targets, takers, f, ms))
        /\ pending' = Enqueued(pending, takers, f, ms)
        /\ bytes' = Charged(bytes, takers, f)
        /\ Reserve(takers, f, ms)
  BY DEF NodeSends
<1>2. UNCHANGED <<script, wiring>> BY DEF NodeSends
<1>3. f \in Frame BY TransitAssumption, SentFrame
<1>4. targets \in Seq(Queue) /\ IsInjective(targets)
  <2>1. targets \in Seq(Half) /\ IsInjective(targets)
    BY DEF QueuesInv, OnceWired, Sound, Wiring, NoRepeats
  <2>2. Half \subseteq Queue BY DEF Queue
  <2> HIDE DEF targets
  <2> QED BY <2>1, <2>2
<1>5. /\ realtime \in BOOLEAN /\ clock \in Nat /\ registered \in Nat
      /\ \A e \in events : e.no \in 1..registered
  BY DEF QueuesInv, SchedulerInv, EventsTyped
<1>6. lag \in Nat /\ (~realtime => lag = 0) BY <1>5, TicksAssumption DEF Lags
<1>7. ms = clock \div TicksPerMs BY DEF CurrentMs
<1> HIDE DEF f, ms, targets
<1>8. takers \in SUBSET RangeOf(targets) /\ \A q \in takers : Accepts(q, f) BY TakersAccept
<1> DEFINE R == Requests(targets, takers, f, ms)
           N == NewEvents(clock, lag, R)
<1>9. MsOf(clock, lag, ms) BY <1>6, <1>7 DEF MsOf, QueuesInv, CompactTime, ms
<1>10. ms \in Nat BY <1>5, <1>7, MsBounds
<1>11. R \in RequestsOf(Queue) BY <1>3, <1>4, <1>5, <1>6, <1>8, <1>10, OfferedEvents DEF QueuesInv
<1>12. /\ events' = events \cup N /\ clock' = clock + lag /\ realtime' = realtime
  BY <1>1 DEF Register
<1>13. SchedulerInv(Queue)' BY <1>1, <1>6, <1>11, RegisterKeeps DEF QueuesInv
<1>14. NewTyped(Queue, clock, N, NewTimers(clock, lag, R)) BY <1>5, <1>6, <1>11, NewMatching
<1>15. reserved' = NewReserved(takers, f, ms) BY <1>1 DEF Reserve, NewReserved
<1> HIDE DEF R
<1>16. AllGood(Enqueued(pending, takers, f, ms), events \cup N, NewReserved(takers, f, ms),
               (clock + lag) \div TicksPerMs)
  <2>1. AllGood(pending, events, reserved, ms) /\ reserved \in [Half -> Nat]
    BY DEF QueuesInv, ms
  <2>2. N = NewEvents(clock, lag, Requests(targets, takers, f, ms)) BY DEF R
  <2> HIDE DEF N
  <2> QED BY <1>3, <1>4, <1>5, <1>6, <1>8, <1>9, <2>1, <2>2, OfferKeeps
<1> HIDE DEF N
<1>17. AllGood(pending, events, reserved, CurrentMs)'
  <2>1. CurrentMs' = (clock + lag) \div TicksPerMs BY <1>12 DEF CurrentMs
  <2> QED BY <1>1, <1>12, <1>15, <1>16, <2>1 DEF AllGood
<1>18. CompactTime'
  <2> SUFFICES ASSUME ~realtime
               PROVE  clock' = CurrentMs' * TicksPerMs /\ \A e \in events' : clock' <= e.due
    BY <1>12 DEF CompactTime
  <2>1. clock' = clock BY <1>5, <1>6, <1>12
  <2>2. CurrentMs' = CurrentMs BY <2>1 DEF CurrentMs
  <2> QED BY <1>12, <1>14, <2>1, <2>2 DEF QueuesInv, CompactTime, NewTyped
<1>19. reserved' \in [Half -> Nat]
  <2>1. \A h \in Half : BusyUntil(h, f.size, ms) \in Nat BY <1>3, <1>10, BusyTime DEF Frame, QueuesInv
  <2> QED BY <1>15, <2>1 DEF NewReserved, QueuesInv
<1>20. Counts(bytes, pending)'
  <2>1. Counts(Charged(bytes, takers, f), Enqueued(pending, takers, f, ms))
    BY <1>3, <1>8, <1>10, ChargeKeeps DEF QueuesInv
  <2> QED BY <1>1, <2>1 DEF Counts
<1> QED BY <1>2, <1>13, <1>17, <1>18, <1>19, <1>20 DEF QueuesInv

\* The first event is taken from the scheduler, the first frame of its queue from the queue.
LEMMA ServedReady ==
  ASSUME QueuesInv, TimerExpired, Served \in Queue
  PROVE  /\ First \in events /\ First.due <= HandlerClock /\ HandlerClock \in Nat /\ clock <= HandlerClock
         /\ \A e \in events : First.due <= e.due
         /\ pending[Served] # <<>> /\ Head(pending[Served]) \in Frame
         /\ Head(pending[Served]).ready * TicksPerMs <= First.due
         /\ ~realtime => Head(pending[Served]).ready * TicksPerMs = HandlerClock
         /\ AllGood(Rest(Served), events \ {First}, reserved, HandlerClock \div TicksPerMs)
<1>1. First \in events /\ First.due <= HandlerClock /\ HandlerClock \in Nat
  BY NotEarly DEF QueuesInv
<1>2. /\ realtime \in BOOLEAN /\ clock \in Nat /\ events \in SUBSET [due : Nat, no : Nat, who : Queue]
      /\ \A e \in events : e.due \in Nat
  BY DEF QueuesInv, SchedulerInv, EventsTyped
<1>3. \A e \in events : First.due <= e.due
  <2>1. \A d \in events \ {First} : Before(First, d)
    BY <1>1, FirstExists DEF QueuesInv, SchedulerInv
  <2> QED BY <1>1, <1>2, <2>1 DEF Before
<1>4. clock <= HandlerClock BY <1>1, <1>2 DEF HandlerClock, QueuesInv, CompactTime
<1> DEFINE q == Served
           ms == HandlerClock \div TicksPerMs
           E == Whose(events, q)
<1>5. ms \in Nat /\ CurrentMs \in Nat /\ CurrentMs <= ms
  BY <1>1, <1>2, <1>4, MsBounds, MsGrow DEF CurrentMs
<1>6. reserved \in [Half -> Nat] /\ pending = [p \in Queue |-> pending[p]]
  BY DEF QueuesInv, AllGood
<1>7. \A p \in Queue : GoodQueue(realtime, pending[p], Whose(events, p), Latest(p, reserved, ms))
  <2> TAKE p \in Queue
  <2>1. GoodQueue(realtime, pending[p], Whose(events, p), Latest(p, reserved, CurrentMs))
    BY DEF QueuesInv, AllGood
  <2>2. /\ Latest(p, reserved, CurrentMs) \in Nat /\ Latest(p, reserved, ms) \in Nat
        /\ Latest(p, reserved, CurrentMs) <= Latest(p, reserved, ms)
    BY <1>5, <1>6, LatestGrows
  <2> QED BY <2>1, <2>2, GoodLater
<1> HIDE DEF ms
<1>8. First \in E /\ E \subseteq events BY <1>1 DEF Whose, Served
<1>9. q \in Queue OBVIOUS
<1>10. Latest(q, reserved, ms) \in Nat BY <1>5, <1>6, <1>9, LatestGrows
<1> HIDE DEF q, E
<1>11. /\ pending[q] # <<>> /\ Head(pending[q]) \in Frame
       /\ GoodQueue(realtime, Tail(pending[q]), E \ {First}, Latest(q, reserved, ms))
       /\ Head(pending[q]).ready * TicksPerMs <= First.due
       /\ ~realtime => Head(pending[q]).ready * TicksPerMs = First.due
  <2>1. GoodQueue(realtime, pending[q], E, Latest(q, reserved, ms)) BY <1>7, <1>9 DEF E
  <2>2. E \subseteq [due : Nat, no : Nat, who : Queue] BY <1>2, <1>8
  <2>3. \A e \in E : First.due <= e.due BY <1>3, <1>8
  <2>4. First \in E BY <1>8
  <2>5. pending[q] # <<>> /\ Head(pending[q]) \in Frame
    BY <1>10, <2>1, <2>2, <2>3, <2>4, GoodTail
  <2>6. GoodQueue(realtime, Tail(pending[q]), E \ {First}, Latest(q, reserved, ms))
    BY <1>10, <2>1, <2>2, <2>3, <2>4, GoodTail
  <2>7. Timely(realtime, Head(pending[q]), First)
    BY <1>10, <2>1, <2>2, <2>3, <2>4, GoodTail
  <2> QED BY <2>5, <2>6, <2>7 DEF Timely
<1>12. AllGood(Rest(q), events \ {First}, reserved, ms)
  <2>1. Rest(q) = [p \in Queue |-> IF p = q THEN Tail(pending[q]) ELSE pending[p]]
    BY <1>6 DEF Rest
  <2>2. \A p \in Queue : Whose(events \ {First}, p) = IF p = q THEN E \ {First} ELSE Whose(events, p)
    BY DEF Whose, E, q, Served
  <2>3. \A p \in Queue : GoodQueue(realtime, Rest(q)[p], Whose(events \ {First}, p), Latest(p, reserved, ms))
    BY <1>7, <1>11, <2>1, <2>2
  <2> QED BY <2>1, <2>3 DEF AllGood
<1>13. ~realtime => HandlerClock = First.due BY DEF HandlerClock
<1> QED BY <1>1, <1>3, <1>4, <1>11, <1>12, <1>13 DEF q, ms

\* A link lets its first frame go and offers it to its receivers.
LEMMA LinkPropagatesQueues ==
  ASSUME QueuesInv, LinkPropagates
  PROVE  QueuesInv'
<1> DEFINE h == Served
           f == Head(pending[h])
           targets == Receivers(h, f)
           from == HandlerClock
           ms == from \div TicksPerMs
<1>1. h \in Half /\ TimerExpired /\ UNCHANGED <<script, wiring>> BY DEF LinkPropagates
<1>2. PICK takers \in Takers(targets, f), lag \in Lags :
        /\ ProcessNext(lag, Requests(targets, takers, f, ms))
        /\ pending' = Enqueued(Rest(h), takers, Forward(f), ms)
        /\ bytes' = Charged(Uncounted(h), takers, f)
        /\ Reserve(takers, f, ms)
  BY DEF LinkPropagates
<1>3. h \in Queue BY <1>1 DEF Queue
<1>4. /\ First \in events /\ from \in Nat /\ clock <= from
      /\ \A e \in events : First.due <= e.due
      /\ pending[h] # <<>> /\ f \in Frame
      /\ ~realtime => f.ready * TicksPerMs = from
      /\ AllGood(Rest(h), events \ {First}, reserved, ms)
  BY <1>1, <1>3, ServedReady
<1>5. /\ realtime \in BOOLEAN /\ clock \in Nat /\ registered \in Nat
      /\ \A e \in events : e.no \in 1..registered
  BY DEF QueuesInv, SchedulerInv, EventsTyped
<1>6. lag \in Nat /\ (~realtime => lag = 0) BY <1>5, TicksAssumption DEF Lags
<1>7. /\ targets \in Seq(Queue) /\ IsInjective(targets) /\ h \notin RangeOf(targets)
  BY <1>1, ReceiversOnce DEF QueuesInv
<1>8. Forward(f) \in Frame /\ Forward(f).size = f.size BY <1>4, ForwardOfFrame
<1>9. MsOf(from, lag, ms)
  <2>1. f.ready \in Nat BY <1>4 DEF Frame
  <2>2. (f.ready * TicksPerMs) \div TicksPerMs = f.ready BY <2>1, MsExact
  <2>3. ~realtime => from = ms * TicksPerMs BY <1>4, <2>2
  <2> QED BY <1>6, <2>3 DEF MsOf
<1>10. ms \in Nat BY <1>4, MsBounds
<1> HIDE DEF h, f, targets, ms
<1>11. takers \in SUBSET RangeOf(targets) /\ \A q \in takers : Accepts(q, f) BY TakersAccept
<1> DEFINE R == Requests(targets, takers, f, ms)
           N == NewEvents(from, lag, R)
<1>12. R \in RequestsOf(Queue) BY <1>4, <1>5, <1>6, <1>7, <1>10, <1>11, OfferedEvents DEF QueuesInv
<1>13. /\ events' = (events \cup N) \ {First} /\ clock' = from + lag /\ realtime' = realtime
  BY <1>2 DEF ProcessNext
<1>14. SchedulerInv(Queue)' BY <1>2, <1>6, <1>12, ProcessNextKeeps DEF QueuesInv
<1>15. /\ NewTyped(Queue, from, N, NewTimers(from, lag, R))
       /\ \A d \in N : d.no \in registered + 1..registered + Len(R)
  BY <1>4, <1>5, <1>6, <1>12, NewMatching
<1>16. First \notin N
  <2>1. Len(R) \in Nat BY <1>12, ElementsOfSeq DEF RequestsOf
  <2> QED BY <1>4, <1>5, <1>15, <2>1
<1>17. events' = (events \ {First}) \cup N BY <1>13, <1>16
<1>18. reserved' = NewReserved(takers, f, ms) BY <1>2 DEF Reserve, NewReserved
<1>19. N = NewEvents(from, lag, Requests(targets, takers, f, ms)) OBVIOUS
<1> HIDE DEF R, N, from
<1>20. AllGood(Enqueued(Rest(h), takers, Forward(f), ms), (events \ {First}) \cup N,
               NewReserved(takers, f, ms), (from + lag) \div TicksPerMs)
  <2>1. reserved \in [Half -> Nat] BY DEF QueuesInv
  <2>2. \A e \in events \ {First} : e.no \in 1..registered BY <1>5
  <2> DEFINE E == events \ {First}
             g == Forward(f)
             rest == Rest(h)
  <2>3. AllGood(rest, E, reserved, ms) BY <1>4
  <2> HIDE DEF E, g, rest
  <2>4. g \in Frame /\ g.size = f.size BY <1>8 DEF g
  <2>5. \A e \in E : e.no \in 1..registered BY <2>2 DEF E
  <2>6. AllGood(Enqueued(rest, takers, g, ms), E \cup N, NewReserved(takers, f, ms),
                (from + lag) \div TicksPerMs)
    BY <1>4, <1>5, <1>6, <1>7, <1>9, <1>11, <1>19, <2>1, <2>3, <2>4, <2>5, OfferKeeps
  <2> QED BY <2>6 DEF E, g, rest
<1>21. AllGood(pending, events, reserved, CurrentMs)'
  <2>1. CurrentMs' = (from + lag) \div TicksPerMs BY <1>13 DEF CurrentMs
  <2> QED BY <1>2, <1>13, <1>17, <1>18, <1>20, <2>1 DEF AllGood
<1>22. CompactTime'
  <2> SUFFICES ASSUME ~realtime
               PROVE  clock' = CurrentMs' * TicksPerMs /\ \A e \in events' : clock' <= e.due
    BY <1>13 DEF CompactTime
  <2>1. clock' = from /\ from = First.due
    <3>1. from = First.due BY DEF from, HandlerClock
    <3> QED BY <1>4, <1>6, <1>13, <3>1
  <2>2. CurrentMs' = ms BY <2>1 DEF CurrentMs, ms
  <2>3. from = ms * TicksPerMs BY <1>9 DEF MsOf
  <2> QED BY <1>4, <1>15, <1>17, <2>1, <2>2, <2>3 DEF NewTyped
<1>23. reserved' \in [Half -> Nat]
  <2>1. \A x \in Half : BusyUntil(x, f.size, ms) \in Nat BY <1>4, <1>10, BusyTime DEF Frame, QueuesInv
  <2> QED BY <1>18, <2>1 DEF NewReserved, QueuesInv
<1>24. Counts(bytes, pending)'
  <2>1. /\ Counts(Uncounted(h), Rest(h))
        /\ \A p \in Queue : p # h => Uncounted(h)[p] = bytes[p]
    BY <1>3, <1>4, UncountKeeps DEF QueuesInv, AllGood
  <2>2. \A q \in takers : Accepts(q, f) /\ Uncounted(h)[q] = bytes[q]
    <3>1. \A q \in takers : q \in Queue /\ q # h BY <1>7, <1>11, RangeOfSeq
    <3> QED BY <1>11, <2>1, <3>1
  <2> DEFINE g == Forward(f)
             u == Uncounted(h)
             rest == Rest(h)
  <2> HIDE DEF g, u, rest
  <2>3. Counts(Charged(u, takers, f), Enqueued(rest, takers, g, ms))
    <3>1. Counts(u, rest) /\ g \in Frame /\ g.size = f.size /\ reserved \in [Half -> Nat]
          /\ \A q \in takers : Accepts(q, f) /\ u[q] = bytes[q]
      BY <1>8, <2>1, <2>2 DEF g, u, rest, QueuesInv
    <3> QED BY <1>4, <1>10, <3>1, ChargeKeeps
  <2> QED BY <1>2, <2>3 DEF g, u, rest, Counts
<1> QED BY <1>1, <1>14, <1>21, <1>22, <1>23, <1>24 DEF QueuesInv

\* An interface lets its first frame go.
LEMMA InterfaceForwardsQueues ==
  ASSUME QueuesInv, InterfaceForwards
  PROVE  QueuesInv'
<1> DEFINE q == Served
           from == HandlerClock
           ms == from \div TicksPerMs
           f == Head(pending[q])
<1>1. /\ q \in Interface /\ TimerExpired /\ UNCHANGED <<script, wiring, reserved>>
      /\ pending' = Rest(q) /\ bytes' = Uncounted(q)
  BY DEF InterfaceForwards
<1>2. PICK lag \in Lags : ProcessNext(lag, <<>>) BY DEF InterfaceForwards
<1>3. q \in Queue BY <1>1 DEF Queue
<1>4. /\ First \in events /\ from \in Nat /\ clock <= from
      /\ \A e \in events : First.due <= e.due
      /\ pending[q] # <<>> /\ f \in Frame
      /\ ~realtime => f.ready * TicksPerMs = from
      /\ AllGood(Rest(q), events \ {First}, reserved, ms)
  BY <1>1, <1>3, ServedReady
<1>5. realtime \in BOOLEAN /\ reserved \in [Half -> Nat] BY DEF QueuesInv, SchedulerInv
<1>6. lag \in Nat /\ (~realtime => lag = 0) BY <1>5, TicksAssumption DEF Lags
<1>7. /\ events' = events \ {First} /\ clock' = from + lag /\ realtime' = realtime
  BY <1>2, NoNewEvent DEF ProcessNext
<1>8. SchedulerInv(Queue)' BY <1>2, <1>6, NoRequest, ProcessNextKeeps DEF QueuesInv
<1>9. ~realtime => from = ms * TicksPerMs
  <2>1. f.ready \in Nat BY <1>4 DEF Frame
  <2>2. (f.ready * TicksPerMs) \div TicksPerMs = f.ready BY <2>1, MsExact
  <2> QED BY <1>4, <2>2
<1>10. ms \in Nat BY <1>4, MsBounds
<1> DEFINE later == (from + lag) \div TicksPerMs
<1>11. later \in Nat /\ ms <= later
  <2>1. from + lag \in Nat /\ from <= from + lag BY <1>4, <1>6
  <2> QED BY <1>4, <2>1, MsBounds, MsGrow
<1>12. CurrentMs' = later BY <1>7 DEF CurrentMs
<1>13. CompactTime'
  <2> SUFFICES ASSUME ~realtime
               PROVE  clock' = CurrentMs' * TicksPerMs /\ \A e \in events' : clock' <= e.due
    BY <1>7 DEF CompactTime
  <2>1. clock' = from /\ from = First.due
    <3>1. from = First.due BY DEF from, HandlerClock
    <3> QED BY <1>4, <1>6, <1>7, <3>1
  <2>2. CurrentMs' = ms BY <2>1 DEF CurrentMs
  <2> QED BY <1>4, <1>7, <1>9, <2>1, <2>2
<1> HIDE DEF later, ms, from, f
<1>14. AllGood(pending, events, reserved, CurrentMs)'
  <2>1. ASSUME NEW p \in Queue
        PROVE  GoodQueue(realtime, Rest(q)[p], Whose(events \ {First}, p), Latest(p, reserved, later))
    <3>1. GoodQueue(realtime, Rest(q)[p], Whose(events \ {First}, p), Latest(p, reserved, ms))
      BY <1>4 DEF AllGood
    <3>2. /\ Latest(p, reserved, ms) \in Nat /\ Latest(p, reserved, later) \in Nat
          /\ Latest(p, reserved, ms) <= Latest(p, reserved, later)
      BY <1>5, <1>10, <1>11, LatestGrows
    <3> QED BY <3>1, <3>2, GoodLater
  <2>2. Rest(q) = [p \in Queue |-> Rest(q)[p]] BY <1>4 DEF AllGood
  <2> QED BY <1>1, <1>7, <1>12, <2>1, <2>2 DEF AllGood
<1>15. Counts(bytes, pending)'
  <2>1. Counts(Uncounted(q), Rest(q)) BY <1>3, <1>4, UncountKeeps DEF QueuesInv, AllGood
  <2> QED BY <1>1, <2>1 DEF Counts
<1> QED BY <1>1, <1>5, <1>8, <1>13, <1>14, <1>15 DEF QueuesInv

\* Time that passes only lets the last frame of an interface go later.
LEMMA TimePassesQueues ==
  ASSUME QueuesInv, TimePasses
  PROVE  QueuesInv'
<1>1. /\ realtime /\ clock' = clock + 1 /\ UNCHANGED <<realtime, events>>
      /\ UNCHANGED <<script, wiring, reserved, pending, bytes>> /\ Tick
  BY DEF TimePasses, Tick, transitVars
<1>2. SchedulerInv(Queue)' BY <1>1, TickKeeps DEF QueuesInv
<1>3. reserved \in [Half -> Nat] /\ clock \in Nat BY DEF QueuesInv, SchedulerInv
<1>4. CompactTime' BY <1>1 DEF CompactTime
<1> DEFINE m == CurrentMs
           n == (clock + 1) \div TicksPerMs
<1>5. m \in Nat /\ n \in Nat /\ m <= n
  <2>1. clock + 1 \in Nat /\ clock <= clock + 1 BY <1>3
  <2> QED BY <1>3, <2>1, MsBounds, MsGrow DEF CurrentMs
<1>6. CurrentMs' = n BY <1>1 DEF CurrentMs
<1> HIDE DEF m, n
<1>7. AllGood(pending, events, reserved, CurrentMs)'
  <2>1. ASSUME NEW p \in Queue
        PROVE  GoodQueue(realtime, pending[p], Whose(events, p), Latest(p, reserved, n))
    <3>1. GoodQueue(realtime, pending[p], Whose(events, p), Latest(p, reserved, m))
      BY DEF AllGood, QueuesInv, m
    <3>2. /\ Latest(p, reserved, m) \in Nat /\ Latest(p, reserved, n) \in Nat
          /\ Latest(p, reserved, m) <= Latest(p, reserved, n)
      BY <1>3, <1>5, LatestGrows
    <3> QED BY <3>1, <3>2, GoodLater
  <2> QED BY <1>1, <1>6, <2>1 DEF AllGood, QueuesInv
<1>8. Counts(bytes, pending)' BY <1>1 DEF Counts, QueuesInv
<1> QED BY <1>1, <1>2, <1>3, <1>4, <1>7, <1>8 DEF QueuesInv

\* A part of the map is connected.
LEMMA ConnectQueues ==
  ASSUME QueuesInv, Connect
  PROVE  QueuesInv'
<1>1. /\ script # <<>> /\ Possible(wiring, Head(script)) /\ wiring' = Connected(wiring, Head(script))
      /\ script' = Tail(script) /\ UNCHANGED schedulerVars
      /\ UNCHANGED <<pending, bytes, reserved>>
  BY DEF Connect
<1>2. script \in Seq(Step) /\ OnceWired(wiring, script) BY DEF QueuesInv
<1>3. script' \in Seq(Step) BY <1>1, <1>2
<1>4. OnceWired(wiring', script') BY <1>1, <1>2, ConnectionOnceWired
<1>5. SchedulerInv(Queue)' BY <1>1, IdleKeeps DEF QueuesInv
<1>6. /\ CompactTime' /\ AllGood(pending, events, reserved, CurrentMs)' /\ Counts(bytes, pending)'
      /\ reserved' \in [Half -> Nat]
  BY <1>1 DEF QueuesInv, CompactTime, AllGood, Counts, CurrentMs, schedulerVars
<1> QED BY <1>3, <1>4, <1>5, <1>6 DEF QueuesInv

\* Every step of the map keeps the counters of all queues exact.
LEMMA QueuesStep ==
  ASSUME QueuesInv, [Next]_vars
  PROVE  QueuesInv'
<1>1. ASSUME NEW i \in Interface, NEW size \in Sizes, NEW to \in Addressees, NodeSends(i, size, to)
      PROVE  QueuesInv'
  BY <1>1, NodeSendsQueues
<1>2. CASE Connect BY <1>2, ConnectQueues
<1>3. CASE LinkPropagates BY <1>3, LinkPropagatesQueues
<1>4. CASE InterfaceForwards BY <1>4, InterfaceForwardsQueues
<1>5. CASE TimePasses BY <1>5, TimePassesQueues
<1>6. ASSUME UNCHANGED schedulerVars /\ UNCHANGED <<script, wiring, pending, bytes, reserved>>
      PROVE  QueuesInv'
  <2>1. SchedulerInv(Queue)' BY <1>6, IdleKeeps DEF QueuesInv
  <2>2. /\ CompactTime' /\ AllGood(pending, events, reserved, CurrentMs)' /\ Counts(bytes, pending)'
        /\ reserved' \in [Half -> Nat] /\ script' \in Seq(Step) /\ OnceWired(wiring, script)'
    BY <1>6 DEF QueuesInv, CompactTime, AllGood, Counts, CurrentMs, schedulerVars
  <2> QED BY <2>1, <2>2 DEF QueuesInv
<1>7. ASSUME Refuse \/ (\E l \in Switched, up \in BOOLEAN : TurnLink(l, up)) \/ UNCHANGED vars
      PROVE  UNCHANGED schedulerVars /\ UNCHANGED <<script, wiring, pending, bytes, reserved>>
  BY <1>7 DEF Refuse, TurnLink, vars, transitVars
<1> QED BY <1>1, <1>2, <1>3, <1>4, <1>5, <1>6, <1>7 DEF Next

\* An idle map
LEMMA QueuesInitial ==
  ASSUME Init
  PROVE  QueuesInv
<1>1. /\ SchedulerInit /\ script \in Scripts /\ wiring = Unwired
      /\ pending = [q \in Queue |-> <<>>] /\ bytes = [q \in Queue |-> 0]
      /\ reserved = [h \in Half |-> 0]
  BY DEF Init
<1>2. SchedulerInv(Queue) BY <1>1, SchedulerStarts
<1>3. clock = 0 /\ events = {} /\ CurrentMs = 0
  BY <1>1, TicksAssumption DEF SchedulerInit, CurrentMs
<1>4. CompactTime BY <1>3, TicksAssumption DEF CompactTime
<1>5. AllGood(pending, events, reserved, CurrentMs)
  <2>1. Awaited(realtime, <<>>, {}, <<>>) BY DEF Awaited, IsInjective
  <2>2. <<>> \in Seq(Frame) /\ InOrder(<<>>) BY DEF InOrder
  <2>3. \A n : GoodQueue(realtime, <<>>, {}, n) BY <2>1, <2>2 DEF GoodQueue
  <2>4. \A q \in Queue : Whose(events, q) = {} /\ pending[q] = <<>> BY <1>1, <1>3 DEF Whose
  <2> QED BY <1>1, <2>3, <2>4 DEF AllGood
<1>6. Counts(bytes, pending)
  <2>1. \A q \in Queue : Within(q, 0)
    <3>1. \A q \in Interface : MaxBuffer[q] \in Nat BY TransitAssumption
    <3>2. \A q \in Half : Bandwidth[LinkOf(q)] * Latency[LinkOf(q)] \in Nat
      BY LinkOfHalf, TransitAssumption
    <3> QED BY <3>1, <3>2 DEF Within
  <2> QED BY <1>1, <2>1, SizeOfNothing DEF Counts
<1>7. script \in Seq(Step) /\ OnceWired(wiring, script) BY <1>1, MapAssumption, UnwiredOnce
<1> QED BY <1>1, <1>2, <1>4, <1>5, <1>6, <1>7 DEF QueuesInv

\* In every behaviour of the map's links and interfaces (FrameTransit) the strengthened invariant
\* of the queues holds.
THEOREM QueuesInvariance == Spec => []QueuesInv
<1>1. Init => QueuesInv BY QueuesInitial
<1>2. QueuesInv /\ [Next]_vars => QueuesInv' BY QueuesStep
<1> QED BY <1>1, <1>2, PTL DEF Spec

\* Whoever the scheduler serves has a frame, no frame waits for ever unregistered, and the
\* counted bytes are those of the frames that wait (processNextEvent, processRegisteredFrame,
\* forwardFrameForProcessing, AbstractLinkHalf's onAirBytes, Interface's currentBufferUsage).
THEOREM QueuesAreExact == Spec => []QueuesExact
<1>1. ASSUME QueuesInv PROVE EventsMatchQueues
  <2>1. \A q \in Queue : Cardinality(EventsOf(q)) = Len(pending[q])
    <3> TAKE q \in Queue
    <3>1. GoodQueue(realtime, pending[q], Whose(events, q), Latest(q, reserved, CurrentMs))
      BY <1>1 DEF QueuesInv, AllGood
    <3> QED BY <3>1, GoodCount DEF Whose, EventsOf
  <2>2. Cardinality(timers) = Cardinality(events)
    BY <1>1 DEF QueuesInv, SchedulerInv, TimersMatchEvents, Matching
  <2> QED BY <2>1, <2>2 DEF EventsMatchQueues
<1>2. ASSUME QueuesInv PROVE BytesExact
  BY <1>2 DEF QueuesInv, Counts, Within, BytesExact
<1>3. QueuesInv => QueuesExact BY <1>1, <1>2 DEF QueuesExact
<1> QED BY <1>3, QueuesInvariance, PTL

-----------------------------------------------------------------------------
(* Types. *)

SuffixesOf(S) == UNION {{SubSeq(s, n, Len(s)) : n \in 1..Len(s) + 1} : s \in S}

RegistersTyped ==
  /\ script \in SuffixesOf(Scripts)
  /\ failed \in BOOLEAN
  /\ active \in [Link -> BOOLEAN]
  /\ sent \in 0..MaxSends

\* What is left of the connections after the next
LEMMA TailOfSuffix ==
  ASSUME NEW s \in SuffixesOf(Scripts), s # <<>>
  PROVE  Tail(s) \in SuffixesOf(Scripts)
<1>1. PICK a \in Scripts : \E n \in 1..Len(a) + 1 : s = SubSeq(a, n, Len(a)) BY DEF SuffixesOf
<1>0. PICK n \in 1..Len(a) + 1 : s = SubSeq(a, n, Len(a)) BY <1>1
<1>2. a \in Seq(Step) /\ Len(a) \in Nat BY MapAssumption
<1>3. n \in 1..Len(a) BY <1>0, <1>2
<1>4. Tail(s) = SubSeq(a, n + 1, Len(a))
  <2>1. /\ Len(s) = Len(a) - n + 1 /\ s \in Seq(Step) /\ \A k \in 1..Len(s) : s[k] = a[n + k - 1]
    BY <1>0, <1>2, <1>3
  <2>2. /\ Tail(s) \in Seq(Step) /\ Len(Tail(s)) = Len(a) - n
        /\ \A k \in 1..Len(a) - n : Tail(s)[k] = a[n + k]
    BY <1>2, <1>3, <2>1
  <2>3. /\ SubSeq(a, n + 1, Len(a)) \in Seq(Step) /\ Len(SubSeq(a, n + 1, Len(a))) = Len(a) - n
        /\ \A k \in 1..Len(a) - n : SubSeq(a, n + 1, Len(a))[k] = a[n + k]
    BY <1>2, <1>3
  <2> DEFINE u == Tail(s)
             v == SubSeq(a, n + 1, Len(a))
  <2> HIDE DEF u, v
  <2>4. u \in Seq(Step) /\ Len(u) = Len(a) - n /\ v \in Seq(Step) /\ Len(v) = Len(a) - n
    BY <2>2, <2>3 DEF u, v
  <2>5. \A k \in 1..Len(a) - n : u[k] = v[k] BY <2>2, <2>3 DEF u, v
  <2>6. u = v BY <2>4, <2>5
  <2> QED BY <2>6 DEF u, v
<1>5. n + 1 \in 1..Len(a) + 1 BY <1>2, <1>3
<1> DEFINE X == {SubSeq(a, m, Len(a)) : m \in 1..Len(a) + 1}
<1>6. Tail(s) \in X BY <1>4, <1>5
<1>7. X \in {{SubSeq(b, m, Len(b)) : m \in 1..Len(b) + 1} : b \in Scripts} OBVIOUS
<1> QED BY <1>6, <1>7 DEF SuffixesOf

\* Every step of the map keeps the registers that measure delays typed.
LEMMA RegistersStep ==
  ASSUME RegistersTyped, [Next]_vars
  PROVE  RegistersTyped'
<1>1. CASE Connect
  <2>1. /\ script # <<>> /\ script' = Tail(script) /\ UNCHANGED <<failed, active, sent>>
    BY <1>1 DEF Connect
  <2> QED BY <2>1, TailOfSuffix DEF RegistersTyped
<1>2. CASE Refuse BY <1>2 DEF Refuse, RegistersTyped
<1>3. ASSUME NEW i \in Interface, NEW size, NEW to, NodeSends(i, size, to)
      PROVE  RegistersTyped'
  <2>1. sent < MaxSends /\ sent' = sent + 1 /\ UNCHANGED <<script, failed, active>>
    BY <1>3 DEF NodeSends
  <2>2. sent' \in 0..MaxSends BY <2>1, TransitAssumption DEF RegistersTyped
  <2> QED BY <2>1, <2>2 DEF RegistersTyped
<1>4. ASSUME NEW l \in Switched, NEW up \in BOOLEAN, TurnLink(l, up)
      PROVE  RegistersTyped'
  <2>1. active' = [active EXCEPT ![l] = up] /\ UNCHANGED <<script, failed, sent>>
    BY <1>4 DEF TurnLink
  <2>2. active' \in [Link -> BOOLEAN] BY <2>1, TransitAssumption DEF RegistersTyped
  <2> QED BY <2>1, <2>2 DEF RegistersTyped
<1>5. ASSUME LinkPropagates \/ InterfaceForwards \/ TimePasses \/ UNCHANGED vars
      PROVE  RegistersTyped'
  <2>1. UNCHANGED <<script, failed, active, sent>>
    BY <1>5 DEF LinkPropagates, InterfaceForwards, TimePasses, vars, transitVars
  <2> QED BY <2>1 DEF RegistersTyped
<1> QED BY <1>1, <1>2, <1>3, <1>4, <1>5 DEF Next

\* Every variable has its type, for any map and any traffic.
THEOREM TransitTyped == Spec => []TypeOK
<1>1. Init => RegistersTyped
  <2> SUFFICES ASSUME Init PROVE RegistersTyped OBVIOUS
  <2>1. script \in Scripts /\ failed = FALSE /\ active = [l \in Link |-> TRUE] /\ sent = 0
    BY DEF Init
  <2>2. script \in Seq(Step) BY <2>1, MapAssumption
  <2>3. script = SubSeq(script, 1, Len(script)) /\ 1 \in 1..Len(script) + 1 BY <2>2
  <2>4. script \in SuffixesOf(Scripts) BY <2>1, <2>3 DEF SuffixesOf
  <2>5. sent \in 0..MaxSends BY <2>1, TransitAssumption
  <2>6. failed \in BOOLEAN /\ active \in [Link -> BOOLEAN] BY <2>1
  <2> QED BY <2>4, <2>5, <2>6 DEF RegistersTyped
<1>2. RegistersTyped /\ [Next]_vars => RegistersTyped' BY RegistersStep
<1>3. Spec => []RegistersTyped BY <1>1, <1>2, PTL DEF Spec
<1>4. ASSUME QueuesInv, RegistersTyped PROVE TypeOK
  <2>1. wiring \in Wiring BY <1>4 DEF QueuesInv, OnceWired, Sound
  <2>2. wiring.clients \in [Link -> Nat] BY <2>1 DEF Wiring
  <2>3. \A h \in Half : RangeOf(wiring.hears[h]) \subseteq Interface /\ RangeOf(wiring.bridges[h]) \subseteq Half
    <3>1. \A h \in Half : wiring.hears[h] \in Seq(Interface) /\ wiring.bridges[h] \in Seq(Half)
      BY <2>1 DEF Wiring
    <3> QED BY <3>1, RangeOfSeq
  <2>4. \A i \in Interface : RangeOf(wiring.sendsOn[i]) \subseteq Half
    <3>1. \A i \in Interface : wiring.sendsOn[i] \in Seq(Half) BY <2>1 DEF Wiring
    <3> QED BY <3>1, RangeOfSeq
  <2>5. \A q \in Queue : RangeOf(pending[q]) \subseteq Frame /\ bytes[q] \in Nat
    <3> TAKE q \in Queue
    <3>1. pending[q] \in Seq(Frame) /\ bytes[q] = SizeOf(pending[q]) BY <1>4 DEF QueuesInv, Counts
    <3>2. SizeOf(pending[q]) \in Nat
      <4>1. CASE pending[q] = <<>> BY <4>1, SizeOfNothing
      <4>2. CASE pending[q] # <<>> BY <3>1, <4>2, SizeOfTail
      <4> QED BY <4>1, <4>2
    <3>3. RangeOf(pending[q]) \subseteq Frame BY <3>1, RangeOfSeq
    <3> QED BY <3>1, <3>2, <3>3
  <2>6. /\ realtime \in BOOLEAN /\ clock \in Nat /\ registered \in Nat
        /\ \A e \in events : e.due \in Nat /\ e.no \in 1..registered /\ e.who \in Queue
        /\ \A t \in timers : t.at \in Nat /\ t.no \in 1..registered
    BY <1>4 DEF QueuesInv, SchedulerInv, EventsTyped, TimersTyped
  <2>7. reserved \in [Half -> Nat] BY <1>4 DEF QueuesInv
  <2>8. /\ script \in UNION {{SubSeq(s, n, Len(s)) : n \in 1..Len(s) + 1} : s \in Scripts}
        /\ failed \in BOOLEAN /\ active \in [Link -> BOOLEAN] /\ sent \in 0..MaxSends
    BY <1>4 DEF RegistersTyped, SuffixesOf
  <2> QED BY <2>2, <2>3, <2>4, <2>5, <2>6, <2>7, <2>8 DEF TypeOK
<1> QED BY <1>3, <1>4, QueuesInvariance, PTL

-----------------------------------------------------------------------------
(* Queues are lines. *)

\* What a step may do to a queue, and when.
MoveOf(q) ==
  \/ pending'[q] = pending[q]
  \/ \E c \in Frame : pending'[q] = Append(pending[q], c)
  \/ /\ pending[q] # <<>> /\ pending'[q] = Tail(pending[q])
     /\ Head(pending[q]).ready * TicksPerMs <= clock'
     /\ ~realtime => Head(pending[q]).ready * TicksPerMs = clock'

\* A queue stays as it is or gets one frame more.
StaysOrGrows(before, after) ==
  after = before \/ \E c \in Frame : after = Append(before, c)

\* Queueing a frame leaves each queue as it is or appends one frame to it.
LEMMA EnqueuedMove ==
  ASSUME NEW queues, NEW takers, NEW g \in Frame, NEW ms \in Nat, NEW q \in Queue,
         reserved \in [Half -> Nat]
  PROVE  StaysOrGrows(queues[q], Enqueued(queues, takers, g, ms)[q])
<1>1. CASE q \notin takers BY <1>1 DEF Enqueued, StaysOrGrows
<1>2. CASE q \in takers
  <2> DEFINE r == ReadyAt(q, g.size, ms)
  <2>1. r \in Nat BY PromisedTime
  <2>2. Enqueued(queues, takers, g, ms)[q] = Append(queues[q], [g EXCEPT !.ready = r])
    BY <1>2 DEF Enqueued
  <2> HIDE DEF r
  <2>3. [g EXCEPT !.ready = r] \in Frame BY <2>1, CopyOfFrame
  <2> QED BY <2>2, <2>3 DEF StaysOrGrows
<1> QED BY <1>1, <1>2

\* In every step time goes on, and each queue stays, grows at its end or loses its head.
LEMMA Moves ==
  ASSUME QueuesInv, [Next]_vars
  PROVE  clock <= clock' /\ realtime' = realtime /\ \A q \in Queue : MoveOf(q)
<1>0. /\ clock \in Nat /\ realtime \in BOOLEAN /\ reserved \in [Half -> Nat]
      /\ pending = [q \in Queue |-> pending[q]]
  BY DEF QueuesInv, SchedulerInv, AllGood
<1>a. Lags \subseteq Nat /\ (~realtime => \A lag \in Lags : lag = 0) BY <1>0, TicksAssumption DEF Lags
<1>1. ASSUME NEW i \in Interface, NEW size \in Sizes, NEW to \in Addressees, NodeSends(i, size, to)
      PROVE  clock <= clock' /\ realtime' = realtime /\ \A q \in Queue : MoveOf(q)
  <2> DEFINE f == [from |-> i, fresh |-> TRUE, to |-> to, size |-> size, ready |-> 0]
             ms == CurrentMs
  <2>1. PICK takers \in Takers(wiring.sendsOn[i], f), lag \in Lags :
          /\ Register(lag, Requests(wiring.sendsOn[i], takers, f, ms))
          /\ pending' = Enqueued(pending, takers, f, ms)
    BY <1>1 DEF NodeSends
  <2>2. f \in Frame BY TransitAssumption, SentFrame
  <2>3. ms \in Nat BY <1>0, MsBounds DEF CurrentMs
  <2>4. clock' = clock + lag /\ realtime' = realtime BY <2>1 DEF Register
  <2> HIDE DEF f, ms
  <2>5. ASSUME NEW q \in Queue PROVE MoveOf(q)
    <3>1. StaysOrGrows(pending[q], Enqueued(pending, takers, f, ms)[q])
      BY <1>0, <2>2, <2>3, EnqueuedMove
    <3>2. StaysOrGrows(pending[q], pending'[q]) BY <2>1, <3>1
    <3> QED BY <3>2 DEF MoveOf, StaysOrGrows
  <2> QED BY <1>0, <1>a, <2>4, <2>5
<1>2. CASE LinkPropagates
  <2> DEFINE h == Served
             f == Head(pending[h])
             ms == HandlerClock \div TicksPerMs
  <2>1. h \in Half /\ TimerExpired BY <1>2 DEF LinkPropagates
  <2>2. PICK takers \in Takers(Receivers(h, f), f), lag \in Lags :
          /\ ProcessNext(lag, Requests(Receivers(h, f), takers, f, ms))
          /\ pending' = Enqueued(Rest(h), takers, Forward(f), ms)
    BY <1>2 DEF LinkPropagates
  <2>3. h \in Queue BY <2>1 DEF Queue
  <2>4. /\ First.due <= HandlerClock /\ HandlerClock \in Nat /\ clock <= HandlerClock
        /\ pending[h] # <<>> /\ f \in Frame /\ First \in events
        /\ f.ready * TicksPerMs <= First.due
        /\ ~realtime => f.ready * TicksPerMs = HandlerClock
    BY <2>1, <2>3, ServedReady
  <2>5. clock' = HandlerClock + lag /\ realtime' = realtime BY <2>2 DEF ProcessNext
  <2>6. lag \in Nat /\ (~realtime => lag = 0) BY <1>a
  <2>7. Forward(f) \in Frame /\ ms \in Nat BY <2>4, ForwardOfFrame, MsBounds
  <2>8. h \notin takers
    <3>1. takers \subseteq RangeOf(Receivers(h, f)) BY TakersAccept
    <3>2. h \notin RangeOf(Receivers(h, f)) BY <2>1, ReceiversOnce DEF QueuesInv
    <3> QED BY <3>1, <3>2
  <2>9. Rest(h)[h] = Tail(pending[h]) /\ \A q \in Queue : q # h => Rest(h)[q] = pending[q]
    BY <1>0, <2>3 DEF Rest
  <2>10. First.due \in Nat /\ f.ready * TicksPerMs \in Nat
    <3>1. First.due \in Nat BY <2>4 DEF QueuesInv, SchedulerInv, EventsTyped
    <3>2. f.ready \in Nat BY <2>4 DEF Frame
    <3> QED BY <3>1, <3>2, TicksGrow
  <2> HIDE DEF h, f, ms
  <2>11. ASSUME NEW q \in Queue, q # h PROVE MoveOf(q)
    <3>1. StaysOrGrows(Rest(h)[q], Enqueued(Rest(h), takers, Forward(f), ms)[q])
      BY <1>0, <2>7, EnqueuedMove
    <3>2. StaysOrGrows(pending[q], pending'[q]) BY <2>2, <2>9, <2>11, <3>1
    <3> QED BY <3>2 DEF MoveOf, StaysOrGrows
  <2>12. MoveOf(h)
    <3>1. pending'[h] = Tail(pending[h]) BY <2>2, <2>3, <2>8, <2>9 DEF Enqueued
    <3>2. f.ready * TicksPerMs <= clock' BY <2>4, <2>5, <2>6, <2>10
    <3>3. ~realtime => f.ready * TicksPerMs = clock' BY <2>4, <2>5, <2>6
    <3> QED BY <2>4, <3>1, <3>2, <3>3 DEF MoveOf, f
  <2>13. clock <= clock' BY <1>0, <2>4, <2>5, <2>6
  <2> QED BY <2>5, <2>11, <2>12, <2>13
<1>3. CASE InterfaceForwards
  <2> DEFINE h == Served
             f == Head(pending[h])
  <2>1. h \in Interface /\ TimerExpired /\ pending' = Rest(h) BY <1>3 DEF InterfaceForwards
  <2>2. PICK lag \in Lags : ProcessNext(lag, <<>>) BY <1>3 DEF InterfaceForwards
  <2>3. h \in Queue BY <2>1 DEF Queue
  <2>4. /\ First.due <= HandlerClock /\ HandlerClock \in Nat /\ clock <= HandlerClock
        /\ pending[h] # <<>> /\ f \in Frame /\ First \in events
        /\ f.ready * TicksPerMs <= First.due
        /\ ~realtime => f.ready * TicksPerMs = HandlerClock
    BY <2>1, <2>3, ServedReady
  <2>5. clock' = HandlerClock + lag /\ realtime' = realtime BY <2>2 DEF ProcessNext
  <2>6. lag \in Nat /\ (~realtime => lag = 0) BY <1>a
  <2>7. Rest(h)[h] = Tail(pending[h]) /\ \A q \in Queue : q # h => Rest(h)[q] = pending[q]
    BY <1>0, <2>3 DEF Rest
  <2>8. First.due \in Nat /\ f.ready * TicksPerMs \in Nat
    <3>1. First.due \in Nat BY <2>4 DEF QueuesInv, SchedulerInv, EventsTyped
    <3>2. f.ready \in Nat BY <2>4 DEF Frame
    <3> QED BY <3>1, <3>2, TicksGrow
  <2> HIDE DEF h, f
  <2>9. ASSUME NEW q \in Queue, q # h PROVE MoveOf(q) BY <2>1, <2>7, <2>9 DEF MoveOf
  <2>10. MoveOf(h)
    <3>1. f.ready * TicksPerMs <= clock' BY <2>4, <2>5, <2>6, <2>8
    <3>2. ~realtime => f.ready * TicksPerMs = clock' BY <2>4, <2>5, <2>6
    <3> QED BY <2>1, <2>4, <2>7, <3>1, <3>2 DEF MoveOf, f
  <2>11. clock <= clock' BY <1>0, <2>4, <2>5, <2>6
  <2> QED BY <2>5, <2>9, <2>10, <2>11
<1>4. ASSUME Connect \/ Refuse \/ (\E l \in Switched, up \in BOOLEAN : TurnLink(l, up))
               \/ TimePasses \/ UNCHANGED vars
      PROVE  clock <= clock' /\ realtime' = realtime /\ \A q \in Queue : MoveOf(q)
  <2>1. UNCHANGED <<pending, realtime>> /\ (clock' = clock \/ clock' = clock + 1)
    BY <1>4 DEF Connect, Refuse, TurnLink, TimePasses, Tick, vars, transitVars, schedulerVars
  <2> QED BY <1>0, <2>1 DEF MoveOf
<1> QED BY <1>1, <1>2, <1>3, <1>4 DEF Next

\* In compact time every frame moves on at the very moment that its queue promised
\* (CompactScheduler moves the clock to each event).
THEOREM CompactIsExact == Spec => ExactInCompactTime
<1>1. ASSUME QueuesInv, [Next]_vars, ~realtime, NEW q \in Queue, Leaves(q)
      PROVE  clock' = Head(pending[q]).ready * TicksPerMs
  <2>1. MoveOf(q) BY <1>1, Moves
  <2>2. pending[q] \in Seq(Frame) BY <1>1 DEF QueuesInv, Counts
  <2>3. pending'[q] # pending[q]
    BY <1>1, <2>2 DEF Leaves
  <2>4. \A c \in Frame : pending'[q] # Append(pending[q], c)
    BY <1>1, <2>2 DEF Leaves
  <2> QED BY <1>1, <2>1, <2>3, <2>4 DEF MoveOf
<1>2. QueuesInv /\ [Next]_vars
        => [~realtime => \A q \in Queue : Leaves(q) => clock' = Head(pending[q]).ready * TicksPerMs]_vars
  BY <1>1
<1> QED BY <1>2, QueuesInvariance, PTL DEF Spec, ExactInCompactTime

\* The times of the frames in a queue
Times(frames) == [k \in DOMAIN frames |-> frames[k].ready * TicksPerMs]

\* The times of a list of frames, in ticks, are as many as the frames.
LEMMA TimesOf ==
  ASSUME NEW frames \in Seq(Frame)
  PROVE  /\ Times(frames) \in Seq(Nat) /\ Len(Times(frames)) = Len(frames)
         /\ \A k \in 1..Len(frames) : Times(frames)[k] = frames[k].ready * TicksPerMs
<1>1. /\ Len(frames) \in Nat /\ DOMAIN frames = 1..Len(frames)
      /\ \A k \in DOMAIN frames : frames[k].ready \in Nat
  BY FramesOf
<1>2. \A k \in DOMAIN frames : frames[k].ready * TicksPerMs \in Nat BY <1>1, TicksGrow
<1>3. Times(frames) \in [1..Len(frames) -> Nat] BY <1>1, <1>2 DEF Times
<1>4. \A k \in 1..Len(frames) : Times(frames)[k] = frames[k].ready * TicksPerMs BY <1>1 DEF Times
<1> HIDE DEF Times
<1> QED BY <1>1, <1>3, <1>4

\* Two sequences of one length with the same elements at every place are the same.
LEMMA SameSequence ==
  ASSUME NEW t \in Seq(Nat), NEW u \in Seq(Nat), Len(t) = Len(u),
         \A k \in 1..Len(t) : t[k] = u[k]
  PROVE  t = u
  OBVIOUS

\* A list that loses its first frame loses the first of its times.
LEMMA TimesOfTail ==
  ASSUME NEW frames \in Seq(Frame), frames # <<>>
  PROVE  /\ Times(Tail(frames)) = Tail(Times(frames)) /\ Times(frames) # <<>>
         /\ Head(Times(frames)) = Head(frames).ready * TicksPerMs
<1> DEFINE s == Times(frames)
           t == Times(Tail(frames))
           L == Len(frames)
<1>1. /\ s \in Seq(Nat) /\ Len(s) = L /\ \A k \in 1..L : s[k] = frames[k].ready * TicksPerMs
  BY TimesOf
<1>2. /\ L \in Nat \ {0} /\ Tail(frames) \in Seq(Frame) /\ Len(Tail(frames)) = L - 1
      /\ \A k \in 1..L - 1 : Tail(frames)[k] = frames[k + 1]
      /\ Head(frames) = frames[1]
  OBVIOUS
<1>3. /\ t \in Seq(Nat) /\ Len(t) = L - 1
      /\ \A k \in 1..L - 1 : t[k] = frames[k + 1].ready * TicksPerMs
  BY <1>2, TimesOf
<1> HIDE DEF s, t, L
<1>4. /\ Tail(s) \in Seq(Nat) /\ Len(Tail(s)) = L - 1 /\ \A k \in 1..L - 1 : Tail(s)[k] = s[k + 1]
      /\ s # <<>> /\ Head(s) = s[1]
  BY <1>1, <1>2
<1>5. \A k \in 1..L - 1 : t[k] = Tail(s)[k]
  <2>1. \A k \in 1..L - 1 : k + 1 \in 1..L BY <1>2
  <2> QED BY <1>1, <1>3, <1>4, <2>1
<1> DEFINE u == Tail(s)
<1>6. u \in Seq(Nat) /\ Len(u) = L - 1 /\ \A k \in 1..L - 1 : t[k] = u[k] BY <1>4, <1>5
<1> HIDE DEF u
<1>7. t = u
  <2>1. t \in Seq(Nat) /\ u \in Seq(Nat) /\ Len(t) = Len(u) BY <1>3, <1>6
  <2>2. \A k \in 1..Len(t) : t[k] = u[k] BY <1>3, <1>6
  <2> QED BY <2>1, <2>2, SameSequence
<1>8. 1 \in 1..L BY <1>2
<1> QED BY <1>1, <1>2, <1>4, <1>7, <1>8 DEF s, t, u

\* A list that gets one more frame gets one more time at its end.
LEMMA TimesOfAppend ==
  ASSUME NEW frames \in Seq(Frame), NEW f \in Frame
  PROVE  LET more == Times(Append(frames, f))
         IN  more # <<>> /\ Times(frames) = SubSeq(more, 1, Len(more) - 1)
<1> DEFINE s == Times(frames)
           t == Times(Append(frames, f))
           L == Len(frames)
<1>1. s \in Seq(Nat) /\ Len(s) = L /\ \A k \in 1..L : s[k] = frames[k].ready * TicksPerMs
  BY TimesOf
<1>2. /\ L \in Nat /\ Append(frames, f) \in Seq(Frame) /\ Len(Append(frames, f)) = L + 1
      /\ \A k \in 1..L : Append(frames, f)[k] = frames[k]
  OBVIOUS
<1>3. /\ t \in Seq(Nat) /\ Len(t) = L + 1
      /\ \A k \in 1..L + 1 : t[k] = Append(frames, f)[k].ready * TicksPerMs
  BY <1>2, TimesOf
<1>4. \A k \in 1..L : t[k] = s[k]
  <2>1. \A k \in 1..L : k \in 1..L + 1 BY <1>2
  <2> QED BY <1>1, <1>2, <1>3, <2>1
<1> HIDE DEF s, t, L
<1> DEFINE u == SubSeq(t, 1, L)
<1>5. u \in Seq(Nat) /\ Len(u) = L /\ \A k \in 1..L : u[k] = t[k] BY <1>2, <1>3
<1> HIDE DEF u
<1>6. s = u
  <2>1. s \in Seq(Nat) /\ u \in Seq(Nat) /\ Len(s) = Len(u) BY <1>1, <1>5
  <2>2. \A k \in 1..Len(s) : s[k] = u[k] BY <1>1, <1>4, <1>5
  <2> QED BY <2>1, <2>2, SameSequence
<1>7. t # <<>> /\ Len(t) - 1 = L BY <1>2, <1>3
<1> QED BY <1>6, <1>7 DEF s, t, u

\* The queues of halves and interfaces implement the lines of DelayLine: first in, first out,
\* nobody before its time, and time never goes back.
THEOREM LinesKept == Spec => KeepsTheLines
<1> DEFINE lines == [q \in Queue |-> Times(pending[q])]
<1>1. Init => Line!Init
  <2> SUFFICES ASSUME Init PROVE Line!Init OBVIOUS
  <2>1. pending = [q \in Queue |-> <<>>] /\ clock = 0 BY DEF Init, SchedulerInit
  <2>2. \A q \in Queue : [k \in DOMAIN pending[q] |-> pending[q][k].ready * TicksPerMs] = <<>>
    BY <2>1
  <2> QED BY <2>1, <2>2 DEF Line!Init
<1>2. ASSUME QueuesInv, QueuesInv', [Next]_vars
      PROVE  Line!Next \/ UNCHANGED <<[q \in Queue |-> [k \in DOMAIN pending[q] |->
                                         pending[q][k].ready * TicksPerMs]], clock>>
  <2>1. clock <= clock' /\ \A q \in Queue : MoveOf(q) BY <1>2, Moves
  <2>2. \A q \in Queue : pending[q] \in Seq(Frame) /\ pending'[q] \in Seq(Frame) /\ InOrder(pending'[q])
    BY <1>2 DEF QueuesInv, Counts, AllGood, GoodQueue
  <2>3. ASSUME NEW q \in Queue
        PROVE  \/ Times(pending'[q]) = Times(pending[q])
               \/ /\ Times(pending'[q]) # <<>>
                  /\ Times(pending[q]) = SubSeq(Times(pending'[q]), 1, Len(Times(pending'[q])) - 1)
                  /\ \A m, n \in DOMAIN Times(pending'[q]) :
                       m <= n => Times(pending'[q])[m] <= Times(pending'[q])[n]
               \/ /\ Times(pending[q]) # <<>>
                  /\ Times(pending'[q]) = Tail(Times(pending[q]))
                  /\ Head(Times(pending[q])) <= clock'
    <3>1. CASE pending'[q] = pending[q] BY <3>1
    <3>2. CASE \E c \in Frame : pending'[q] = Append(pending[q], c)
      <4>1. PICK c \in Frame : pending'[q] = Append(pending[q], c) BY <3>2
      <4>2. /\ Times(pending'[q]) # <<>>
            /\ Times(pending[q]) = SubSeq(Times(pending'[q]), 1, Len(Times(pending'[q])) - 1)
        BY <2>2, <4>1, TimesOfAppend
      <4>3. \A m, n \in DOMAIN Times(pending'[q]) :
              m <= n => Times(pending'[q])[m] <= Times(pending'[q])[n]
        <5> DEFINE frames == pending'[q]
        <5>1. frames \in Seq(Frame) /\ InOrder(frames) BY <2>2
        <5> HIDE DEF frames
        <5>2. \A k \in DOMAIN frames : frames[k].ready \in Nat BY <5>1, FramesOf
        <5>3. DOMAIN Times(frames) = DOMAIN frames
              /\ \A k \in DOMAIN frames : Times(frames)[k] = frames[k].ready * TicksPerMs
          BY DEF Times
        <5>4. \A m, n \in DOMAIN frames : m <= n =>
                frames[m].ready * TicksPerMs <= frames[n].ready * TicksPerMs
          BY <5>1, <5>2, TicksGrow DEF InOrder
        <5> HIDE DEF Times
        <5>5. \A m, n \in DOMAIN Times(frames) : m <= n => Times(frames)[m] <= Times(frames)[n]
          BY <5>3, <5>4
        <5> QED BY <5>5 DEF frames
      <4> QED BY <4>2, <4>3
    <3>3. CASE /\ pending[q] # <<>> /\ pending'[q] = Tail(pending[q])
               /\ Head(pending[q]).ready * TicksPerMs <= clock'
      BY <2>2, <3>3, TimesOfTail
    <3> QED BY <2>1, <3>1, <3>2, <3>3 DEF MoveOf
  <2> QED BY <2>1, <2>3 DEF Line!Next, Line!Stays, Line!Joins, Line!GoesOn, Line!Ordered, Times
<1> QED BY <1>1, <1>2, QueuesInvariance, PTL DEF Spec, KeepsTheLines, Line!Spec
=============================================================================
