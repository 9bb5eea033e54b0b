----------------------------- MODULE LinkWiring -----------------------------
(***************************************************************************)
(* How map/link/Link.cpp connects links to interfaces and to other links.  *)
(* A CSMA/CD link is one half; an 802.3 (point-to-point) link has an "up"  *)
(* and a "down" half and at most two clients.  Client 0 reads the up half  *)
(* and writes on the down half, client 1 the other way round.  A bridge is *)
(* a connection between the halves of two links.                           *)
(***************************************************************************)
EXTENDS Naturals, Sequences, FiniteSets

CONSTANTS
  Link, Interface,
  CsmaCd      \* the links that run CSMA/CD; the others run 802.3

ASSUME LinksAssumption == CsmaCd \subseteq Link

Whole(l) == <<l, "csma">>
Up(l) == <<l, "up">>
Down(l) == <<l, "down">>

Halves(l) == IF l \in CsmaCd THEN {Whole(l)} ELSE {Up(l), Down(l)}
Half == UNION {Halves(l) : l \in Link}

\* countOfConnectedClients, and the receivers of each signal in connection order.
Wiring == [clients : [Link -> Nat],
           hears   : [Half -> Seq(Interface)],
           bridges : [Half -> Seq(Half)],
           sendsOn : [Interface -> Seq(Half)]]

Unwired == [clients |-> [l \in Link |-> 0],
            hears   |-> [h \in Half |-> <<>>],
            bridges |-> [h \in Half |-> <<>>],
            sendsOn |-> [i \in Interface |-> <<>>]]

\* What client number n of l reads and writes.
ReadHalf(l, n) == IF l \in CsmaCd THEN Whole(l) ELSE IF n = 0 THEN Up(l) ELSE Down(l)
WriteHalf(l, n) == IF l \in CsmaCd THEN Whole(l) ELSE IF n = 0 THEN Down(l) ELSE Up(l)

\* "exactly two clients are allowed"; a CSMA/CD link does not count its clients.
HasRoom(w, l) == l \in CsmaCd \/ w.clients[l] < 2

Count(w, l) == IF l \in CsmaCd THEN w ELSE [w EXCEPT !.clients[l] = @ + 1]

Hear(w, h, i) == [w EXCEPT !.hears[h] = Append(@, i)]
SendOn(w, i, h) == [w EXCEPT !.sendsOn[i] = Append(@, h)]
Bridge(w, g, h) == [w EXCEPT !.bridges[g] = Append(@, h)]

\* connectToInterface, with or without transfer of the frame's ownership.
ConnectToInterface(w, l, i) ==
  LET n == w.clients[l]
  IN  SendOn(Hear(Count(w, l), ReadHalf(l, n), i), i, WriteHalf(l, n))

\* connectToLink both ways: each link is a client of the other.
ConnectBothWays(w, k, l) ==
  LET v == Count(w, k)
      m == w.clients[k]
      n == v.clients[l]
  IN  Bridge(Bridge(Count(v, l), ReadHalf(k, m), WriteHalf(l, n)),
             ReadHalf(l, n), WriteHalf(k, m))

\* connectToLink one way: l carries what k carries; only l counts a client, and
\* a CSMA/CD link l none.
ConnectOneWay(w, k, l) ==
  LET to == WriteHalf(l, w.clients[l])
      v == Count(w, l)
  IN  IF k \in CsmaCd THEN Bridge(v, Whole(k), to)
                      ELSE Bridge(Bridge(v, Up(k), to), Down(k), to)

(* The steps of a map file: an interface's or a link's connected-to-link tag. *)
PlugStep(l, i) == [do |-> "plug", link |-> l, iface |-> i]
BridgeStep(k, l, twoway) == [do |-> "bridge", from |-> k, to |-> l, twoway |-> twoway]
Step == {PlugStep(l, i) : l \in Link, i \in Interface}
          \cup {BridgeStep(k, l, twoway) : k, l \in Link, twoway \in BOOLEAN}

\* After s, l carries what k carries.
Carries(s, k, l) ==
  s.do = "bridge" /\ (<<s.from, s.to>> = <<k, l>> \/ (s.twoway /\ <<s.from, s.to>> = <<l, k>>))

\* The map files that are modelled: no link is bridged to itself and nothing is connected
\* to a CSMA/CD link twice.  The code refuses neither, and would give a receiver that is
\* connected twice every frame twice.
ConnectsOnce(steps) ==
  /\ \A n \in DOMAIN steps : steps[n].do = "bridge" => steps[n].from # steps[n].to
  /\ \A m, n \in DOMAIN steps : m # n =>
       /\ \A l \in CsmaCd, i \in Interface :
            ~(steps[m] = PlugStep(l, i) /\ steps[n] = PlugStep(l, i))
       /\ \A k \in Link, l \in CsmaCd : ~(Carries(steps[m], k, l) /\ Carries(steps[n], k, l))

\* A refused connection makes the map file invalid.  connectToLink both ways counts
\* the new client of k before it looks at l.
Possible(w, s) ==
  IF s.do = "plug" THEN HasRoom(w, s.link)
  ELSE IF ~s.twoway THEN HasRoom(w, s.to)
  ELSE HasRoom(w, s.from) /\ HasRoom(Count(w, s.from), s.to)

Connected(w, s) ==
  IF s.do = "plug" THEN ConnectToInterface(w, s.link, s.iface)
  ELSE IF s.twoway THEN ConnectBothWays(w, s.from, s.to)
                   ELSE ConnectOneWay(w, s.from, s.to)
=============================================================================
