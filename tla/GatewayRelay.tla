---------------------------- MODULE GatewayRelay ----------------------------
(***************************************************************************)
(* The internet side of the server: one network adapter, the relay thread  *)
(* that reads it (emulation/InternetGateWayRelay, NetworkAdapterInfo,      *)
(* EthernetDirectAccessDriver), the adapter's router in the routers map,   *)
(* and the gateways of user maps that subscribe to the relay and advertise *)
(* their networks to that router (plugin/InternetGateWayNode).  Every map  *)
(* has a thread; a step is what is done under one mutex.                   *)
(***************************************************************************)
EXTENDS RouteTable

CONSTANTS
  Gateway,   \* gateways of user maps
  Scripts,   \* the parameters a gateway may be given: sequences of [name, rules, good]
  Mac,       \* the address of each node's interface; two may have the same
  Macs,      \* addresses frames from outside are sent to
  broadcast, \* the address of everybody
  MaxFrames, \* bound: frames read from the adapter
  router     \* the adapter's router, in the routers map

ASSUME RouterAssumption == router \notin Gateway

Parameter == [name : {"connect", "advertise"}, rules : Seq(RoutingRule), good : BOOLEAN]

ASSUME ScriptsAssumption == Scripts \subseteq Seq(Parameter)

Node == Gateway \cup {router}

VARIABLES
  life,          \* of a node: "none", "reading", "failed", "running", "leaving", "gone"
  script,        \* what is left to be read of a gateway's parameters
  linked,        \* the gateways that hold a pointer to the router
  listed,        \* advertisedNetworks of a gateway
  rtable,        \* the router's table
  collaborators, \* countOfCollaboratorRouters
  relay,         \* the relay thread: "none", "looping", "breaking", "ended", "deleted"
  observers,     \* the nodes subscribed to it
  posted,        \* FrameDeliveryEvents posted to a node's interface
  read,          \* frames read from the adapter
  handles,       \* handlesCount of the driver
  main,          \* the main thread: "serving", "maps", "routers", "driver", "done"
  panicked       \* qFatal

vars == <<life, script, linked, listed, rtable, collaborators, relay, observers, posted, read,
          handles, main, panicked>>

routing == <<linked, listed, rtable, collaborators, panicked>>
reading == <<relay, observers, posted, read, handles>>

\* The routers map is set up before the server listens; its router has an interface on
\* the adapter, whose construction starts the relay.
Init ==
  /\ life = [n \in Node |-> IF n = router THEN "running" ELSE "none"]
  /\ script \in [Gateway -> Scripts]
  /\ linked = {} /\ listed = [g \in Gateway |-> <<>>]
  /\ rtable = RoutingTable /\ collaborators = 0
  /\ relay = "looping" /\ observers = <<router>> /\ handles = 2
  /\ posted = [n \in Node |-> <<>>] /\ read = 0
  /\ main = "serving" /\ panicked = FALSE

Become(n, stage) == life' = [life EXCEPT ![n] = stage]

Construct(g) ==
  /\ main = "serving" /\ life[g] = "none"
  /\ Become(g, "reading")
  /\ UNCHANGED <<script, routing, reading, main>>

\* internet-connection
Connect(g) ==
  /\ Head(script[g]).name = "connect"
  /\ linked' = linked \cup {g}
  /\ UNCHANGED <<life, listed, rtable, collaborators>>

\* A rule is a pointer: equal rules, of one gateway or of two, are two rules.
Owned(g, place, rule) ==
  [owner |-> g, place |-> place, network |-> rule.network, netbits |-> rule.netbits,
   nexthop |-> rule.nexthop, ifIndex |-> rule.ifIndex]

Advertised(g) ==
  LET rules == Head(script[g]).rules
  IN  listed[g] \o [k \in 1..Len(rules) |-> Owned(g, Len(listed[g]) + k, rules[k])]

\* advertised-networks; the rules up to the malformed one have been listed.
Advertise(g) ==
  /\ Head(script[g]).name = "advertise"
  /\ listed' = [listed EXCEPT ![g] = Advertised(g)]
  /\ IF Head(script[g]).good /\ g \in linked
     THEN /\ rtable' = WithRules(rtable, Advertised(g))
          /\ collaborators' = collaborators + 1
          /\ UNCHANGED life
     ELSE Become(g, "failed") /\ UNCHANGED <<rtable, collaborators>>
  /\ UNCHANGED linked

ReadParameter(g) ==
  /\ life[g] = "reading" /\ script[g] # <<>>
  /\ script' = [script EXCEPT ![g] = Tail(@)]
  /\ Connect(g) \/ Advertise(g)
  /\ UNCHANGED <<reading, main, panicked>>

\* The interfaces come after the parameters; the relay is there already.
ReadInterface(g) ==
  /\ life[g] = "reading" /\ script[g] = <<>>
  /\ observers' = Append(observers, g)
  /\ Become(g, "running")
  /\ UNCHANGED <<script, routing, relay, posted, read, handles, main>>

Without(table, rules) ==
  LET left[n \in 0..Len(rules)] == IF n = 0 THEN table ELSE RemoveFirst(left[n - 1], rules[n])
  IN  left[Len(rules)]

\* Fault: one rule less is taken back than was added.
RemovedButOne(table, rules) == Without(table, Tail(rules))

Removed(table, rules) == Without(table, rules)

Collaborating == collaborators - 1

\* removeRoutingRules, which a missing rule makes a panic.
Withdraw(g) ==
  IF \E k \in DOMAIN listed[g] : ~Contains(rtable, listed[g][k])
  THEN panicked' = TRUE /\ UNCHANGED <<linked, listed, rtable, collaborators>>
  ELSE /\ rtable' = Removed(rtable, listed[g])
       /\ collaborators' = Collaborating
       /\ linked' = linked \ {g}
       /\ UNCHANGED <<listed, panicked>>

\* ~InternetGateWayNode: the map of the gateway is deleted, or could not be read.
DeleteGateway(g) ==
  /\ life[g] \in {"failed", "running"}
  /\ IF g \in linked THEN Withdraw(g) ELSE UNCHANGED routing
  /\ Become(g, "leaving")
  /\ UNCHANGED <<script, reading, main>>

\* Fault: the interface goes without telling the relay.
LeaveSilently(n) ==
  /\ UNCHANGED observers
  /\ posted' = [posted EXCEPT ![n] = <<>>]
  /\ Become(n, "gone")

\* ~EthernetPhysicalInterface, then ~QObject drops the events that were posted.
Unsubscribe(n) ==
  /\ observers' = RemoveFirst(observers, n)
  /\ posted' = [posted EXCEPT ![n] = <<>>]
  /\ Become(n, "gone")

DeleteInterface(g) ==
  /\ life[g] = "leaving"
  /\ Unsubscribe(g)
  /\ UNCHANGED <<script, routing, relay, read, handles, main>>

\* EthernetMACAddress::matches
Matches(mac, address) == mac = address \/ broadcast \in {mac, address}

\* The places of the observers' list with an address that the frame is for
Interested(mac) == {k \in DOMAIN observers : Matches(mac, Mac[observers[k]])}

\* Fault: the loop that gives out the clones stops one observer early.
AllButFirst(mac) ==
  IF Cardinality(Interested(mac)) > 1 THEN Interested(mac) \ {Min(Interested(mac))} ELSE Interested(mac)

\* All but the last interested observer get a clone, the last one the frame itself.
Served(mac) == Interested(mac)
Copies(mac, n) == Cardinality({k \in Served(mac) : observers[k] = n})

Publish(mac) ==
  /\ relay = "looping" /\ read < MaxFrames
  /\ read' = read + 1
  /\ posted' = [n \in Node |-> posted[n] \o [k \in 1..Copies(mac, n) |-> read]]
  /\ UNCHANGED <<life, script, routing, relay, observers, handles, main>>

\* The event loop of a map delivers an event to the interface.
Deliver(n) ==
  /\ life[n] = "running" /\ posted[n] # <<>>
  /\ posted' = [posted EXCEPT ![n] = Tail(@)]
  /\ UNCHANGED <<life, script, routing, relay, observers, read, handles, main>>

\* The main thread leaves its event loop; the maps of the users are ended one by one.
Shutdown ==
  /\ main = "serving" /\ main' = "maps"
  /\ UNCHANGED <<life, script, routing, reading>>

\* Fault: the maps are told to end but not waited for.
MapsTold ==
  /\ main = "maps"
  /\ main' = "routers"
  /\ UNCHANGED <<life, script, routing, reading>>

MapsEnded ==
  /\ main = "maps" /\ \A g \in Gateway : life[g] \in {"none", "gone"}
  /\ main' = "routers"
  /\ UNCHANGED <<life, script, routing, reading>>

\* ~Router waits for its collaborators.
DeleteRouter ==
  /\ main = "routers" /\ life[router] = "running" /\ collaborators <= 0
  /\ rtable' = <<>>
  /\ Become(router, "leaving")
  /\ UNCHANGED <<script, linked, listed, collaborators, panicked, reading, main>>

DeleteRouterInterface ==
  /\ life[router] = "leaving"
  /\ Unsubscribe(router)
  /\ main' = "driver"
  /\ UNCHANGED <<script, routing, relay, read, handles>>

\* finishRunning waits until nobody is subscribed, then breaks the loop.
FinishRunning ==
  /\ main = "driver" /\ relay = "looping" /\ observers = <<>>
  /\ relay' = "breaking"
  /\ UNCHANGED <<life, script, routing, observers, posted, read, handles, main>>

LoopBroken ==
  /\ relay = "breaking" /\ relay' = "ended"
  /\ UNCHANGED <<life, script, routing, observers, posted, read, handles, main>>

\* Fault: the handle that is written is left open.
OneClosed == handles - 1

\* ~InternetGateWayRelay closes the handle it reads and the one it writes.
Closed == handles - 2

DeleteRelay ==
  /\ relay = "ended"
  /\ relay' = "deleted" /\ handles' = Closed
  /\ UNCHANGED <<life, script, routing, observers, posted, read, main>>

DestroyDriver ==
  /\ main = "driver" /\ relay = "deleted" /\ handles = 0
  /\ main' = "done"
  /\ UNCHANGED <<life, script, routing, reading>>

GatewayStep(g) ==
  Construct(g) \/ ReadParameter(g) \/ ReadInterface(g) \/ DeleteGateway(g) \/ DeleteInterface(g)

\* A map is read to its end, and deleted if that fails or when the server stops.
MustEnd(g) ==
  \/ ReadParameter(g) \/ ReadInterface(g) \/ DeleteInterface(g)
  \/ (main # "serving" \/ life[g] = "failed") /\ DeleteGateway(g)

MainStep ==
  MapsEnded \/ DeleteRouter \/ DeleteRouterInterface \/ FinishRunning \/ LoopBroken \/ DeleteRelay \/ DestroyDriver

Next ==
  /\ ~panicked
  /\ \/ \E g \in Gateway : GatewayStep(g)
     \/ \E mac \in Macs : Publish(mac)
     \/ \E n \in Node : Deliver(n)
     \/ Shutdown
     \/ MainStep

Spec == Init /\ [][Next]_vars

\* Every thread goes on; when the server stops, each map is told to.
FairSpec ==
  /\ Spec
  /\ \A g \in Gateway : WF_vars(~panicked /\ MustEnd(g))
  /\ WF_vars(~panicked /\ MainStep)
-----------------------------------------------------------------------------
\* Longer prefixes stand before shorter ones whatever is advertised and withdrawn, so the
\* rule that decides is the most specific one.
LongestPrefixDecides ==
  \A a \in Address : \A k \in DOMAIN rtable :
    Covers(rtable[k], a) =>
      rtable[Min({j \in DOMAIN rtable : Covers(rtable[j], a)})].netbits >= rtable[k].netbits

\* A gateway's parameters name its networks once; addRoutingRules would add the rules listed
\* before a second time.
AdvertisedOnce ==
  \A s \in Scripts : \A j, k \in DOMAIN s : s[j].name = "advertise" /\ s[k].name = "advertise" => j = k

\* No rule of the table belongs to a gateway that has been deleted: ~InternetGateWayNode
\* frees its rules, and the router would read them.
RulesAreAlive ==
  ~panicked => \A k \in DOMAIN rtable, g \in Gateway :
    Contains(listed[g], rtable[k]) => life[g] \in {"reading", "failed", "running"}

\* The router is not deleted while a gateway can still take back what it advertised.
RouterOutlivesGateways ==
  \A g \in Gateway : g \in linked => life[router] = "running"

\* An event is posted only to an interface that will handle it or drop it: never to one
\* that is gone.
NoEventForTheGone == \A n \in Node : life[n] = "gone" => posted[n] = <<>>

\* A node listens from the end of its construction to that of its interface.
Listens(n) == life[n] = "running" \/ n \in Range(observers)

\* A frame from outside is posted, once, to every node that listens and whose address is the
\* frame's own, and to no other node: a running node never misses one, and on a list that
\* gateways join and leave at any time nobody stands twice (InternetGateWayRelay::publish).
EveryListenerServed ==
  [][\A mac \in Macs : Publish(mac) =>
       \A n \in Node :
         posted'[n] = IF Listens(n) /\ Matches(mac, Mac[n]) THEN Append(posted[n], read)
                      ELSE posted[n]]_vars

\* The shutdown of the server is never held up by a router that waits for a gateway, a
\* relay that waits for an observer or a driver that waits for a handle.
ShutdownCompletes == (main = "maps") ~> (main = "done")

\* removeRoutingRules calls qFatal on a rule that is not in the table.
NoPanic == ~panicked
=============================================================================
