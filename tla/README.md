# Verification of the Partov network simulation engine

Partov is a server that simulates IP networks. Users describe a network in a map
file; clients connect over TCP, have a map instantiated, take over some of its nodes
and exchange Ethernet frames through them with the simulated rest of the network.
The engine is the C++/Qt program under `PartovServer/src/edu/sharif/partov/nse/`
(all paths below are relative to it).

This directory holds TLA+ models of the engine, the TLC runs that check them on
small instances, and TLAPS proofs for instances of any size. `PROJECT.json` lists,
for every definition that models code, the lines it stands for.

## 1. Inventory

| Component | State it keeps | Operations | What makes it correct |
|---|---|---|---|
| `server/Simulator` (one per client, main thread) | dialogue state `communicationState`, `map`, `node`, `pendingMessage`, two mutexes (`mutex`, `mayBlock`), `shuttingDown` | `readData` and its readers, `instantiateOrRetrieveMap`, `sendPendingMessage`, `finalize`, and `frameReceived`, `nodeIPAddressChanged`, ... which run on map threads | slots never overlap in one simulator, no race with map threads, no message is forgotten, pointers stay valid |
| `util/NonBlockingLocker` | which lock it holds | `relock`: try, run `processEvents`, try again | waiting never blocks the main thread, but nests slots |
| `map/MapFactory`, `map/MapInstantiator` | managed maps, resources, the factory's mutex | create, join, observe and delete maps, release nodes | one request at a time, no lock the thread itself holds |
| `map/MapThread` | event loop, `lock`, initialisation semaphore | `run`, `quit`, `finalize` | nobody calls into a thread that has ended; listeners are told before |
| `plugin/SimulatedNode` | `available`, its mutex, its connections | acquire, release, frames in, frames and address changes out | one owner at a time; frames reach the owner only |
| `map/AbstractScheduler`, `RealtimeScheduler`, `CompacttimeScheduler` | events by time, timers, the clock | `scheduleEvent`, `processNextEvent` | events in order, none early, none lost |
| `map/link/*` | pending frames, bytes on air, reserved time, up/down, connections | connect, `sendFrame`, `processRegisteredFrame`, `turnLinkUp/Down` | FIFO, capacity, no loops through bridges, the halves of an 802.3 link |
| `map/interface/*` | buffered frames, buffer usage, addresses | `sendFrame`, `receiveFrame`, `forwardFrameForProcessing` | FIFO, the buffer's limit |
| `map/builder/*`, `ListManager`, `VariableManager` | the map while it is read | visitors of the map file | a refused connection refuses the map |
| `map/Map`, `map/Node` | links, nodes, plugins of one map | `setup`, `start`; a packet between interface and plugin | a broken file is refused, nothing half-built runs |
| `fsm/*` | current state, `lastId` of the timer | enter, leave, timed transition, walk | a stale timer does not fire a transition |
| `network/transceiver/*` | ARP table, frames that wait for an address, their bytes | send, retry, drop, learn | at most five attempts, exact byte count |
| `network/ReferenceCounter`, proxies | counter and lock of a shared frame | ref, unref, detach | copy on write across threads |
| `network/EthernetFrame`, `IPv4Packet`, `ICMPPacketImp`, `UDPPacketImp`, ARP packets | fields read from the bytes, the bytes | analyze, set, populate | what is sent verifies and says what was meant |
| `plugin/PluginScheduler` | tick intervals, one timer | register, tick | everyone ticks at its interval |
| `plugin/Router`, `InternetGateWayNode`, `emulation/*` | routing rules, observers, capture thread | add/remove rules, publish, finish | shutdown does not hang |
| `plugin/BitTorrentTracker`, `GeneralTCPReverseProxy`, pingers | peers and expiry queue; port table | announce, expire; map ports | expiry in time; one client per port |
| `plugin/*::setParameter`, `PluginFactory` | settings of a node | set a parameter | a wrong parameter refuses the map |
| `usermanagement/*` | the sign-in block that is being read | `authenticate` whenever bytes arrive | in exactly if the block names an active account; nothing of the next command is eaten |
| `main.cpp`, `Server`, `SignalHandler`, loggers | which parts of the process exist, handles on network adapters | start, serve, stop | parts are deleted after those that use them; an interrupt ends the server |

How they interact: every `Simulator` lives on the main thread and is driven by Qt
events (socket data, zero timers, queued calls). Every map has a thread with its own
event loop and scheduler. Calls from a simulator to its node are *blocking queued*:
the main thread waits until the map thread has run them. Calls in the other
direction are *direct*: `frameReceived` and the observers' slots of `Simulator` run
on the map thread. Within a map everything is single threaded and goes through the
scheduler.

Where the difficulty is:

* The main thread is one thread, but not sequential: whoever waits for a mutex runs
  `processEvents`, so other slots - of other simulators, and of the same one - run in
  the middle of a slot. The stack of half-finished slots is the heart of the model.
* Map threads and the main thread share `pendingMessage` and `communicationState`
  under a protocol of two mutexes, where *either* suffices (`mayBlock` is lent while
  the main thread is blocked).
* Maps are deleted by one client while others use them.
* Queues of links and interfaces share one scheduler which delivers the earliest
  event on any timer, and a fired event takes the first frame of its queue, whichever
  frame it was scheduled for.

`PROJECT.json` lists these and the other hazards, each at its line.

## 2. Modules

```
ServerState ── MapThreadSteps ─┐
     └──────── SimulatorSlots ── MapSlots ── ServerCore ── ServerInvariant ── MCServerCore
                                                │ implements NodeLease │
                                                                       └ ServerCore_proofs
LinkWiring ─────┐
EventScheduler ─┼─ FrameTransit ── MCFrameTransit        (implements DelayLine)
    │           │       └ FrameTransit_proofs
    └ EventScheduler_proofs (used by FrameTransit_, RouterNode_, MapParts_, Packets_,
    │                          AddressFormula_proofs)
RouteTable ─────┴─ ArpQueue ── RouterNode ── MCRouterNode
     │                             └ RouterNode_proofs
     └──────────── GatewayRelay ── MCGatewayRelay
                        └ GatewayRelay_proofs

EventScheduler ── BitTorrentTracker, LinkFsm ┐
PluginTicks ── Pingers                       │ (MapParts_proofs)
TcpReverseProxy, MapInstances                │
SignIn, ServerProcess                        ├── MCMapParts
FrameSharing, ArpPackets, PacketLayers       │ (Packets_proofs)
PluginParameters ── MapReading               │
AddressFormula                               ┘ (AddressFormula_proofs)
PluginTicks ── MCPluginTicks        FrameSharing ── MCFrameRace
```

### The server core

* **ServerState**: all variables. `stack` is the main thread's stack of simulators
  with an active slot, the running one first; `pc[s]` says where the slot of `s` is;
  `posted[s]` are its slots in the event queue. Locks are variables that name their
  holder. A *try* place is a `tryLock` of a `NonBlockingLocker`; a *poll* place is
  its `processEvents`; at a *lent* place the slot has unlocked `mayBlock`.
* **MapThreadSteps**: `MapThread::run`; the path of a frame through
  `SimulatedNode::pluginEngineHandleFrame` and `Simulator::frameReceived`, one action
  per lock attempt; the slots of `SimulatedNode` called from the main thread, with
  the emission to observers under the map's lock.
* **SimulatorSlots**: starting a slot, `readData` by dialogue state, `acquireNode`,
  commands, `sendPendingMessage`, and the polling of `NonBlockingLocker`.
* **MapSlots**: `instantiateOrRetrieveMap` with `MapFactory::createOrRetrieveMap` for
  its four requests, `MapThread::quit` and its emission of `aboutToFinish`,
  `mapSimulationThreadIsAboutToFinish`, `finalize`, `releaseNode`.
* **ServerCore**: `Next`, and the safety properties.
* **NodeLease**: the abstract specification: a node is leased to one client, changes
  hands only by being free in between, and messages are written only for clients
  that lease a node or watch a map. `ServerCore` implements it with
  `lessee <- receiver`, `watching <-` the simulators in the observing state, and
  `mail <- pending`.
* **ServerInvariant**: the inductive invariant of the proofs.

Abstractions: socket bytes (a reading slot chooses what the client sent, also nothing
or nonsense); a message is "something is pending"; posted slots are a set (posting
twice equals posting once, since a slot that runs twice finds nothing to do); the
order in which receivers of a signal are called is open; all clients are signed in at
the start; deferred deletion may happen whenever the event loop runs; a creator has
one instance of a map; a slot that finds its mutex taken re-posts itself, which is no
change. Exceptions of a map request (not authorised, no resources, broken file) are
one refusal.

### Frames inside a map

* **LinkWiring**: the connection protocol at the top of `Link.cpp` as operators over
  one record: who hears a half, to which halves it is bridged, on which halves an
  interface sends, and how many clients are counted.
* **EventScheduler**: both schedulers over one state: events ordered as QMultiMap
  orders them (equal times most recent first), one timer per event, the clock.
  Realtime lets time pass and be late; compact time jumps to each event.
* **FrameTransit**: the queues. `pending`, `bytes`, `reserved` and `active` are
  `pendingFrames`, `onAirBytes`/`currentBufferUsage`, `maximumReservedTime` and
  `active`; `script` are the connections a map file still makes and `failed` its
  refusal. The actions are `Connect`, `Refuse`, `NodeSends`, `TurnLink`,
  `LinkPropagates`, `InterfaceForwards`, `TimePasses`. Delivery to all receivers of a
  signal is one step, as in the code (direct connections). `ready` in a frame is not
  in the code: it records what the queue promised, for the properties.
* **DelayLine**: the abstract specification: lines of waiting things, each with a time
  before which it may not go on, first in first out, and a clock that never goes
  back. `FrameTransit` implements it with one line per queue.

Abstractions: the destination address is the set of interfaces it matches; what a
node does with a frame is another action (a node that answers within the handler is
`NodeSends` at the same clock); ownership of frame objects is not tracked; no queue is
connected twice to the same signal (a link bridged to itself, an interface listed
twice on one CSMA/CD link), so that each receiver sees a frame once. Frames that are
too small or too large change nothing. Integers are unbounded: delays stay under 35
minutes, where `milli-seconds * 1000` leaves the int range. Delays stay under 2 s,
where Qt starts to use coarse timers that may be 5 per cent early.

### A node that routes, and the way to the internet

* **RouteTable**: `RoutingRule`, the table of `Router` with its insertion by prefix length,
  the rules of a proxy ARP, and which interface and next hop they give for an address.
  Addresses have `Width` bits.
* **ArpQueue**: `Ethernet2ndLayerTransceiver`: `cache` (the ARP entries), `waiting`
  (`frameSendingQueue`), `bytes` (`bytesPendingToBeSent`). Its operators transform a record
  of one handler's work, since one handler may send, queue, drop and report several frames;
  `CheckQueue` is `checkFrameSendingQueue` with the loop over the queue it appends to.
* **RouterNode**: the actions of a router: `PacketArrives` (`pluginEngineHandleFrame` with
  everything it calls), `ArpArrives`, `QueueChecked` (the timer), and the rest of the map
  that moves the clock. `sent`, `lost` and `emitted` record what became of frames.
* **GatewayRelay**: gateways of user maps read their parameters, advertise networks to the
  adapter's router, subscribe to the relay thread and are deleted, each step under the one
  mutex that the code takes for it; the relay publishes frames to its observers as posted
  events; the main thread ends user maps, routers map, relay and driver in that order.

Abstractions: sizes of a few bytes; a frame is known by its number; what is sent by the
ARP module is `emitted`, and answered by `ArpArrives` at any later time, twice or never.
In `GatewayRelay` one adapter and one router; adapters beyond the first share nothing. A rule
is a pointer in the code, so here it is named by its gateway and its place in that gateway's
list: equal rules, of one gateway or of two, are different rules.

### Parts of a map and of the server

Each is a module on its own and all of them run in `MCMapParts`, each in its own initial
states, since none shares state with another.

* **FrameSharing**: proxies, implementations and their reference counters; `Clone`,
  `Analyze`, detach, relink, set and `finalizeFrame` one lock at a time, so that the holders
  may be in several threads (`MCFrameRace`) or one (`MCMapParts`). Layers have one value
  instead of bytes at offsets.
* **ArpPackets**: the single `arpPacket` of a transceiver, its setters that copy what is
  shared, the clones on their way and what those find when they analyze.
* **PacketLayers**: reading and populating IPv4, ICMP, UDP and TCP headers, the checksums
  computed as the code does (little-endian words, then compared with the definition of the
  Internet checksum), and what routers, nodes, pingers, proxies and trackers change.
* **BitTorrentTracker**: announcements, requests and the check of the queue's head, with
  the scheduler's events.
* **TcpReverseProxy**: the two port tables of `GeneralTCPReverseProxy`, both directions,
  the drawing of a free port and the clearing of the tables when none is left.
* **LinkFsm**: states, the identifiers that tell visits apart, timed transitions with the
  scheduler's events, walk commands and the links that a state turns on or off.
* **PluginTicks**: the folds of `PluginScheduler::start`, as written, and the dispatch.
* **Pingers**: a pinger's template packet, stamps, the nodes that echo, the UDP responder,
  the one-to-one proxy; packets stay on their way, may overtake, double or get lost.
* **MapInstances**: authorization tags, who may create, join or delete, the allocation
  table, the stacks of a creator's instances, a setup that fails, and `destroy`.
* **MapReading** with **PluginParameters**: `Map::setup` and the visitors of
  `map/builder`: `repeat` on all levels, values, lists and references, defaults, units
  and `int` widths, connections of links and interfaces with the code's own count of them, the
  state machine's section, and
  `setParameter` of every plugin. `ReadAsExpanded` compares with the file written out.
* **AddressFormula**: the one-pass readers of MAC and IPv4 formulas, one action per
  character, and the addresses that an item yields, whose bytes are put together with `Or`.
  The property finds the pieces of the whole text instead, between its separators (`Cut`),
  and what each means.
* **SignIn**: `Server::processPendingMessages` with the authenticator, fed in pieces.
* **ServerProcess**: the order in which `main` makes and deletes the parts, any of which
  may fail, the driver's handles, the signal handler and the timeout.

Abstractions: a text is a short tuple of characters or a word; a data base is a set of
accounts; XML is a tree; random delays and ports are a choice.


## 3. Runs

| Run | Instance | What it shows |
|---|---|---|
| `traffic` | 2 clients, 2 maps (2 nodes and 1), every command, create/join/observe (1.55 million states) | types; slots exclusive per simulator (`OneSlotEach`); the two-mutex protocol (`NoRaceWithMain`); `NodeOwnedByOne`; `NoMessageForgotten`; the observers' `qFatal` is unreachable (`ObserverUnlocked`); `NodeLease` is implemented |
| `delete` | 3 clients, 1 map, 1 node; one creates, one joins, one deletes (1.09 million states) | a spinning map thread always gets in (`SpinnerCanEnter`); map and node pointers are valid (`PointersValid`); the main thread never waits for its own lock (`NoSelfDeadlock`); the inductive invariant `IInv` |
| `panic` | 2 clients | violated: see finding 1 |
| `quit_deadlock` | 3 clients, 2 nodes | violated: see finding 2 |
| `transit` | 3 links, 3 interfaces, five map files, both schedulers, 2 frames of two sizes | queue, event, timer and byte count always correspond (`QueuesExact`); the halves of 802.3 links and one bridge only (`FramesKeepToTheirWay`); compact time is exact (`ExactInCompactTime`); `DelayLine` is implemented; the map falls silent (`Drains`) |
| `router` | 2 interfaces, 4 rules, 2 proxy rules, 2 packets of 9 kinds, 2 ARP packets of 4 | the account of waiting bytes (`ArpBytesExact`); no packet is sent twice or forgotten (`FramesAccountedOnce`); whoever learns an address sends what waits for it (`NoneWaitsForKnownHost`); no error about an error; each attempt sends one request (`EveryAttemptAsks`) |
| `arp_timeout` | one packet, no answer | violated: see finding 3 |
| `gateway` | 2 gateways, one with the router's MAC address; 2 frames, for an address or for everybody | `LongestPrefixDecides` and `RulesAreAlive` while gateways come and go; `RouterOutlivesGateways`; `NoEventForTheGone`; a frame goes once to each node that listens and that it is for, and to no other (`EveryListenerServed`); the shutdown completes (`ShutdownCompletes`) |
| `gateway_panic` | a gateway with a malformed list | violated: see finding 4 |
| `parts` | twelve parts, each alone (352,390 states) | one property for each part, below |
| `ticks` | 2 plugins | violated: see finding 5 |
| `frame_race` | 2 holders in 2 threads | violated: see finding 6 |

The properties of `parts`:

| Property | Module | States |
|---|---|---|
| `FramesShared` | FrameSharing | within one thread, copy on write gives everyone its own frame, and implementations live as long as they are referenced |
| `ArpSaysWhatWasMeant` | ArpPackets | no later use of the single packet changes what is already on its way |
| `SentFramesVerify` | PacketLayers | objects and bytes agree and checksums verify, after several nodes in a row |
| `PeersKept` | BitTorrentTracker | hash and queue agree, one check is scheduled, a silent peer goes within two periods |
| `AnswersReachTheirClient` | TcpReverseProxy | an answer goes to the client who asked, from the port it asked |
| `TimedByThisVisit` | LinkFsm | the event of an earlier visit never fires a transition; each timed visit ends |
| `PingsMeasured` | Pingers | a counted reply measures its own ping, though all are copies of one template |
| `AllocationAgrees` | MapInstances | table, stacks, limits and setups agree after failures and deletions |
| `ReadAsExpanded` | MapReading | a map is its file with all repeats, lists and units written out |
| `FormulasMeanTheirPieces` | AddressFormula | exactly the meaningful texts are accepted, with their meaning |
| `SignedInAsSent` | SignIn | the verdict and the bytes left do not depend on the pieces |
| `PartsOutlived` | ServerProcess | no part outlives one that it uses, and the driver's wait for handles ends |

Each property of a passing run has a mutant in `PROJECT.json`: a plausible bug in the
code under which TLC finds the property violated.

**Bounds of the core.** Two clients are enough for every conflict over a node, a map
or a lock between two simulators; the third in `delete` lets one client delete a map
while a second is nested in a slot of a third's. Every client passes its whole
dialogue, may disconnect at any step, and frames arrive at any time; nothing else
is bounded, since the models have no counters. `delete` keeps the deleting client
connected (`DeleterStays`) and sends only invalid commands, which exercise the
blocking call and the lock-free notification; `quit_deadlock` keeps clients
connected and well-behaved (`ClientsStay`), which only makes its counterexample
shorter. Deadlock is checked in both passing runs: the only states without another
step are those of `Stopped` (all clients gone, or `qFatal`).

**Bounds of transit.** Bandwidth, latency and sizes are a few units so that two frames
fill a link and a buffer (3 + 3 > 4), queue behind each other and are dropped; one
link has no latency, one is lossy and is turned up and down. A milli-second has two
ticks and a handler may take one, so events fall between milli-seconds. `MaxClock`
bounds idle time only: with a timer running, time always passes. Deadlock is not
checked: a refused map, and a compact map without events, stop.

**Bounds of router and gateway.** Two packets fill the buffer or wait together, and with the
error that one may cause they make three; one retry (`MaxAttempts` 2) passes through every
branch of the queue's walk that five would. Two gateways with rules of the same network,
one with the router's address, and two frames: more gateways meet only in the same lists.

**Bounds of parts.** Each part has one bound on how often it is used: `MaxWrites`, `MaxSends`,
`MaxHandled`, `MaxMessages`, `MaxRelayed`, `MaxVisits`, `MaxDispatches`, `MaxReplies`,
`MaxInstances`, `MaxText`, `MaxCount`, `MaxInterrupts`. They let what is to be told apart
meet: three holders of three layers, a state visited again while the event of its first
visit waits, a port table that overflows, a stack of two instances. `Kilo` 8 and `IntMax` 1023
stand for 1024 and 2^31 - 1, so that the values of files fit and overflow an int as they
do in the code. Holders of frames are symmetric. Parts stop at their bounds: deadlock is
not checked in `parts`, `router` and `gateway`.

**Fairness.** The core is checked for safety only and assumes none. `transit` assumes
weak fairness of the event loop (`LinkPropagates` or `InterfaceForwards`: a thread in
`exec` handles a timer that has expired) and of the passing of time. `Drains` relies
on the bound `MaxSends`: it says that whatever was accepted moves on once nodes stop
to send. `gateway` assumes that a map that is being read is read to its end, that a map
which failed, or whose server stops, is deleted (its thread's event loop handles `quit`),
and that the main thread and the relay thread make their next step when it is possible:
threads that run, in the code. Frames need not come and gateways need not start.

**Findings.**

1. *(code bug)* `Simulator.cpp:852`. `MapThread::quit` emits `aboutToFinish` while a slot
   of a simulator of that map may be waiting in `NonBlockingLocker` with its mutex
   locked (in `acquireNode`, or in `releaseNode` during `finalize`).
   `mapSimulationThreadIsAboutToFinish` then calls `qFatal` and the server aborts.
   Run `panic`.
2. *(documentation and code differ)* `MapThread.cpp:100`. `quit` holds the map's lock over
   slots that wait in a `NonBlockingLocker` and run events, against the warning in
   `NonBlockingLocker.h:77-84`. Another client's change-address command handled there
   blocks the main thread on the map thread, which waits for the lock the main
   thread holds. Run `quit_deadlock`.

3. *(documentation and code differ)* `WaitingFrameEntry.cpp:89`. The timer event fires exactly
   `WAITING_TIME` after the request, and `isTimedOut` compares with `>`: in compact time,
   always, and in realtime within the same milli-second, the frame is neither retried
   nor dropped and no event is left. Run `arp_timeout`.
4. *(code bug)* `InternetGateWayNode.cpp:107`. A malformed list of networks leaves a gateway with
   rules it never added; its destructor takes them back and `Router.cpp:87` calls
   `qFatal`. Run `gateway_panic`.
5. *(code bug)* `PluginScheduler.cpp:78`. `left_fold` never uses its own result, so the "greatest
   common divisor" is the longest interval; with a shorter one in the map the dispatch
   divides by zero. Run `ticks`.
6. *(code bug)* `FrameProxy.cpp:69`. A frame is detached layer by layer, each under the lock of
   that layer; the thread of another map that analyzes its clone in between shares a
   layer which is then changed under it. Run `frame_race`.

Smaller observations, which no document of the repository speaks about: the relay of an
adapter is made on first use without a lock (`NetworkAdapterInfo.cpp:82`); the proxy of TCP
gives a damaged segment a valid checksum; a tracker follows a null pointer when a peer asks
for an unknown torrent (`BitTorrentTracker.cpp:143`, the model's `crashed`); a repeated
`connected-to-link` never passes on the ownership of an interface
(`EthernetInterfaceVisitor.cpp:92`); the count behind the message `Missing connected-to-link
tag` (`EthernetInterfaceVisitor.cpp:78-91`, `ConnectionsCounted`) takes in the repeats of
multicast groups, so that an interface without a connection passes when such a repeat has
two children, and one with a connection fails when it has none; a `var` outside of a repeat
is read at the index -1 (`ListManager.cpp:173`), which is good for a list of one value and
outside of any longer one; a size of 2 GB overflows its int; relays run before the
server is known to start (`main.cpp:82`); a second list of networks in the parameters of one
gateway makes `addRoutingRules` add the rules of the first list again
(`InternetGateWayNode.cpp:114`), of which the destructor takes back one each; the size of the
block of a sign-in wraps around (`UserAuthenticator.cpp:122`), so that a text of nearly 64 KB
is judged by the pieces in which it arrives; a `UDPPinger` that sends from the port it pings
counts the pings of others as replies (`UDPPinger.cpp:93`).

The proofs and passing runs hold although `panic` is reachable, because the process
ends there; they say what is true up to that point.

## 4. Proofs

Those of the server are for any finite or infinite sets of clients, map threads and nodes,
from `ConstantsAssumption` (of `ServerState`) alone; those of frames for any links,
interfaces, map files, sizes, addressees and delays and for both schedulers, from
`TransitAssumption` and `TicksAssumption` (sizes, delays and limits are natural numbers, a
milli-second has ticks) and `MapAssumption` (the connections of a file name links and
interfaces, an interface is no half of a link, and `ConnectsOnce`, see 5); those of map instances
for any users, hosts and files, from `AuthorizationAssumption` (a host, and a tag of a map
file, gives at most one limit). Those of a router are for any rules, packets, proxies and static
entries and for both schedulers, from `RulesAssumption`, `ArpAssumption`, `PacketsAssumption`
(the shape of rules and packets; times and sizes are natural numbers) and `TicksAssumption`;
those of gateways for any number of them with any parameters, from `RulesAssumption`,
`ScriptsAssumption` (parameters are a sequence) and `RouterAssumption` (the router is no
gateway); `PeersAreKept` and `VisitsAreTimed` from `ExpireAssumption` and `FsmAssumption` (times
are natural numbers), and `PartsAreOutlived` for any configuration of adapters and any parts
that fail, from `ConfigurationAssumption` (some parts have nothing that could fail). Streams
of clients have any length and content (`StreamsAssumption`: characters and numbers of 16
bits), and the interfaces, questions and hops of `ArpPackets` are any whose addresses have
their lengths (`ArpPacketsAssumption`). Shared frames have any finite number of holders and
any depth from two layers on (`FrameAssumption`). Packets arrive with any bytes in bodies of 4 to
65535 bytes, at nodes with any addresses (`PacketLayersAssumption`; an address is a byte, and a
length has 16 bits). Texts of addresses have any length and any number of parts
(`FormulaAssumption`: the separator is a dot or a colon, a colon only between hexadecimal
parts, as `ItemVisitor` asks for them; and no mark is a digit).

| Theorem | Module | States |
|---|---|---|
| `TypeCorrect` | `ServerCore_proofs` | `Spec => []TypeOK` |
| `Invariance` | `ServerCore_proofs` | `Spec => []IInv` |
| `SlotsExclusive`, `OwnershipExclusive`, `RaceFree`, `ObserversReachable` | `ServerCore_proofs` | `OneSlotEach`, `NodeOwnedByOne`, `NoRaceWithMain`, `ObserverUnlocked` always hold |
| `MessagesSent` | `ServerCore_proofs` | `NoMessageForgotten` always holds |
| `NothingDeletedReached`, `MainNeverWaitsForItself`, `FramesEnter` | `ServerCore_proofs` | `PointersValid`, `NoSelfDeadlock`, `SpinnerCanEnter` always hold |
| `LeasesImplemented` | `ServerCore_proofs` | `Spec => Lease!Spec` |
| `TransitInvariance` | `FrameTransit_proofs` | `Spec => []TransitInv` |
| `FramesKept` | `FrameTransit_proofs` | `FramesKeepToTheirWay` always holds |
| `QueuesInvariance` | `FrameTransit_proofs` | `Spec => []QueuesInv` |
| `QueuesAreExact`, `TransitTyped` | `FrameTransit_proofs` | `QueuesExact`, `TypeOK` always hold |
| `CompactIsExact`, `LinesKept` | `FrameTransit_proofs` | `Spec => ExactInCompactTime`, `Spec => Line!Spec` (`KeepsTheLines`) |
| `VisitsAreTimed` | `MapParts_proofs` | `FsmSpec => []TimedByThisVisit` |
| `PeersAreKept` | `MapParts_proofs` | `TrackerSpec => []PeersKept` |
| `AnswersRelayed` | `MapParts_proofs` | if no server has two public ports (`OneToOne`), `ProxySpec => []AnswersReachTheirClient` |
| `AllocationsAgree` | `MapParts_proofs` | `InstancesSpec => []AllocationAgrees` |
| `PartsAreOutlived` | `MapParts_proofs` | `ProcessSpec => []PartsOutlived` |
| `SignedInAsTheySent` | `MapParts_proofs` | if no stream is longer than 65535 (`ShortStreams`), `SignInSpec => []SignedInAsSent` |
| `PingsAreMeasured` | `MapParts_proofs` | if replies tell the pingers apart (`PingersApart`), `PingSpec => []PingsMeasured` |
| `FormulasAlwaysMeanTheirPieces` | `AddressFormula_proofs` | `FormulaSpec => []FormulasMeanTheirPieces` |
| `SentFramesAlwaysVerify` | `Packets_proofs` | `PacketsSpec => []SentFramesVerify` |
| `ArpAlwaysSays` | `Packets_proofs` | `ArpPacketSpec => []ArpSaysWhatWasMeant` |
| `FramesStayShared` | `Packets_proofs` | if the holders are in one thread (`OneThread`), `FramesSpec => []FramesShared` |
| `RouterInvariant` | `RouterNode_proofs` | `Spec => []RouterInv` |
| `BytesAreExact`, `FramesAreAccounted`, `NobodyWaitsForTheKnown`, `NoErrorsAboutErrors` | `RouterNode_proofs` | `ArpBytesExact`, `FramesAccountedOnce`, `NoneWaitsForKnownHost`, `NoErrorAboutError` always hold |
| `AttemptsAsk` | `RouterNode_proofs` | `Spec => EveryAttemptAsks`, an action property |
| `LongestDecidesAlways`, `RouterOutlives`, `NothingForTheGone` | `GatewayRelay_proofs` | `LongestPrefixDecides`, `RouterOutlivesGateways`, `NoEventForTheGone` always hold |
| `ListenersServed` | `GatewayRelay_proofs` | `Spec => EveryListenerServed`, an action property |
| `RulesStayAlive` | `GatewayRelay_proofs` | if the parameters of each gateway list its networks once (`AdvertisedOnce`), `Spec => []RulesAreAlive` |

None of the four safety properties of the server is inductive. `IInv` adds what the code relies on
between steps:

* `NestedPlaces`: only a poll place or the emission of `aboutToFinish` may lie below
  another slot - so the slot that returns is the one on top, and a simulator whose
  mutex is free has no slot on the stack (`OneSlotEach`);
* `MainHolds`: `mayBlock` is the main thread's except at the lent places, `Delivering`:
  a map thread is in `deliver` only with `mutex` or `mayBlock`; together with
  `OneSlotEach` they give `NoRaceWithMain` for frames, and `Callers` (a blocking call
  has a waiting caller) gives it for the lock-free notification;
* `NodePointer`, `NotStarted`, `Leaving`: node pointer, dialogue state and active slot
  agree, also for simulators on their way out; with `Handling` (a frame is handled
  under its node's lock) they give `NodeOwnedByOne`;
* `Observers`, `Emissions`: an observer has no node and never waits in a slot, and the
  main thread is blocked while a change is announced: `ObserverUnlocked`;
* `MapKnown`, `OneFactoryHolder`: a map thread exists only while its map is managed, or
  one slot is making or ending it.

`MessagesSent` needs `Served` besides: the main thread, when it waits for a map thread,
goes on to send what that thread left - except after `walk`, which leaves nothing.
`PointersValid` and `NoSelfDeadlock` need `MapInv`: the map that a pointer leads to is
managed, or a slot is about to end it and the owner of the pointer has still to be told or
deals with it (`MapReached`); who is told runs above the slot that tells (`AboutAbove`), so
an emission is over only when all have let go; and whoever has a pointer listens. One slot
at most makes or ends maps (`OneMapSlot`), although `MapThread::finalize` waits after the
factory's mutex was released, because its `wait ()` processes no events.
`SpinnerCanEnter` needs that the node of a waiting frame stays taken (`FrameWaits`): then
its client has the node, so a slot of the client that keeps both mutexes is one that runs.

The proofs have one lemma per action group; its last part maps every action to
a step of `NodeLease` or a stutter.

`FramesKeepToTheirWay` is not inductive either: `TransitInv` adds that a half is fed by one
link or written by one interface, never both (`Exclusive`), that the halves which clients
yet to come will write on are unused (`Spare`: the next `connectToInterface` or
`connectToLink` takes one of them), that frames appear only when the map file has been read,
and the shape of waiting frames. There is one lemma per kind of connection and one per action
that moves frames. `AnswersReachTheirClient` needs the tables to be inverse to each other
and public ports never to be given to clients (`PortsKept`); it would fail for a server
behind two public ports, of which `serverReversePortMapping` keeps the last.
`AllocationAgrees` needs what the code keeps in three places to be one thing
(`InstancesInv`): the taken handles are exactly those of the instances on the stacks and in
setup, each handle belongs to one of them, and a limit leaves room for the setup in progress.

`QueuesExact` counts events and frames, so `QueuesInv` says which event is whose: each frame
of a queue has one event of its own, not before the frame may go on, and in compact time at
that very moment (`Awaited`); the frames of a queue are in the order of their times, and none
is later than its half is reserved. Then the first event that fires is no earlier than the
first frame of its queue, and serving the first frame is right at any event of the queue,
although `processNextEvent` does not look which frame the event was made for; the events
that are left are given to the frames that are left again. For the bytes, the sum
of a queue is shown to grow and shrink by one frame (a recursive function, by induction with
`LeastNumber`). What any scheduler promises its users is in `EventScheduler_proofs`: there is
a first event when there is one, as many timers as events, and in real time a timer at
the time of each event, so that none is delivered early. With it, `LinesKept` maps every step to the step of `DelayLine`
at each queue, and `TimedByThisVisit` needs only that events name visits that have begun
(`VisitsTimed`): an event of an earlier visit is told by its number.

`PeersKept` bounds how long a silent peer stays, although `checkForExpiredPeers` looks at the
head of the queue only. `TrackerInv` has a history for that, which is not in the code: when
each peer was put at the end of the queue, last (`c` in `Timely`). It grows along the queue,
is at most a period after the peer was last heard of, and the next check is at most a period
after that of the head; so nobody is older than two periods. The sequence that a check moves
to the end is a recursive function, by induction as above.

What a router owes to its frames is `RouterInv`: every frame is in one place - waiting, sent,
lost, or named by an error - and none of them in two (`Placed`, `Apart`); the account is what
the waiting frames take (`Paid`, with the sum as a recursive function); and whoever waits, waits
for an address that is not in the cache (`Unanswered`), now and therefore later, since entries
only age. The hard handler is `checkFrameSendingQueue`: it walks a queue to which its own
errors append, while the bytes of the frames already passed are still to be subtracted. One
lemma per branch (`KeepStep`, `DealStep`) shows that a step keeps `Kept`: the account, short
of the frames dealt with so far, what was asked, and which frames are new attempts; the walk is
then an induction over the places it has passed. `Left` is what every handler - learning
an address, sending, the timer - leaves to the next.

`GatewayInv` says when the router's map ends (`LastOfAll`: after all gateways have) and that
whoever is subscribed is so once and runs or leaves, and whoever runs is subscribed
(`Subscribed`), which is what `EveryListenerServed` needs. `RulesAreAlive` needs
`RulesInv`: a rule is known by its gateway and its place (`ListedByPlace`, `ListedLater`: the list
is written once), is in the table once (`OwnedOnce`), and its gateway is still linked
(`OwnersLinked`); then the destructor, which removes one of each, leaves none.
`AdvertisedOnce` is needed because a second list of networks adds rules of the first twice.

`PartsOutlived` needs to know exactly which parts exist at each stage of `main` (`Rising`,
`Whole`, `Falling`), that those that exist never lack one that they use (`Closed`), and whose
the driver's handles are (`HandlesInv`): one for each adapter, each relay and the logger, so that
its wait for them ends.

`SignInv` says that what has arrived and what has not is the stream, or the stream after the
size of its block. `CheckedAsSent` shows, text by text, that a block that has arrived as a
whole gives the verdict of the stream, wherever the stream was cut. `ShortStreams` is
needed: with a block smaller than 4, `blockSize -= 2 + size` wraps around, and a password of
65533 characters that has arrived at once would be accepted, which in pieces would not.

`PingInv` says of every packet on its way which ping of which pinger it is, and in which of the
forms that it takes there and back, the proxy's included; the template is a copy of the last
ping only. `PingersApart` is what the code relies on to know its own replies: two pingers with
one address have different identifiers, and no `UDPPinger` sends from the port that it pings,
because it looks at the port alone and would count the pings of another.

`PacketInv` says of each layer that its bytes say what its object says (`EthSays`, `IpSays`,
`BodySays`), that the object above IPv4 is one for its protocol, and, once a node has handled the
packet, that the header verifies; a whole body verifies under the addresses that the bytes
have. It is inductive only so: a node that hands the objects on relies on layers which it has
not populated, and the next one may read the bytes. That a populated checksum verifies has an
argument of its own, about sequences of any length. The code sums words in the byte order
of the host, the Internet checksum in that of the network; modulo 65535 one is 256 times the
other. Folding a sum keeps its remainder, and folding twice leaves 16 bits if the sum has
at most 32, as it has for 65535 bytes; so the number that is stored completes the
sum to a multiple of 65535, which turning the bytes does not change. Both sums are recursive
functions, compared term by term by induction (`UpTo`, `History` in `EventScheduler_proofs`).
What nodes change without a new sum of the body, TTL and hardware addresses, is in no body's sum,
and `PassIcmp` changes addresses under a body whose checksum does not cover them.

`ArpInv` links the objects of a packet in both directions (`UppersStand`, `LowersStand`) and
says that each has the fields which its bytes have, so that a copy may be read from the bytes
again; `ReadAsWritten` shows for any addresses that what is populated is read back. After
`Detached` nothing on its way shares what is about to be written (`DetachedAlone`): the ARP
object is not shared if no packet holds it, but the object under it may still be, which
is what the second branch of `FrameProxy::detach` is for. `ArpsHeld` - every ARP object
belongs to somebody - is what lets `FinalizeArp` delete without leaving a pointer behind.

`FrameInv` follows the pointers of shared frames. A chain goes along the lower pointers, but
for the one layer that waits for its new lower layer (`ChainsLinked`, `Pending`); an upper
pointer leads to a layer that points back (`UppersLinked`); who shares a layer shares all
below it (`SharedBelow`), which is why a layer that another holder analyzed says what this
holder's bytes say. What a holder is about to write is its own above the layer that it looks at
(`Detaching`), by the counters: an implementation with one reference is in no other chain.
`CountsExact` in turn needs that what is let go goes from the top down (`LettingGo`), so that
nobody lets an implementation go twice. The fields hold in the middle of a write, too
(`FramesSay`): a copy is made with what the original says. `OneThread` is needed: without it
`MCFrameRace` finds a holder that analyzes its way to a layer which another, in the middle of a
write, has just found to be its own.

`FormulaInv` compares a reader that never looks back with the pieces of the whole text. In the
loop it says, for each place of the reader, what it has read of the piece that it is in (`Reading`):
after the plus, say, that a brace, the number `a` and the plus are there and nothing else; and
of the pieces before, that each is complete and means its part (`PartsBefore`). Where the
pieces end depends on the text, so both must survive one more character: `CutsKept` shows that
a cut at a separator stays, `PieceKept` that a piece means what its own characters say. Each
way out of the loop with an error needs a reason why the piece means nothing whatever follows
(`OpenMeansNothing`, `MeansNothing`); and the last constant ends the loop at the first character
that is no digit, so its piece ends there, whatever the text has behind it (`LastConstant`).
The bytes of an address are a matter of numbers: `a | b` is compared with a sum bit by bit,
and is one when the low bits of one are 0 and the other has no more bits than that, as long
as no part grows over 255.

**Only model-checked:** `ReadAsExpanded`, which is induction over the trees of map files,
of any depth of `repeat`. Liveness under fairness (`Drains`, `ShutdownCompletes`) and
`ENABLED` are out of the prover's reach. Every other property of a passing run is proved.

## 5. Not modelled

* I/O: SQL, pcap and raw sockets (frames come from outside at any time), XML parsing, the
  contents of logs, Qt's accepting of connections. `PROJECT.json` "components" names, for
  each part that is only "partly" modelled, what is left out.
* Coarse timers: Qt lets timers of 2 s and more fire up to 5 per cent early; delays of
  35 minutes and more leave the int range of `milli-seconds * 1000`.
* Map files that connect the same things to a CSMA/CD link twice, or a link to itself
  (`ConnectsOnce`): the code refuses neither and would deliver frames twice, which the sets
  of takers in `FrameTransit` cannot say.
* IP options, fragments and the lengths of whole packets: nodes copy them unread.
* `LAST_IDENTIFIER`, a static counter that several maps may increment at once while they
  are read, and Qt's random numbers, which are a choice here.
* Three hazards without a property, each with its reason in `PROJECT.json`: the retry of
  `finalize` (`Simulator.cpp:98`), `walk` that does not read on (`Simulator.cpp:618`), and
  the overflow of long delays (`RealtimeScheduler.cpp:46`).

## 6. Plan

What is left is to prove `ReadAsExpanded` for one level of `repeat`.
