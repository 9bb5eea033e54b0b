---------------------------- MODULE FrameTransit ----------------------------
(***************************************************************************)
(* The way of a frame through a map.  A node sends it through an interface,*)
(* the interface hands it to the links it is plugged into, a link keeps it *)
(* while it is on the air, then propagates it to the interfaces that hear  *)
(* it and, when it comes straight from an interface, to the bridged links; *)
(* an interface keeps it until its node handles it.  Halves of links and   *)
(* interfaces are queues; the scheduler of the map tells when the first    *)
(* frame of a queue moves on.                                              *)
(***************************************************************************)
EXTENDS LinkWiring, EventScheduler

CONSTANTS
  Scripts,        \* the connections that map files make, in document order
  Bandwidth,      \* of a link, in bytes per second
  Latency,        \* of a link, in milli-seconds
  Lossy,          \* the links with a loss rate
  Delay,          \* of an interface, in milli-seconds
  MaxBuffer,      \* of an interface, in bytes
  MsPerSecond,    \* 1000 in the code
  MinFrameSize,   \* EthernetFrame::MIN_FRAME_SIZE
  MaxFrameSize,   \* EthernetFrame::MAX_FRAME_SIZE
  Sizes,          \* bound: sizes of the frames that nodes send
  Addressees,     \* bound: the interfaces that match a frame's destination
  MaxSends,       \* bound: frames that nodes send
  Switched        \* bound: links that a state machine of the map turns up and down

ASSUME TransitAssumption ==
  /\ Bandwidth \in [Link -> Nat \ {0}] /\ Latency \in [Link -> Nat]
  /\ Lossy \subseteq Link
  /\ Delay \in [Interface -> Nat] /\ MaxBuffer \in [Interface -> Nat]
  /\ MsPerSecond \in Nat /\ MinFrameSize \in Nat /\ MaxFrameSize \in Nat
  /\ Sizes \subseteq Nat /\ Addressees \subseteq SUBSET Interface /\ MaxSends \in Nat
  /\ Switched \subseteq Link

ASSUME MapAssumption ==
  /\ Scripts \subseteq Seq(Step) /\ Half \cap Interface = {}
  /\ \A steps \in Scripts : ConnectsOnce(steps)

VARIABLES
  script,    \* connections that are still to be made
  failed,    \* the map file was refused
  wiring,
  pending,   \* pendingFrames of every queue
  bytes,     \* onAirBytes of a half, currentBufferUsage of an interface
  reserved,  \* maximumReservedTime, in milli-seconds
  active,
  sent       \* frames sent so far

transitVars == <<script, failed, wiring, pending, bytes, reserved, active, sent>>
vars == <<schedulerVars, transitVars>>

Queue == Half \cup Interface
LinkOf(h) == h[1]

\* from is the sender; fresh says that getLastSeenInterface is not null, it is then
\* the sender; ready is when the queue that holds the frame promises to let it go.
Frame == [from : Interface, fresh : BOOLEAN, to : SUBSET Interface, size : Nat, ready : Nat]

RangeOf(s) == {s[k] : k \in DOMAIN s}
Larger(m, n) == IF m < n THEN n ELSE m

Init ==
  /\ SchedulerInit
  /\ script \in Scripts
  /\ failed = FALSE
  /\ wiring = Unwired
  /\ pending = [q \in Queue |-> <<>>]
  /\ bytes = [q \in Queue |-> 0]
  /\ reserved = [h \in Half |-> 0]
  /\ active = [l \in Link |-> TRUE]
  /\ sent = 0

-----------------------------------------------------------------------------
(* Building the map. *)

Connect ==
  /\ script # <<>> /\ ~failed /\ Possible(wiring, Head(script))
  /\ wiring' = Connected(wiring, Head(script))
  /\ script' = Tail(script)
  /\ UNCHANGED <<schedulerVars, failed, pending, bytes, reserved, active, sent>>

Refuse ==
  /\ script # <<>> /\ ~failed /\ ~Possible(wiring, Head(script))
  /\ failed' = TRUE
  /\ UNCHANGED <<schedulerVars, script, wiring, pending, bytes, reserved, active, sent>>

Running == script = <<>>

-----------------------------------------------------------------------------
(* A frame is offered to several queues in the order of their connection.  *)

\* Fault: room is looked for without the size of the frame itself.
AcceptsWhileAnyRoom(q, f) ==
  IF q \in Interface
  THEN (f.fresh => q # f.from) /\ q \in f.to /\ bytes[q] <= MaxBuffer[q]
  ELSE active[LinkOf(q)]

\* receiveFrame and inspectReceivedFrame of an interface, sendFrame of a link.
Accepts(q, f) ==
  IF q \in Interface
  THEN /\ f.fresh => q # f.from
       /\ q \in f.to
       /\ bytes[q] + f.size <= MaxBuffer[q]
  ELSE /\ active[LinkOf(q)]
       /\ \/ Latency[LinkOf(q)] = 0
          \/ bytes[q] + f.size <= Bandwidth[LinkOf(q)] * Latency[LinkOf(q)]

\* The body of a first layer frame is the whole frame.
Airtime(l, size) == (size * MsPerSecond) \div Bandwidth[l]

\* maximumReservedTime after a frame: CSMA/CD keeps the medium for the latency too.
BusyUntil(h, size, ms) ==
  Larger(reserved[h], ms) + Airtime(LinkOf(h), size)
    + (IF LinkOf(h) \in CsmaCd THEN Latency[LinkOf(h)] ELSE 0)

ReadyAt(q, size, ms) ==
  IF q \in Interface THEN ms + Delay[q]
  ELSE BusyUntil(q, size, ms) + (IF LinkOf(q) \in CsmaCd THEN 0 ELSE Latency[LinkOf(q)])

\* Which of the targets take f; a lossy link may lose any frame.
Takers(targets, f) ==
  LET able == {q \in RangeOf(targets) : Accepts(q, f)}
  IN  {able \ lost : lost \in SUBSET {h \in able \cap Half : LinkOf(h) \in Lossy}}

\* The scheduleEvent calls of the targets, at the given milli-second.
Requests(targets, takers, f, ms) ==
  [k \in DOMAIN targets |->
     [who |-> targets[k], ms |-> ReadyAt(targets[k], f.size, ms) - ms,
      wanted |-> targets[k] \in takers]]

\* The takers keep a copy of f behind what their queue holds otherwise.
Enqueued(queues, takers, f, ms) ==
  [q \in Queue |-> IF q \in takers
                   THEN Append(queues[q], [f EXCEPT !.ready = ReadyAt(q, f.size, ms)])
                   ELSE queues[q]]

\* Fault: an interface only gives back what it never counted.
ChargedOnLinks(usage, takers, f) ==
  [q \in Queue |-> IF q \in takers \cap Half THEN usage[q] + f.size ELSE usage[q]]

Charged(usage, takers, f) ==
  [q \in Queue |-> IF q \in takers THEN usage[q] + f.size ELSE usage[q]]

Reserve(takers, f, ms) ==
  reserved' = [h \in Half |-> IF h \in takers THEN BusyUntil(h, f.size, ms) ELSE reserved[h]]

-----------------------------------------------------------------------------
(* A node sends a frame; one of an illegal size is finalized and changes nothing. *)

NodeSends(i, size, to) ==
  LET f == [from |-> i, fresh |-> TRUE, to |-> to, size |-> size, ready |-> 0]
      targets == wiring.sendsOn[i]
      ms == CurrentMs
  IN  /\ Running /\ sent < MaxSends
      /\ size \in MinFrameSize..MaxFrameSize
      /\ \E takers \in Takers(targets, f) : \E lag \in Lags :
           /\ Register(lag, Requests(targets, takers, f, ms))
           /\ pending' = Enqueued(pending, takers, f, ms)
           /\ bytes' = Charged(bytes, takers, f)
           /\ Reserve(takers, f, ms)
      /\ sent' = sent + 1
      /\ UNCHANGED <<script, failed, wiring, active>>

-----------------------------------------------------------------------------
(* The first event belongs to a queue: its first frame moves on.  A state  *)
(* machine of the map may turn a link down and up while frames are on it.  *)

TurnLink(l, up) ==
  /\ Running
  /\ active' = [active EXCEPT ![l] = up]
  /\ UNCHANGED <<schedulerVars, script, failed, wiring, pending, bytes, reserved, sent>>

\* Fault: a frame from a bridge keeps its sender and crosses the next bridge too.
ForwardFresh(f) == f

\* setLastSeenInterface (NULL) before the frame is shown to the bridged links.
Forward(f) == [f EXCEPT !.fresh = FALSE]

Receivers(h, f) == wiring.hears[h] \o (IF f.fresh THEN wiring.bridges[h] ELSE <<>>)

Served == First.who
Rest(q) == [pending EXCEPT ![q] = Tail(@)]

Uncounted(q) == [bytes EXCEPT ![q] = @ - Head(pending[q]).size]

\* processRegisteredFrame.  The delivering half is no target of its own, so that it
\* does not matter that its bytes are only given back after the propagation.
LinkPropagates ==
  LET f == Head(pending[Served])
      targets == Receivers(Served, f)
      ms == HandlerClock \div TicksPerMs
  IN  /\ TimerExpired /\ Served \in Half /\ pending[Served] # <<>>
      /\ \E takers \in Takers(targets, f) : \E lag \in Lags :
           /\ ProcessNext(lag, Requests(targets, takers, f, ms))
           /\ pending' = Enqueued(Rest(Served), takers, Forward(f), ms)
           /\ bytes' = Charged(Uncounted(Served), takers, f)
           /\ Reserve(takers, f, ms)
      /\ UNCHANGED <<script, failed, wiring, active, sent>>

\* forwardFrameForProcessing; what the node then does is another action.
InterfaceForwards ==
  /\ TimerExpired /\ Served \in Interface /\ pending[Served] # <<>>
  /\ \E lag \in Lags : ProcessNext(lag, <<>>)
  /\ pending' = Rest(Served)
  /\ bytes' = Uncounted(Served)
  /\ UNCHANGED <<script, failed, wiring, reserved, active, sent>>

TimePasses ==
  /\ Running
  /\ Tick
  /\ UNCHANGED transitVars

Next ==
  \/ Connect \/ Refuse
  \/ \E i \in Interface, size \in Sizes, to \in Addressees : NodeSends(i, size, to)
  \/ \E l \in Switched, up \in BOOLEAN : TurnLink(l, up)
  \/ LinkPropagates \/ InterfaceForwards
  \/ TimePasses

Spec == Init /\ [][Next]_vars

\* The event loop of the map thread runs timers that have expired and time passes.
FairSpec == Spec /\ WF_vars(LinkPropagates \/ InterfaceForwards) /\ WF_vars(TimePasses)

-----------------------------------------------------------------------------
(* Properties. *)

TypeOK ==
  /\ script \in UNION {{SubSeq(s, n, Len(s)) : n \in 1..Len(s) + 1} : s \in Scripts}
  /\ failed \in BOOLEAN
  /\ wiring.clients \in [Link -> Nat]
  /\ \A h \in Half : RangeOf(wiring.hears[h]) \subseteq Interface /\ RangeOf(wiring.bridges[h]) \subseteq Half
  /\ \A i \in Interface : RangeOf(wiring.sendsOn[i]) \subseteq Half
  /\ \A q \in Queue : RangeOf(pending[q]) \subseteq Frame /\ bytes[q] \in Nat
  /\ reserved \in [Half -> Nat]
  /\ active \in [Link -> BOOLEAN]
  /\ sent \in 0..MaxSends
  /\ realtime \in BOOLEAN /\ clock \in Nat /\ registered \in Nat
  /\ \A e \in events : e.due \in Nat /\ e.no \in 1..registered /\ e.who \in Queue
  /\ \A t \in timers : t.at \in Nat /\ t.no \in 1..registered

EventsOf(q) == {e \in events : e.who = q}

\* Whoever the scheduler serves has a frame, and no frame waits without an event and
\* a timer: the assertions in processNextEvent and processRegisteredFrame and the
\* "Panic: never occur" of forwardFrameForProcessing.
EventsMatchQueues ==
  /\ \A q \in Queue : Cardinality(EventsOf(q)) = Len(pending[q])
  /\ Cardinality(timers) = Cardinality(events)

SizeOf(frames) ==
  LET total[n \in 0..Len(frames)] == IF n = 0 THEN 0 ELSE total[n - 1] + frames[n].size
  IN  total[Len(frames)]

\* onAirBytes and currentBufferUsage are the bytes of the frames that wait, they stay
\* within the limit of the queue, and a drained queue is as good as new.
BytesExact ==
  \A q \in Queue :
    /\ bytes[q] = SizeOf(pending[q])
    /\ q \in Interface => bytes[q] <= MaxBuffer[q]
    /\ q \in Half /\ Latency[LinkOf(q)] > 0
         => bytes[q] <= Bandwidth[LinkOf(q)] * Latency[LinkOf(q)]

\* A frame that is dropped, delivered or refused leaves neither an event nor bytes behind.
QueuesExact == EventsMatchQueues /\ BytesExact

\* Who may put frames on a half: the interfaces that send on it, the bridged links.
Writers(h) == {i \in Interface : h \in RangeOf(wiring.sendsOn[i])}
Feeders(h) == {LinkOf(g) : g \in {k \in Half : h \in RangeOf(wiring.bridges[k])}}

\* "Exactly one client must send packets over this link": LinkPointToPoint.h.  No
\* order of connections gives a half of an 802.3 link two writers.
OneClientWrites ==
  \A h \in Half : LinkOf(h) \notin CsmaCd =>
    Cardinality(Writers(h)) + Cardinality(Feeders(h)) <= 1

\* Halves that carry what i sends: those it writes on, and one bridge further.
Audible(i) ==
  LET direct == RangeOf(wiring.sendsOn[i])
  IN  direct \cup UNION {RangeOf(wiring.bridges[h]) : h \in direct}

\* A frame crosses at most one bridge (it is fresh only on a half its sender writes
\* on), so bridges in a circle cannot turn it for ever; an interface only keeps frames
\* that it could hear and that are addressed to it.
OneBridgeOnly ==
  /\ \A h \in Half : \A f \in RangeOf(pending[h]) :
       h \in (IF f.fresh THEN RangeOf(wiring.sendsOn[f.from]) ELSE Audible(f.from))
  /\ \A i \in Interface : \A f \in RangeOf(pending[i]) :
       i \in f.to /\ \E h \in Audible(f.from) : i \in RangeOf(wiring.hears[h])

\* The wiring that the connections of a map file leave, in any order, and the frames on
\* it: nobody writes into another's half, and no frame strays.
FramesKeepToTheirWay == OneClientWrites /\ OneBridgeOnly

Leaves(q) == pending[q] # <<>> /\ (pending'[q] = <<>> \/ Len(pending'[q]) < Len(pending[q]))

\* In compact time every frame moves on at the very moment its queue promised, however
\* many queues share the scheduler.
ExactInCompactTime ==
  [][~realtime => \A q \in Queue : Leaves(q) => clock' = Head(pending[q]).ready * TicksPerMs]_vars

\* Queues are lines: first in, first out, nobody before its time; time never goes back.
Line == INSTANCE DelayLine WITH
  Place <- Queue,
  line <- [q \in Queue |-> [k \in DOMAIN pending[q] |-> pending[q][k].ready * TicksPerMs]],
  now <- clock
KeepsTheLines == Line!Spec

\* Every frame that a queue took moves on: when nodes stop to send, the map falls silent.
Drains == []<>(\A q \in Queue : pending[q] = <<>>)
=============================================================================
