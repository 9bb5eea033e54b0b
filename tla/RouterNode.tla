----------------------------- MODULE RouterNode -----------------------------
(***************************************************************************)
(* A router of a map (plugin/Router): packets come in through its          *)
(* interfaces and are answered, forwarded or dropped; ARP packets come     *)
(* late, twice or never; the rest of the map lets the clock move.          *)
(***************************************************************************)
EXTENDS ArpQueue

CONSTANTS
  Packets,     \* what may arrive: [kind, src, dst, ttl, size]
  ArpPackets,  \* [ip, mac, target, isRequest]
  MaxPackets,  \* bound: packets that arrive
  MaxArps      \* bound: ARP packets that arrive

ASSUME PacketsAssumption ==
  Packets \subseteq [kind : {"data", "echo", "error"}, src : Address, dst : Address,
                     ttl : 0..255, size : Nat]

VARIABLES
  arrived,     \* packets that have arrived
  arps         \* how many ARP packets have arrived

vars == <<schedulerVars, arpVars, arrived, arps>>

Init == SchedulerInit /\ ArpInit /\ arrived = {} /\ arps = 0

\* Sent straight back through the interface, to the source of the packet.
Answer(t, kind, frame) ==
  [t EXCEPT !.emitted = Append(@, [kind |-> kind, to |-> frame.src, about |-> frame.kind])]

Unreachable(t, kind, frame) ==
  Finalized(IF frame.kind # "error" THEN Answer(t, kind, frame) ELSE t, frame)

\* The octet of the time to live wraps below zero.
Hopped(frame) == [frame EXCEPT !.ttl = (@ - 1) % 256]

ToMe(t, frame) ==
  CASE frame.kind = "echo"  -> Answer(t, "echo-reply", frame)
    [] frame.kind = "data"  -> Answer(t, "port-unreachable", frame)
    [] frame.kind = "error" -> t

RoutePacket(t, frame, now) ==
  LET route == Route(frame.dst)
  IN IF Hopped(frame).ttl = 0 THEN Unreachable(t, "time-exceeded", frame)
     ELSE IF route.ifIndex = -1 THEN Unreachable(t, "network-unreachable", frame)
     ELSE IF ~ValidIndex(route.ifIndex) THEN Finalized(t, frame)
     ELSE SendFrame(t, Hopped(frame), route, now)

\* pluginEngineHandleFrame
HandleFrame(t, frame, now) ==
  IF AmIDestination(frame.dst) THEN Finalized(ToMe(t, frame), frame) ELSE RoutePacket(t, frame, now)

\* The milli-second that a handler reads, lag ticks after the time "from".
Now(from, lag) == (from + lag) \div TicksPerMs

PacketArrives ==
  /\ Cardinality(arrived) < MaxPackets
  /\ \E p \in Packets, lag \in Lags :
       LET frame == [no |-> Cardinality(arrived), kind |-> p.kind, about |-> "none",
                     src |-> p.src, dst |-> p.dst, ttl |-> p.ttl, size |-> p.size]
           t == HandleFrame(Work, frame, Now(clock, lag))
       IN /\ Done(t) /\ Register(lag, t.requests)
          /\ arrived' = arrived \cup {frame}
  /\ UNCHANGED arps

ArpArrives ==
  /\ arps < MaxArps
  /\ \E arp \in ArpPackets, k \in DOMAIN Interfaces, lag \in Lags :
       LET t == ReceiveArp(Work, arp, k - 1, Now(clock, lag))
       IN Done(t) /\ Register(lag, t.requests)
  /\ arps' = arps + 1
  /\ UNCHANGED arrived

\* checkFrameSendingQueue, called by the scheduler
QueueChecked ==
  /\ \E lag \in Lags :
       LET t == CheckQueue(Work, Now(HandlerClock, lag))
       IN ProcessNext(lag, t.requests) /\ Done(t)
  /\ UNCHANGED <<arrived, arps>>

\* A compact clock also moves with the events of the rest of the map.
OthersRun ==
  /\ ~realtime /\ clock < MaxClock
  /\ events # {} => clock < First.due
  /\ clock' = clock + 1
  /\ UNCHANGED <<realtime, events, timers, registered, arpVars, arrived, arps>>

TimePasses == Tick /\ UNCHANGED <<arpVars, arrived, arps>>

Next == PacketArrives \/ ArpArrives \/ QueueChecked \/ OthersRun \/ TimePasses

Spec == Init /\ [][Next]_vars
-----------------------------------------------------------------------------
\* A packet by its number, or the error about that packet.
Id(f) == [no |-> f.no, about |-> f.about]
Ids(frames) == {Id(f) : f \in frames}
WaitingFrames == {waiting[k].frame : k \in DOMAIN waiting}
SentFrames == {s.frame : s \in sent}

BytesOf(queue) ==
  LET sum[n \in 0..Len(queue)] == IF n = 0 THEN 0 ELSE sum[n - 1] + queue[n].frame.size
  IN  sum[Len(queue)]

\* The account of the waiting bytes is what the waiting frames hold, through retries,
\* refusals and the errors that are queued while the queue is walked.
ArpBytesExact == bytes = BytesOf(waiting)

\* Every packet that arrived, and every error made about one, is in one place: it
\* waits once, or it was sent, or it was given up; none is sent twice or forgotten.
FramesAccountedOnce ==
  /\ Cardinality(Ids(WaitingFrames)) = Len(waiting)
  /\ Ids(WaitingFrames) \cap (Ids(SentFrames) \cup Ids(lost)) = {}
  /\ Ids(SentFrames) \cap Ids(lost) = {}
  /\ Ids(arrived) \subseteq Ids(WaitingFrames) \cup Ids(SentFrames) \cup Ids(lost)

\* No frame waits for a host whose address the cache holds: whatever puts an entry
\* there or renews it also sends the frames that wait for it.
NoneWaitsForKnownHost ==
  \A k \in DOMAIN waiting : ~HasEntry(Work, waiting[k].hop, CurrentMs)

\* An error is never about an error, neither one sent back at once nor one queued.
NoErrorAboutError ==
  /\ \A f \in WaitingFrames \cup SentFrames \cup lost : f.about # "error"
  /\ \A k \in DOMAIN emitted :
       emitted[k].kind \notin {"request", "reply", "echo-reply"} => emitted[k].about # "error"

Attempts(queue) ==
  {[id |-> Id(queue[k].frame), hop |-> queue[k].hop, attempts |-> queue[k].attempts] : k \in DOMAIN queue}

\* A frame begins to wait, or to wait again, only as its next hop is asked for, once for
\* each attempt.
EveryAttemptAsks ==
  [][LET fresh == Attempts(waiting') \ Attempts(waiting)
         asked == {k \in DOMAIN emitted' : emitted'[k].kind = "request"}
     IN \A hop \in {a.hop : a \in fresh} :
          Cardinality({a \in fresh : a.hop = hop})
            = Cardinality({k \in asked : emitted'[k].to = hop})]_vars

\* A frame that waits is looked at again: WaitingFrameEntry says that sending is retried
\* until a limit and that the frame is then dropped.
WaitingFramesAreWatched == waiting # <<>> => events # {}
=============================================================================
