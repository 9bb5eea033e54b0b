--------------------------- MODULE EventScheduler ---------------------------
(***************************************************************************)
(* The event scheduler of a map (map/AbstractScheduler with its two        *)
(* subclasses).  Events are kept by time in a QMultiMap and every event    *)
(* starts a QTimer; whichever timer fires, the earliest event is delivered.*)
(* A realtime map lets time pass and starts timers with the event's delay; *)
(* a compact map starts zero timers and moves its clock to each event.     *)
(* Times are in ticks, TicksPerMs to a milli-second.                       *)
(***************************************************************************)
EXTENDS Integers, Sequences, FiniteSets

CONSTANTS
  TicksPerMs,  \* the micro-seconds of the code, coarser
  MaxLag,      \* bound: ticks that pass between two readings of the clock in a handler
  MaxClock     \* bound: when the wall clock stops to pass idly

ASSUME TicksAssumption ==
  TicksPerMs \in Nat \ {0} /\ MaxLag \in Nat /\ MaxClock \in Nat

VARIABLES
  realtime,    \* the map's scheduler is a RealtimeScheduler
  clock,       \* simulation clock
  events,      \* events: [due, no, who], no is the order of their insertion
  timers,      \* running timers: [at, no]
  registered   \* how many events have been scheduled

schedulerVars == <<realtime, clock, events, timers, registered>>

SchedulerInit ==
  /\ realtime \in BOOLEAN
  /\ clock = 0
  /\ events = {}
  /\ timers = {}
  /\ registered = 0

CurrentMs == clock \div TicksPerMs

\* How much later than clock the handler that runs now registers its events.
Lags == IF realtime THEN 0..MaxLag ELSE {0}

\* QMultiMap: by time, equal times with the most recently inserted one first.
Before(d, e) == d.due < e.due \/ (d.due = e.due /\ d.no > e.no)

\* Fault: the most recently registered event comes first.
FirstLast == CHOOSE e \in events : \A d \in events : d.no <= e.no

First == CHOOSE e \in events : \A d \in events \ {e} : Before(e, d)

\* Qt fires timers by their time-out and zero timers in the order they were started.
FiresBefore(s, t) == s.at < t.at \/ (s.at = t.at /\ s.no < t.no)
NextTimer == CHOOSE t \in timers : \A s \in timers \ {t} : FiresBefore(t, s)

TimerExpired == timers # {} /\ (realtime => NextTimer.at <= clock)

\* Fault: the compact clock stays where it is.
HandlerClockStays == clock

\* The clock when the handler of First starts.
HandlerClock == IF realtime THEN clock ELSE First.due

\* scheduleEvent, called lag ticks after the time "from".
Due(from, lag, ms) == ms * TicksPerMs + from + lag

\* The handler that started at time "from" calls scheduleEvent for a sequence of
\* requests [who, ms, wanted]; those that are not wanted are skipped.
NewEvents(from, lag, requests) ==
  {[due |-> Due(from, lag, requests[k].ms), no |-> registered + k, who |-> requests[k].who] :
     k \in {j \in DOMAIN requests : requests[j].wanted}}

\* Fault: one running timer is thought to serve all events.
NewTimersWhenIdle(from, lag, requests) ==
  {[at |-> IF realtime THEN Due(from, lag, requests[k].ms) ELSE 0, no |-> registered + k] :
     k \in {j \in DOMAIN requests : requests[j].wanted /\ timers = {}}}

NewTimers(from, lag, requests) ==
  {[at |-> IF realtime THEN Due(from, lag, requests[k].ms) ELSE 0, no |-> registered + k] :
     k \in {j \in DOMAIN requests : requests[j].wanted}}

\* A call from outside a handler, at any time.
Register(lag, requests) ==
  /\ clock' = clock + lag
  /\ events' = events \cup NewEvents(clock, lag, requests)
  /\ timers' = timers \cup NewTimers(clock, lag, requests)
  /\ registered' = registered + Len(requests)
  /\ UNCHANGED realtime

\* processNextEvent: the handler runs before the event is erased.
ProcessNext(lag, requests) ==
  /\ TimerExpired /\ events # {}
  /\ clock' = HandlerClock + lag
  /\ events' = (events \cup NewEvents(HandlerClock, lag, requests)) \ {First}
  /\ timers' = (timers \ {NextTimer}) \cup NewTimers(HandlerClock, lag, requests)
  /\ registered' = registered + Len(requests)
  /\ UNCHANGED realtime

\* Time passes; once the bound is reached, only while a timer is waited for.
Tick ==
  /\ realtime
  /\ clock < MaxClock \/ (timers # {} /\ ~TimerExpired)
  /\ clock' = clock + 1
  /\ UNCHANGED <<realtime, events, timers, registered>>
=============================================================================
