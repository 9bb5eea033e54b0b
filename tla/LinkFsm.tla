------------------------------ MODULE LinkFsm ------------------------------
(***************************************************************************)
(* The state machine of a map (fsm/ with map/builder/FsmVisitor), which    *)
(* turns links up and down.  A state is left by the timed transition it    *)
(* drew when it was entered, or by walk, a command of a client.  Events    *)
(* cannot be taken back from the scheduler, so the event of a visit that   *)
(* walk ended still arrives, maybe during a later visit of the same state. *)
(***************************************************************************)
EXTENDS EventScheduler, TLC

CONSTANTS
  FsmState,
  TimedTargets,    \* by state: the targets of its transitions with a rate
  ManualTarget,    \* by state: the set of the target of its manual transition, if any
  Activity,        \* by state: the links its activity turns up (TRUE) or down
  FsmLink,
  Delays,          \* the times, in milli-seconds, that a state may draw
  MaxVisits        \* bound: visits of states

ASSUME FsmAssumption ==
  /\ TimedTargets \in [FsmState -> SUBSET FsmState]
  /\ ManualTarget \in [FsmState -> SUBSET FsmState]
  /\ \A s \in FsmState : Cardinality(ManualTarget[s]) <= 1
  /\ Delays \subseteq Nat

VARIABLES
  current,      \* the active state
  lastId,       \* by state: lastId, the number of the present visit
  enabled,      \* enabledTransition of the active state: the set of its target
  linkUp,       \* by link: up or down
  walkPosted,   \* walk signals queued for the map's thread
  visits,       \* visits so far
  leaveAt,      \* history: when the timed transition of this visit is due
  leftEarly     \* history: a timed transition fired before its time

fsmVars == <<current, lastId, enabled, linkUp, walkPosted, visits, leaveAt, leftEarly>>

\* onEntry of state s as visit number id: it draws a time for each transition and the
\* earliest is enabled.  A state without timed transitions schedules nothing.
Entry(s, id, target, ms) ==
  <<[who |-> <<s, id>>, ms |-> ms, wanted |-> target # {}]>>

Draws(s) == IF TimedTargets[s] = {} THEN {{}} ELSE {{t} : t \in TimedTargets[s]}

\* The links of the entered() signal of s.
Turned(s, links) == Activity[s] @@ links

\* Fault: onExit keeps the number of the visit.
SameVisit(s) == lastId
Exited(s) == [lastId EXCEPT ![s] = @ + 1]

\* The machine moves from the active state to s; from is the clock of the handler.
Enter(s, ids, from, lag, target, ms) ==
  /\ current' = s
  /\ lastId' = ids
  /\ enabled' = target
  /\ linkUp' = Turned(s, linkUp)
  /\ visits' = visits + 1
  /\ leaveAt' = from + lag + ms * TicksPerMs

FsmInit ==
  /\ current \in FsmState
  /\ lastId = [s \in FsmState |-> 0]
  /\ linkUp = Turned(current, [l \in FsmLink |-> TRUE])
  /\ walkPosted = 0 /\ visits = 1
  /\ \E target \in Draws(current), ms \in Delays :
       /\ enabled = target
       /\ leaveAt = ms * TicksPerMs
       /\ realtime \in BOOLEAN /\ clock = 0
       /\ events = IF target = {} THEN {}
                   ELSE {[due |-> ms * TicksPerMs, no |-> 1, who |-> <<current, 0>>]}
       /\ timers = IF target = {} THEN {}
                   ELSE {[at |-> IF realtime THEN ms * TicksPerMs ELSE 0, no |-> 1]}
       /\ registered = IF target = {} THEN 0 ELSE 1
  /\ leftEarly = FALSE

\* processDeliveredEvent of the state that scheduled the event: an old visit is ignored;
\* else fired() is emitted, and only the enabled transition of the active state hears it.
Delivered ==
  /\ walkPosted = 0
  /\ events # {}
  /\ LET s == First.who[1]  id == First.who[2]
     IN IF id < lastId[s] \/ s # current \/ enabled = {}
        THEN /\ ProcessNext(0, <<>>)
             /\ UNCHANGED fsmVars
        ELSE /\ visits < MaxVisits
             /\ \E t \in enabled : \E target \in Draws(t), ms \in Delays, lag \in Lags :
                  /\ Enter(t, Exited(s), HandlerClock, lag, target, ms)
                  /\ ProcessNext(lag, Entry(t, Exited(s)[t], target, ms))
             /\ leftEarly' = (leftEarly \/ HandlerClock < leaveAt)
             /\ UNCHANGED walkPosted

\* A client's walk command, from its simulator's thread.
PostWalk ==
  /\ visits + walkPosted < MaxVisits
  /\ walkPosted' = walkPosted + 1
  /\ UNCHANGED <<schedulerVars, current, lastId, enabled, linkUp, visits, leaveAt, leftEarly>>

\* The signal arrives in the map's thread, which delivers it before the next timer.
Walked ==
  /\ walkPosted > 0 /\ visits < MaxVisits
  /\ walkPosted' = walkPosted - 1
  /\ IF ManualTarget[current] = {}
     THEN UNCHANGED <<schedulerVars, current, lastId, enabled, linkUp, visits, leaveAt>>
     ELSE \E t \in ManualTarget[current] : \E target \in Draws(t), ms \in Delays, lag \in Lags :
            /\ Enter(t, Exited(current), clock, lag, target, ms)
            /\ Register(lag, Entry(t, Exited(current)[t], target, ms))
  /\ UNCHANGED leftEarly

FsmNext == Delivered \/ PostWalk \/ Walked \/ (Tick /\ UNCHANGED fsmVars)

FsmSpec == FsmInit /\ [][FsmNext]_<<schedulerVars, fsmVars>>
-----------------------------------------------------------------------------
\* A timed transition is taken when its own visit is due, never by the event of an
\* earlier visit; and a visit with a timed transition has exactly one live event, so that
\* the state is left in the end.
TimedByThisVisit ==
  /\ ~leftEarly
  /\ Cardinality({e \in events : e.who = <<current, lastId[current]>>})
       = IF enabled = {} THEN 0 ELSE 1
=============================================================================
