---------------------------- MODULE PluginTicks ----------------------------
(***************************************************************************)
(* plugin/PluginScheduler, which ticks the plugins of a map: it dispatches *)
(* at multiples of the greatest common divisor of their intervals and      *)
(* counts how many of them each plugin has to wait.                        *)
(***************************************************************************)
EXTENDS EventScheduler, SequencesExt

CONSTANTS
  Plugin,
  Intervals,      \* the intervals a map file may give to its plugins, in milli-seconds
  MaxDispatches   \* bound: dispatches of ticks

ASSUME TicksIntervals == Intervals \subseteq [Plugin -> Nat]

VARIABLES
  tickInterval,  \* the intervals of this map
  gcd, lcm,
  schedule,      \* by plugin: its factor
  timeCounter,
  dispatches,
  fault,         \* an integer was divided by zero
  lastTick       \* history: when each plugin was ticked last

ticksVars == <<tickInterval, gcd, lcm, schedule, timeCounter, dispatches, fault, lastTick>>

\* calc_gcd
Gcd(m, n) ==
  LET g[a \in 0 .. m + n, b \in 0 .. m + n] == IF b = 0 THEN a ELSE g[b, a % b]
  IN IF m > n THEN g[m, n] ELSE g[n, m]
Lcm(m, n) == (m \div Gcd(m, n)) * n

\* left_fold: every step starts from the initial value again.
LeftFold(list, Func(_, _), initialValue) ==
  FoldLeft(LAMBDA res, t : Func(initialValue, t), initialValue, list)

\* The keys of a QMultiMap, in order, one for each plugin.
Keys(table) ==
  SortSeq(SetToSeq({<<table[p], p>> : p \in Plugin}), LAMBDA s, t : s[1] < t[1])
KeyList(table) == [k \in DOMAIN Keys(table) |-> Keys(table)[k][1]]

\* start, when the map has been read: intervals are not zero unless the build checks no
\* assertions.
TicksInit ==
  /\ tickInterval \in Intervals
  /\ realtime \in BOOLEAN /\ clock = 0
  /\ gcd = LeftFold(KeyList(tickInterval), Gcd, 0)
  /\ fault = (gcd = 0)
  /\ schedule = [p \in Plugin |-> IF gcd = 0 THEN 0 ELSE tickInterval[p] \div gcd]
  /\ lcm = IF fault THEN 1 ELSE LeftFold(KeyList(schedule), Lcm, 1)
  /\ timeCounter = 0 /\ dispatches = 0
  /\ lastTick = [p \in Plugin |-> 0]
  /\ events = IF fault THEN {} ELSE {[due |-> gcd * TicksPerMs, no |-> 1, who |-> <<"dispatch", 0>>]}
  /\ timers = IF fault THEN {}
              ELSE {[at |-> IF realtime THEN gcd * TicksPerMs ELSE 0, no |-> 1]}
  /\ registered = IF fault THEN 0 ELSE 1

\* The plugins whose turn it is, when the counter has been advanced.
Ticked == {p \in Plugin : (timeCounter + 1) % schedule[p] = 0}

\* dispatchPluginsTickEvents.  The factors are visited in order, so that a zero factor
\* stops the program before any plugin is ticked.
Dispatch(lag) ==
  /\ ~fault /\ dispatches < MaxDispatches
  /\ dispatches' = dispatches + 1
  /\ ProcessNext(lag, <<[who |-> <<"dispatch", 0>>, ms |-> gcd, wanted |-> TRUE]>>)
  /\ IF \E p \in Plugin : schedule[p] = 0
     THEN fault' = TRUE /\ UNCHANGED <<timeCounter, lastTick>>
     ELSE /\ timeCounter' = (timeCounter + 1) % lcm
          /\ lastTick' = [p \in Plugin |-> IF p \in Ticked THEN clock' ELSE lastTick[p]]
          /\ UNCHANGED fault
  /\ UNCHANGED <<tickInterval, gcd, lcm, schedule>>

TicksNext == (\E lag \in Lags : Dispatch(lag)) \/ (Tick /\ UNCHANGED ticksVars)

TicksSpec == TicksInit /\ [][TicksNext]_<<schedulerVars, ticksVars>>
-----------------------------------------------------------------------------
\* Every plugin is ticked in its own interval: PluginScheduler is "the sole responsible
\* class for providing tick signals for all other plugins".
EveryPluginTicked ==
  /\ ~fault
  /\ ~realtime => \A p \in Plugin : clock - lastTick[p] <= tickInterval[p] * TicksPerMs
=============================================================================
