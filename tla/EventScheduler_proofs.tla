----------------------- MODULE EventScheduler_proofs -----------------------
(***************************************************************************)
(* What holds of the event scheduler of any map, whatever its handlers     *)
(* register: there is a first event and a next timer, as many timers as    *)
(* events, and in a realtime map a timer for each time at which an event   *)
(* is due, so that no event is delivered before its time.                  *)
(***************************************************************************)
EXTENDS EventScheduler, FiniteSetTheorems, TLAPS

\* What a handler may ask for: delays are not negative.
RequestsOf(W) == Seq([who : W, ms : Nat, wanted : BOOLEAN])

EventsTyped(W) ==
  /\ IsFiniteSet(events)
  /\ events \in SUBSET [due : Nat, no : Nat, who : W]
  /\ \A e \in events : e.no \in 1..registered
  /\ \A d, e \in events : d.no = e.no => d = e

TimersTyped ==
  /\ IsFiniteSet(timers)
  /\ timers \in SUBSET [at : Nat, no : Nat]
  /\ \A t \in timers : t.no \in 1..registered
  /\ \A s, t \in timers : s.no = t.no => s = t

DueAt(S, x) == {e \in S : e.due = x}
SetFor(S, x) == {t \in S : t.at = x}

\* As many timers as events and, where the times of both agree, as many at each time.
Matching(inTime, E, T) ==
  /\ Cardinality(T) = Cardinality(E)
  /\ inTime => \A x \in Nat : Cardinality(SetFor(T, x)) = Cardinality(DueAt(E, x))

\* A timer may not be the one that its event started, but there is one for every event.
TimersMatchEvents == Matching(realtime, events, timers)

SchedulerInv(W) ==
  /\ realtime \in BOOLEAN /\ clock \in Nat /\ registered \in Nat
  /\ EventsTyped(W) /\ TimersTyped /\ TimersMatchEvents
-----------------------------------------------------------------------------
\* A set of natural numbers that is not empty has a least element.
LEMMA LeastNumber ==
  ASSUME NEW S \in SUBSET Nat, S # {}
  PROVE  \E n \in S : \A m \in S : n <= m
<1>1. PICK n \in S : \A m \in S : ~(<<m, n>> \in OpToRel(<, Nat))
  BY NatLessThanWellFounded, WFMin
<1>2. ASSUME NEW m \in S, m < n PROVE FALSE
  <2>1. <<m, n>> \in Nat \X Nat /\ <<m, n>>[1] < <<m, n>>[2] BY <1>2
  <2>2. <<m, n>> \in OpToRel(<, Nat) BY <2>1 DEF OpToRel
  <2> QED BY <1>1, <2>2
<1> QED BY <1>2

\* A bounded set of natural numbers that is not empty has a greatest element.
LEMMA GreatestNumber ==
  ASSUME NEW S \in SUBSET Nat, S # {}, NEW b \in Nat, \A m \in S : m <= b
  PROVE  \E n \in S : \A m \in S : m <= n
<1> DEFINE T == {b - m : m \in S}
<1>1. T \in SUBSET Nat /\ T # {}
  <2>1. \A m \in S : m \in Nat /\ b - m \in Nat OBVIOUS
  <2> QED BY <2>1
<1>2. PICK n \in T : \A m \in T : n <= m BY <1>1, LeastNumber
<1>3. PICK g \in S : n = b - g OBVIOUS
<1>4. ASSUME NEW m \in S PROVE m <= g
  <2>1. b - m \in T OBVIOUS
  <2> QED BY <1>2, <1>3, <2>1
<1> QED BY <1>4

\* What holds of 0, and of every number up to m with the one before it, holds up to m.
LEMMA UpTo ==
  ASSUME NEW m \in Nat, NEW G, 0 \in G, \A n \in 1..m : n - 1 \in G => n \in G
  PROVE  \A n \in 0..m : n \in G
<1> DEFINE Bad == {n \in 0..m : n \notin G}
<1>1. CASE Bad = {} BY <1>1
<1>2. CASE Bad # {}
  <2>1. Bad \in SUBSET Nat OBVIOUS
  <2> HIDE DEF Bad
  <2>2. PICK n \in Bad : \A k \in Bad : n <= k BY <1>2, <2>1, LeastNumber
  <2>3. n \in 0..m /\ n \notin G BY <2>2 DEF Bad
  <2>4. n \in 1..m /\ n - 1 \in 0..m /\ n - 1 < n BY <2>3
  <2>5. n - 1 \notin Bad BY <2>2, <2>4
  <2> QED BY <2>3, <2>4, <2>5 DEF Bad
<1> QED BY <1>1, <1>2

Steps(t, m, start, step) == t[0] = start /\ \A n \in 1..m : t[n] = step[<<n, t[n - 1]>>]

\* A computation of m steps has a history.
LEMMA History ==
  ASSUME NEW m \in Nat, NEW S, NEW start \in S, NEW step \in [(1..m) \X S -> S]
  PROVE  \E t \in [0..m -> S] : Steps(t, m, start, step)
<1> DEFINE G == {k \in 0..m : \E t \in [0..k -> S] : Steps(t, k, start, step)}
<1>1. 0 \in G
  <2> DEFINE z == [j \in 0..0 |-> start]
  <2>1. z \in [0..0 -> S] /\ Steps(z, 0, start, step) BY DEF Steps
  <2> QED BY <2>1
<1>2. ASSUME NEW n \in 1..m, n - 1 \in G PROVE n \in G
  <2>1. PICK t \in [0..n - 1 -> S] : Steps(t, n - 1, start, step) BY <1>2
  <2> DEFINE r == step[<<n, t[n - 1]>>]
             u == [j \in 0..n |-> IF j = n THEN r ELSE t[j]]
  <2>2. n - 1 \in 0..n - 1 /\ 0 \in 0..n - 1 /\ 0 # n BY <1>2
  <2>3. r \in S BY <2>1, <2>2
  <2>4. \A j \in 0..n : j = n \/ j \in 0..n - 1 BY <1>2
  <2>5. u[n] = r /\ \A j \in 0..n - 1 : u[j] = t[j] BY <1>2
  <2> HIDE DEF r
  <2>6. u \in [0..n -> S] BY <2>1, <2>3, <2>4
  <2> HIDE DEF u
  <2>7. u[0] = start BY <2>1, <2>2, <2>5 DEF Steps
  <2>8. ASSUME NEW j \in 1..n PROVE u[j] = step[<<j, u[j - 1]>>]
    <3>1. j - 1 \in 0..n - 1 BY <1>2
    <3>2. u[j - 1] = t[j - 1] BY <2>5, <3>1
    <3>3. CASE j = n BY <2>5, <3>2, <3>3 DEF r
    <3>4. CASE j # n
      <4>1. j \in 1..n - 1 /\ j \in 0..n - 1 BY <1>2, <3>4
      <4>2. t[j] = step[<<j, t[j - 1]>>] BY <2>1, <4>1 DEF Steps
      <4> QED BY <2>5, <3>2, <4>1, <4>2
    <3> QED BY <3>3, <3>4
  <2>9. Steps(u, n, start, step) BY <2>7, <2>8 DEF Steps
  <2>10. n \in 0..m BY <1>2
  <2> QED BY <2>6, <2>9, <2>10
<1>3. m \in 0..m OBVIOUS
<1> HIDE DEF G
<1>4. \A n \in 0..m : n \in G BY <1>1, <1>2, UpTo
<1> QED BY <1>3, <1>4 DEF G

\* The map of a QMultiMap has a first entry: the earliest, and of those the last inserted.
LEMMA FirstExists ==
  ASSUME NEW W, EventsTyped(W), registered \in Nat, events # {}
  PROVE  First \in events /\ \A d \in events \ {First} : Before(First, d)
<1> USE DEF EventsTyped
<1>0. {e.due : e \in events} \in SUBSET Nat /\ {e.due : e \in events} # {}
  OBVIOUS
<1>1. PICK x \in {e.due : e \in events} : \A y \in {e.due : e \in events} : x <= y
  BY <1>0, LeastNumber
<1> DEFINE S == {e.no : e \in DueAt(events, x)}
<1>2. S \in SUBSET Nat /\ S # {} /\ \A n \in S : n <= registered
  BY <1>1 DEF DueAt
<1>3. PICK n \in S : \A m \in S : m <= n
  BY <1>2, GreatestNumber
<1>4. PICK e \in events : e.due = x /\ e.no = n
  BY <1>3 DEF DueAt
<1>5. ASSUME NEW d \in events \ {e} PROVE Before(e, d)
  <2>1. x <= d.due /\ d.due \in Nat /\ d.no \in Nat /\ d.no # n BY <1>1, <1>4
  <2>2. d.due = x => d.no <= n BY <1>3 DEF DueAt
  <2>3. x \in Nat /\ n \in Nat BY <1>4
  <2> QED BY <2>1, <2>2, <2>3, <1>4 DEF Before
<1>6. \E f \in events : \A d \in events \ {f} : Before(f, d)
  BY <1>4, <1>5
<1> QED BY <1>6 DEF First

\* Some timer is the next to fire.
LEMMA NextTimerExists ==
  ASSUME TimersTyped, timers # {}
  PROVE  NextTimer \in timers /\ \A s \in timers \ {NextTimer} : FiresBefore(NextTimer, s)
<1> USE DEF TimersTyped
<1>0. {t.at : t \in timers} \in SUBSET Nat /\ {t.at : t \in timers} # {}
  OBVIOUS
<1>1. PICK x \in {t.at : t \in timers} : \A y \in {t.at : t \in timers} : x <= y
  BY <1>0, LeastNumber
<1> DEFINE S == {t.no : t \in SetFor(timers, x)}
<1>2. S \in SUBSET Nat /\ S # {}
  BY <1>1 DEF SetFor
<1>3. PICK n \in S : \A m \in S : n <= m
  BY <1>2, LeastNumber
<1>4. PICK t \in timers : t.at = x /\ t.no = n
  BY <1>3 DEF SetFor
<1>5. ASSUME NEW s \in timers \ {t} PROVE FiresBefore(t, s)
  <2>1. x <= s.at /\ s.at \in Nat /\ s.no \in Nat /\ s.no # n BY <1>1, <1>4
  <2>2. s.at = x => n <= s.no BY <1>3 DEF SetFor
  <2>3. x \in Nat /\ n \in Nat BY <1>4
  <2> QED BY <2>1, <2>2, <2>3, <1>4 DEF FiresBefore
<1>6. \E u \in timers : \A s \in timers \ {u} : FiresBefore(u, s)
  BY <1>4, <1>5
<1> QED BY <1>6 DEF NextTimer

\* There is a timer while there is an event.
LEMMA EventHasTimer ==
  ASSUME NEW W, SchedulerInv(W)
  PROVE  timers # {} <=> events # {}
BY FS_EmptySet, FS_CardinalityType DEF SchedulerInv, EventsTyped, TimersTyped, TimersMatchEvents, Matching

\* In a realtime map the next timer is set for the time when the first event is due.
LEMMA TimerForFirst ==
  ASSUME NEW W, SchedulerInv(W), realtime, events # {}
  PROVE  NextTimer.at = First.due
<1> USE DEF SchedulerInv
<1>1. First \in events /\ \A d \in events \ {First} : Before(First, d)
  BY FirstExists
<1>2. NextTimer \in timers /\ \A s \in timers \ {NextTimer} : FiresBefore(NextTimer, s)
  BY NextTimerExists, EventHasTimer
<1>3. /\ First.due \in Nat /\ First.no \in Nat /\ NextTimer.at \in Nat /\ NextTimer.no \in Nat
      /\ \A e \in events : e.due \in Nat /\ First.due <= e.due
      /\ \A t \in timers : t.at \in Nat /\ NextTimer.at <= t.at
  BY <1>1, <1>2 DEF EventsTyped, TimersTyped, Before, FiresBefore
<1>4. \A x \in Nat : IsFiniteSet(SetFor(timers, x)) /\ IsFiniteSet(DueAt(events, x))
  BY FS_Subset DEF EventsTyped, TimersTyped, SetFor, DueAt
<1>5. \A x \in Nat : SetFor(timers, x) = {} <=> DueAt(events, x) = {}
  BY <1>4, FS_EmptySet, FS_CardinalityType DEF TimersMatchEvents, Matching
<1>6. \E t \in timers : t.at = First.due
  BY <1>1, <1>3, <1>5 DEF SetFor, DueAt
<1>7. \E e \in events : e.due = NextTimer.at
  BY <1>2, <1>3, <1>5 DEF SetFor, DueAt
<1> QED BY <1>3, <1>6, <1>7

\* No event is delivered before it is due: a handler's clock is at or after that time.
LEMMA NotEarly ==
  ASSUME NEW W, SchedulerInv(W), TimerExpired
  PROVE  First.due <= HandlerClock /\ HandlerClock \in Nat /\ First \in events
<1>1. events # {} BY EventHasTimer DEF TimerExpired
<1>2. First \in events BY <1>1, FirstExists DEF SchedulerInv
<1>3. realtime => NextTimer.at = First.due BY <1>1, TimerForFirst
<1>4. First.due \in Nat BY <1>2 DEF SchedulerInv, EventsTyped
<1> QED BY <1>1, <1>2, <1>3, <1>4 DEF TimerExpired, HandlerClock, SchedulerInv
-----------------------------------------------------------------------------
\* A set whose members are numbered one to one has as many members as there are numbers.
LEMMA NumberedSet ==
  ASSUME NEW J, IsFiniteSet(J), NEW S, NEW f \in [J -> S],
         \A i, j \in J : f[i] = f[j] => i = j, \A s \in S : \E j \in J : f[j] = s
  PROVE  IsFiniteSet(S) /\ Cardinality(S) = Cardinality(J)
<1>1. f \in Bijection(J, S)
  BY DEF Bijection, Injection, IsInjective, Surjection
<1> QED BY <1>1, FS_Bijection DEF ExistsBijection

\* New events and the new timers, none of them there before, match again.
LEMMA AddMatching ==
  ASSUME NEW inTime \in BOOLEAN,
         NEW E, NEW T, IsFiniteSet(E), IsFiniteSet(T), Matching(inTime, E, T),
         NEW F, NEW U, IsFiniteSet(F), IsFiniteSet(U), Matching(inTime, F, U),
         E \cap F = {}, T \cap U = {}
  PROVE  Matching(inTime, E \cup F, T \cup U)
<1>1. ASSUME NEW A, NEW B, IsFiniteSet(A), IsFiniteSet(B), A \cap B = {}
      PROVE  Cardinality(A \cup B) = Cardinality(A) + Cardinality(B)
  <2>1. Cardinality(A \cup B) = Cardinality(A) + Cardinality(B) - Cardinality(A \cap B)
    BY <1>1, FS_Union
  <2>2. Cardinality(A \cap B) = 0 BY <1>1, FS_EmptySet
  <2>3. Cardinality(A) \in Nat /\ Cardinality(B) \in Nat BY <1>1, FS_CardinalityType
  <2> QED BY <2>1, <2>2, <2>3
<1>2. Cardinality(T \cup U) = Cardinality(E \cup F)
  BY <1>1 DEF Matching
<1>3. ASSUME inTime, NEW x \in Nat
      PROVE  Cardinality(SetFor(T \cup U, x)) = Cardinality(DueAt(E \cup F, x))
  <2>1. /\ SetFor(T \cup U, x) = SetFor(T, x) \cup SetFor(U, x)
        /\ DueAt(E \cup F, x) = DueAt(E, x) \cup DueAt(F, x)
    BY DEF SetFor, DueAt
  <2>2. /\ SetFor(T, x) \cap SetFor(U, x) = {} /\ DueAt(E, x) \cap DueAt(F, x) = {}
        /\ IsFiniteSet(SetFor(T, x)) /\ IsFiniteSet(SetFor(U, x))
        /\ IsFiniteSet(DueAt(E, x)) /\ IsFiniteSet(DueAt(F, x))
    BY FS_Subset DEF SetFor, DueAt
  <2>3. /\ Cardinality(SetFor(T \cup U, x)) = Cardinality(SetFor(T, x)) + Cardinality(SetFor(U, x))
        /\ Cardinality(DueAt(E \cup F, x)) = Cardinality(DueAt(E, x)) + Cardinality(DueAt(F, x))
    BY <1>1, <2>1, <2>2
  <2> QED BY <1>3, <2>3 DEF Matching
<1> QED BY <1>2, <1>3 DEF Matching

\* An event is erased and a timer has fired, at its time if that matters.
LEMMA RemoveMatching ==
  ASSUME NEW inTime \in BOOLEAN,
         NEW E, NEW T, IsFiniteSet(E), IsFiniteSet(T), Matching(inTime, E, T),
         NEW e \in E, NEW t \in T, inTime => e.due = t.at
  PROVE  Matching(inTime, E \ {e}, T \ {t})
<1>1. Cardinality(T \ {t}) = Cardinality(E \ {e})
  BY FS_RemoveElement DEF Matching
<1>2. ASSUME inTime, NEW x \in Nat
      PROVE  Cardinality(SetFor(T \ {t}, x)) = Cardinality(DueAt(E \ {e}, x))
  <2>1. IsFiniteSet(SetFor(T, x)) /\ IsFiniteSet(DueAt(E, x))
    BY FS_Subset DEF SetFor, DueAt
  <2>2. /\ SetFor(T \ {t}, x) = SetFor(T, x) \ {t}
        /\ DueAt(E \ {e}, x) = DueAt(E, x) \ {e}
        /\ t \in SetFor(T, x) <=> e \in DueAt(E, x)
    BY <1>2 DEF SetFor, DueAt
  <2>3. Cardinality(SetFor(T, x)) = Cardinality(DueAt(E, x)) BY <1>2 DEF Matching
  <2>4. /\ Cardinality(SetFor(T, x) \ {t})
             = IF t \in SetFor(T, x) THEN Cardinality(SetFor(T, x)) - 1 ELSE Cardinality(SetFor(T, x))
        /\ Cardinality(DueAt(E, x) \ {e})
             = IF e \in DueAt(E, x) THEN Cardinality(DueAt(E, x)) - 1 ELSE Cardinality(DueAt(E, x))
    BY <2>1, FS_RemoveElement
  <2> HIDE DEF SetFor, DueAt
  <2> QED BY <2>2, <2>3, <2>4
<1> QED BY <1>1, <1>2 DEF Matching

\* What a sequence over R is: its length, its places and the elements at them.
LEMMA ElementsOfSeq ==
  ASSUME NEW R, NEW s \in Seq(R)
  PROVE  Len(s) \in Nat /\ DOMAIN s = 1 .. Len(s) /\ \A k \in DOMAIN s : s[k] \in R
OBVIOUS

\* What a handler that starts at the time "from" registers.
NewTyped(W, from, E, T) ==
  /\ IsFiniteSet(E) /\ IsFiniteSet(T)
  /\ E \in SUBSET [due : Nat, no : Nat, who : W] /\ T \in SUBSET [at : Nat, no : Nat]
  /\ \A e \in E : from <= e.due
  /\ \A d, e \in E : d.no = e.no => d = e
  /\ \A s, t \in T : s.no = t.no => s = t
  /\ Matching(realtime, E, T)

\* The events and timers that a registration adds are typed and carry new numbers.
LEMMA NewMatching ==
  ASSUME NEW W, NEW from \in Nat, NEW lag \in Nat, NEW requests \in RequestsOf(W),
         realtime \in BOOLEAN, registered \in Nat
  PROVE  /\ NewTyped(W, from, NewEvents(from, lag, requests), NewTimers(from, lag, requests))
         /\ \A e \in NewEvents(from, lag, requests) : e.no \in registered + 1 .. registered + Len(requests)
         /\ \A t \in NewTimers(from, lag, requests) : t.no \in registered + 1 .. registered + Len(requests)
<1> USE TicksAssumption DEF RequestsOf
<1> DEFINE J == {j \in DOMAIN requests : requests[j].wanted}
           E == NewEvents(from, lag, requests)
           T == NewTimers(from, lag, requests)
           D(k) == Due(from, lag, requests[k].ms)
           Event(k) == [due |-> D(k), no |-> registered + k, who |-> requests[k].who]
           Timer(k) == [at |-> IF realtime THEN D(k) ELSE 0, no |-> registered + k]
<1>1. /\ J \in SUBSET (1 .. Len(requests)) /\ Len(requests) \in Nat
      /\ \A k \in J : requests[k].who \in W /\ requests[k].ms \in Nat
  <2>1. /\ Len(requests) \in Nat /\ DOMAIN requests = 1 .. Len(requests)
        /\ \A k \in DOMAIN requests : requests[k] \in [who : W, ms : Nat, wanted : BOOLEAN]
    BY ElementsOfSeq
  <2> QED BY <2>1
<1>2. IsFiniteSet(J)
  BY <1>1, FS_Interval, FS_Subset
<1>3. \A k \in J : D(k) \in Nat /\ from <= D(k)
  <2> TAKE k \in J
  <2>1. requests[k].ms * TicksPerMs \in Nat BY <1>1
  <2> QED BY <2>1 DEF Due
<1>4. E = {Event(k) : k \in J} BY DEF NewEvents
<1>5. T = {Timer(k) : k \in J} BY DEF NewTimers
<1> HIDE DEF D, J, E, T
<1>6. \A k \in J : /\ Event(k) \in [due : Nat, no : Nat, who : W] /\ Timer(k) \in [at : Nat, no : Nat]
                   /\ registered + k \in registered + 1 .. registered + Len(requests)
  BY <1>1, <1>3
<1>7. \A i, j \in J : registered + i = registered + j => i = j
  BY <1>1
<1>8. IsFiniteSet(E) /\ Cardinality(E) = Cardinality(J)
  <2> DEFINE f == [k \in J |-> Event(k)]
  <2>1. f \in [J -> E] BY <1>4
  <2>2. \A i, j \in J : f[i] = f[j] => i = j BY <1>7
  <2>3. \A e \in E : \E j \in J : f[j] = e BY <1>4
  <2> QED BY <1>2, <2>1, <2>2, <2>3, NumberedSet
<1>9. IsFiniteSet(T) /\ Cardinality(T) = Cardinality(J)
  <2> DEFINE f == [k \in J |-> Timer(k)]
  <2>1. f \in [J -> T] BY <1>5
  <2>2. \A i, j \in J : f[i] = f[j] => i = j BY <1>7
  <2>3. \A e \in T : \E j \in J : f[j] = e BY <1>5
  <2> QED BY <1>2, <2>1, <2>2, <2>3, NumberedSet
<1>10. ASSUME realtime, NEW x \in Nat
       PROVE  Cardinality(SetFor(T, x)) = Cardinality(DueAt(E, x))
  <2> DEFINE K == {k \in J : D(k) = x}
             f == [k \in K |-> Event(k)]
             g == [k \in K |-> Timer(k)]
  <2>1. IsFiniteSet(K) BY <1>2, FS_Subset
  <2>2. f \in [K -> DueAt(E, x)] /\ \A e \in DueAt(E, x) : \E j \in K : f[j] = e
    BY <1>4 DEF DueAt
  <2>3. g \in [K -> SetFor(T, x)] /\ \A t \in SetFor(T, x) : \E j \in K : g[j] = t
    BY <1>5, <1>10 DEF SetFor
  <2>4. \A i, j \in K : (f[i] = f[j] \/ g[i] = g[j]) => i = j
    BY <1>7
  <2>5. Cardinality(DueAt(E, x)) = Cardinality(K) BY <2>1, <2>2, <2>4, NumberedSet
  <2>6. Cardinality(SetFor(T, x)) = Cardinality(K) BY <2>1, <2>3, <2>4, NumberedSet
  <2> QED BY <2>5, <2>6
<1>11. Matching(realtime, E, T) BY <1>8, <1>9, <1>10 DEF Matching
<1>12. E \in SUBSET [due : Nat, no : Nat, who : W] /\ T \in SUBSET [at : Nat, no : Nat]
  BY <1>4, <1>5, <1>6
<1>13. /\ \A e \in E : from <= e.due
       /\ \A d, e \in E : d.no = e.no => d = e
       /\ \A s, t \in T : s.no = t.no => s = t
  BY <1>3, <1>4, <1>5, <1>7
<1>14. /\ \A e \in E : e.no \in registered + 1 .. registered + Len(requests)
       /\ \A t \in T : t.no \in registered + 1 .. registered + Len(requests)
  BY <1>4, <1>5, <1>6
<1>15. NewTyped(W, from, E, T) BY <1>8, <1>9, <1>11, <1>12, <1>13 DEF NewTyped
<1> QED BY <1>14, <1>15 DEF E, T

\* Most handlers register one event, or none.
LEMMA OneRequest ==
  ASSUME NEW W, NEW w \in W, NEW ms \in Nat, NEW b \in BOOLEAN
  PROVE  <<[who |-> w, ms |-> ms, wanted |-> b]>> \in RequestsOf(W)
<1> DEFINE R == [who : W, ms : Nat, wanted : BOOLEAN]
           r == [who |-> w, ms |-> ms, wanted |-> b]
<1>1. r \in R OBVIOUS
<1> HIDE DEF R, r
<1>2. <<r>> \in Seq(R) BY <1>1
<1> QED BY <1>2 DEF RequestsOf, R, r

\* To register nothing is a list of requests, too.
LEMMA NoRequest == ASSUME NEW W PROVE << >> \in RequestsOf(W)
BY DEF RequestsOf

\* A step that registers nothing adds no event.
LEMMA NoNewEvent == ASSUME NEW from, NEW lag PROVE NewEvents(from, lag, << >>) = {}
BY DEF NewEvents

\* A call from outside a handler keeps all this.
LEMMA RegisterKeeps ==
  ASSUME NEW W, SchedulerInv(W), NEW lag \in Nat, NEW requests \in RequestsOf(W),
         Register(lag, requests)
  PROVE  SchedulerInv(W)'
<1> DEFINE E == NewEvents(clock, lag, requests)
           T == NewTimers(clock, lag, requests)
<1> USE DEF SchedulerInv
<1>1. /\ NewTyped(W, clock, E, T)
      /\ \A e \in E : e.no \in registered + 1 .. registered + Len(requests)
      /\ \A t \in T : t.no \in registered + 1 .. registered + Len(requests)
  BY NewMatching
<1>2. Len(requests) \in Nat BY ElementsOfSeq DEF RequestsOf
<1>3. /\ events' = events \cup E /\ timers' = timers \cup T
      /\ clock' = clock + lag /\ registered' = registered + Len(requests) /\ realtime' = realtime
  BY DEF Register
<1> HIDE DEF E, T
<1>4. events \cap E = {} /\ timers \cap T = {}
  BY <1>1, <1>2 DEF EventsTyped, TimersTyped
<1>5. EventsTyped(W)'
  <2>1. IsFiniteSet(events') BY <1>1, <1>3, FS_Union DEF EventsTyped, NewTyped
  <2> QED BY <2>1, <1>1, <1>2, <1>3 DEF EventsTyped, NewTyped
<1>6. TimersTyped'
  <2>1. IsFiniteSet(timers') BY <1>1, <1>3, FS_Union DEF TimersTyped, NewTyped
  <2> QED BY <2>1, <1>1, <1>2, <1>3 DEF TimersTyped, NewTyped
<1>7. Matching(realtime, events \cup E, timers \cup T)
  BY <1>1, <1>4, AddMatching DEF EventsTyped, TimersTyped, TimersMatchEvents, NewTyped
<1> QED BY <1>2, <1>3, <1>5, <1>6, <1>7 DEF TimersMatchEvents

\* And so does the delivery of the first event, with what its handler registers.
LEMMA ProcessNextKeeps ==
  ASSUME NEW W, SchedulerInv(W), NEW lag \in Nat, NEW requests \in RequestsOf(W),
         ProcessNext(lag, requests)
  PROVE  SchedulerInv(W)'
<1> DEFINE E == NewEvents(HandlerClock, lag, requests)
           T == NewTimers(HandlerClock, lag, requests)
<1>0. TimerExpired /\ events # {} /\ timers # {} BY DEF ProcessNext, TimerExpired
<1>a. HandlerClock \in Nat /\ First \in events BY <1>0, NotEarly
<1>b. NextTimer \in timers BY <1>0, NextTimerExists DEF SchedulerInv
<1>c. realtime => First.due = NextTimer.at BY <1>0, TimerForFirst
<1> USE DEF SchedulerInv
<1>1. /\ NewTyped(W, HandlerClock, E, T)
      /\ \A e \in E : e.no \in registered + 1 .. registered + Len(requests)
      /\ \A t \in T : t.no \in registered + 1 .. registered + Len(requests)
  BY <1>a, NewMatching
<1>2. Len(requests) \in Nat BY ElementsOfSeq DEF RequestsOf
<1>3. /\ events' = (events \cup E) \ {First} /\ timers' = (timers \ {NextTimer}) \cup T
      /\ clock' = HandlerClock + lag /\ registered' = registered + Len(requests)
      /\ realtime' = realtime
  BY DEF ProcessNext
<1> HIDE DEF E, T
<1>4. events \cap E = {} /\ timers \cap T = {}
  BY <1>1, <1>2 DEF EventsTyped, TimersTyped
<1>5. IsFiniteSet(events \cup E) /\ IsFiniteSet(timers \cup T)
  BY <1>1, FS_Union DEF EventsTyped, TimersTyped, NewTyped
<1>6. EventsTyped(W)'
  <2>1. IsFiniteSet(events') BY <1>3, <1>5, FS_RemoveElement
  <2> QED BY <2>1, <1>1, <1>2, <1>3 DEF EventsTyped, NewTyped
<1>7. timers' = (timers \cup T) \ {NextTimer}
  BY <1>b, <1>3, <1>4
<1>8. TimersTyped'
  <2>1. IsFiniteSet(timers') BY <1>5, <1>7, FS_RemoveElement
  <2> QED BY <2>1, <1>1, <1>2, <1>3 DEF TimersTyped, NewTyped
<1>9. Matching(realtime, events \cup E, timers \cup T)
  BY <1>1, <1>4, AddMatching DEF EventsTyped, TimersTyped, TimersMatchEvents, NewTyped
<1>10. Matching(realtime, events', timers')
  <2>1. Matching(realtime, (events \cup E) \ {First}, (timers \cup T) \ {NextTimer})
    BY <1>5, <1>9, <1>a, <1>b, <1>c, RemoveMatching
  <2> QED BY <2>1, <1>3, <1>7
<1> QED BY <1>2, <1>3, <1>6, <1>8, <1>10, <1>a DEF TimersMatchEvents

\* And the time that passes.
LEMMA TickKeeps ==
  ASSUME NEW W, SchedulerInv(W), Tick
  PROVE  SchedulerInv(W)'
<1>1. UNCHANGED <<realtime, events, timers, registered>> /\ clock' = clock + 1
  BY DEF Tick
<1>2. clock' \in Nat BY <1>1 DEF SchedulerInv
<1>3. EventsTyped(W)' /\ TimersTyped' /\ TimersMatchEvents'
  BY <1>1 DEF SchedulerInv, EventsTyped, TimersTyped, TimersMatchEvents
<1> QED BY <1>1, <1>2, <1>3 DEF SchedulerInv

\* A step that leaves the scheduler alone keeps its invariant.
LEMMA IdleKeeps ==
  ASSUME NEW W, SchedulerInv(W), UNCHANGED schedulerVars
  PROVE  SchedulerInv(W)'
BY DEF SchedulerInv, schedulerVars, EventsTyped, TimersTyped, TimersMatchEvents

\* The milli-seconds and lags of the code are never negative.
LEMMA LagsAreNumbers == realtime \in BOOLEAN => Lags \subseteq Nat
BY TicksAssumption DEF Lags

\* A map starts without events.
LEMMA SchedulerStarts ==
  ASSUME NEW W, SchedulerInit
  PROVE  SchedulerInv(W)
<1>1. /\ realtime \in BOOLEAN /\ clock = 0 /\ events = {} /\ timers = {} /\ registered = 0
      /\ IsFiniteSet(events) /\ IsFiniteSet(timers)
  BY FS_EmptySet DEF SchedulerInit
<1>2. \A x \in Nat : SetFor(timers, x) = {} /\ DueAt(events, x) = {}
  BY <1>1 DEF SetFor, DueAt
<1> QED BY <1>1, <1>2 DEF SchedulerInv, EventsTyped, TimersTyped, TimersMatchEvents, Matching

\* The first event of a map is registered as its machine is constructed.
LEMMA OneEventMatches ==
  ASSUME NEW W, NEW w \in W, NEW d \in Nat, realtime \in BOOLEAN, clock = 0,
         events = {[due |-> d, no |-> 1, who |-> w]},
         timers = {[at |-> IF realtime THEN d ELSE 0, no |-> 1]}, registered = 1
  PROVE  SchedulerInv(W)
<1>1. IsFiniteSet(events) /\ IsFiniteSet(timers) /\ Cardinality(events) = 1 /\ Cardinality(timers) = 1
  BY FS_Singleton
<1>2. ASSUME realtime, NEW x \in Nat
      PROVE  Cardinality(SetFor(timers, x)) = Cardinality(DueAt(events, x))
  <2>1. CASE x = d
    <3>1. SetFor(timers, x) = timers /\ DueAt(events, x) = events
      BY <1>2, <2>1 DEF SetFor, DueAt
    <3> QED BY <1>1, <3>1
  <2>2. CASE x # d
    <3>1. SetFor(timers, x) = {} /\ DueAt(events, x) = {}
      BY <1>2, <2>2 DEF SetFor, DueAt
    <3> QED BY <3>1
  <2> QED BY <2>1, <2>2
<1> QED BY <1>1, <1>2 DEF SchedulerInv, EventsTyped, TimersTyped, TimersMatchEvents, Matching
-----------------------------------------------------------------------------
(* Clock ticks and milli-seconds. *)

\* Products with the ticks of a milli-second
LEMMA TicksGrow ==
  ASSUME NEW a \in Nat, NEW b \in Nat, a <= b
  PROVE  a * TicksPerMs <= b * TicksPerMs /\ a * TicksPerMs \in Nat
<1> DEFINE T == TicksPerMs
<1>1. T \in Nat BY TicksAssumption
<1> HIDE DEF T
<1>2. b = a + (b - a) /\ b - a \in Nat OBVIOUS
<1>3. (b - a) * T \in Nat /\ a * T \in Nat BY <1>1, <1>2
<1>4. b * T = a * T + (b - a) * T BY <1>1, <1>2
<1> QED BY <1>3, <1>4 DEF T

\* Two times that are the same in ticks are the same in milli-seconds.
LEMMA TicksEqual ==
  ASSUME NEW a \in Nat, NEW b \in Nat, a * TicksPerMs = b * TicksPerMs
  PROVE  a = b
<1> DEFINE T == TicksPerMs
<1>1. T \in Nat \ {0} BY TicksAssumption
<1> HIDE DEF T
<1>2. \A x \in Nat \ {0} : x * T > 0 BY <1>1
<1>3. \A x, y \in Nat : x < y => x * T < y * T
  <2> TAKE x, y \in Nat
  <2> HAVE x < y
  <2>1. y - x \in Nat \ {0} OBVIOUS
  <2>2. (y - x) * T > 0 BY <1>2, <2>1
  <2>3. (y - x) * T = y * T - x * T BY <1>1
  <2> QED BY <1>1, <2>2, <2>3
<1>4. a * T = b * T BY DEF T
<1>5. a * T \in Nat /\ b * T \in Nat BY <1>1
<1>6. ~(a < b) /\ ~(b < a) BY <1>3, <1>4, <1>5
<1> QED BY <1>6

\* Whole milli-seconds
LEMMA MsBounds ==
  ASSUME NEW c \in Nat
  PROVE  c \div TicksPerMs \in Nat /\ (c \div TicksPerMs) * TicksPerMs <= c
BY TicksAssumption

\* A later tick never lies in an earlier milli-second.
LEMMA MsGrow ==
  ASSUME NEW c \in Nat, NEW d \in Nat, c <= d
  PROVE  c \div TicksPerMs <= d \div TicksPerMs
<1> DEFINE T == TicksPerMs
           a == c \div T
           b == d \div T
<1>1. T \in Nat \ {0} BY TicksAssumption
<1>2. a \in Nat /\ b \in Nat /\ a * T <= c /\ d < (b + 1) * T BY <1>1
<1> HIDE DEF a, b
<1>3. ASSUME b + 1 <= a PROVE FALSE
  <2>1. (b + 1) * T <= a * T BY <1>2, <1>3, TicksGrow
  <2>2. (b + 1) * T \in Nat /\ a * T \in Nat BY <1>1, <1>2
  <2> QED BY <1>2, <2>1, <2>2
<1>4. a <= b BY <1>2, <1>3
<1> QED BY <1>4 DEF a, b

\* From milli-seconds to ticks and back nothing is lost.
LEMMA MsExact ==
  ASSUME NEW n \in Nat
  PROVE  (n * TicksPerMs) \div TicksPerMs = n
BY TicksAssumption
=============================================================================
