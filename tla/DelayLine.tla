----------------------------- MODULE DelayLine ------------------------------
(***************************************************************************)
(* What the queues of a map promise together: every place has a line of    *)
(* things that wait, each with the time before which it may not go on.     *)
(* Things join a line at its end, with times in order, and leave it at its *)
(* front, and time never goes back.                                        *)
(***************************************************************************)
EXTENDS Naturals, Sequences

CONSTANT Place

VARIABLES
  line,   \* times of those who wait at a place, in order of arrival
  now

Ordered(s) == \A m, n \in DOMAIN s : m <= n => s[m] <= s[n]

Init == line = [p \in Place |-> <<>>] /\ now = 0

Stays(p) == line'[p] = line[p]

Joins(p) ==
  /\ line'[p] # <<>>
  /\ line[p] = SubSeq(line'[p], 1, Len(line'[p]) - 1)
  /\ Ordered(line'[p])

GoesOn(p) ==
  /\ line[p] # <<>>
  /\ line'[p] = Tail(line[p])
  /\ Head(line[p]) <= now'

Next ==
  /\ now <= now'
  /\ \A p \in Place : Stays(p) \/ Joins(p) \/ GoesOn(p)

Spec == Init /\ [][Next]_<<line, now>>
=============================================================================
