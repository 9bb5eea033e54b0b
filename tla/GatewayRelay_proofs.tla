------------------------ MODULE GatewayRelay_proofs ------------------------
(***************************************************************************)
(* Routers, gateways and the relay (GatewayRelay, RouteTable): whatever    *)
(* networks are advertised and taken back, the longest prefix decides and  *)
(* no rule outlives its gateway, the router outlives its gateways, and a   *)
(* frame of the relay goes once to every observer that is still there.     *)
(***************************************************************************)
EXTENDS GatewayRelay, SequenceTheorems, FiniteSetTheorems, NaturalsInduction, TLAPS

-----------------------------------------------------------------------------
(* Numbers and what is computed step by step. *)

\* A set of natural numbers that is not empty has a least element.
LEMMA SmallestNumber ==
  ASSUME NEW S \in SUBSET Nat, S # {}
  PROVE  /\ Min(S) \in S
         /\ \A m \in S : Min(S) <= m
<1>1. PICK n \in S : \A m \in S : ~(<<m, n>> \in OpToRel(<, Nat))
  BY NatLessThanWellFounded, WFMin
<1>2. ASSUME NEW m \in S, m < n PROVE FALSE
  <2>1. <<m, n>> \in Nat \X Nat /\ <<m, n>>[1] < <<m, n>>[2] BY <1>2
  <2>2. <<m, n>> \in OpToRel(<, Nat) BY <2>1 DEF OpToRel
  <2> QED BY <1>1, <2>2
<1>3. \A m \in S : n <= m BY <1>2
<1> QED BY <1>3 DEF Min

\* What holds of 0, and of every number up to m with the one before it, holds up to m.
LEMMA UpTo ==
  ASSUME NEW m \in Nat, NEW G, 0 \in G, \A n \in 1..m : n - 1 \in G => n \in G
  PROVE  \A n \in 0..m : n \in G
<1> DEFINE Bad == {n \in 0..m : n \notin G}
<1>1. CASE Bad = {} BY <1>1
<1>2. CASE Bad # {}
  <2>1. Bad \in SUBSET Nat OBVIOUS
  <2> HIDE DEF Bad
  <2>2. Min(Bad) \in Bad /\ \A k \in Bad : Min(Bad) <= k BY <1>2, <2>1, SmallestNumber
  <2> DEFINE n == Min(Bad)
  <2>3. n \in 0..m /\ n \notin G BY <2>2 DEF Bad
  <2> HIDE DEF n
  <2>4. n \in 1..m /\ n - 1 \in 0..m /\ n - 1 < n BY <2>3
  <2>5. n - 1 \notin Bad BY <2>2, <2>4 DEF n
  <2> QED BY <2>3, <2>4, <2>5 DEF Bad
<1> QED BY <1>1, <1>2

Steps(t, m, start, step) == t[0] = start /\ \A n \in 1..m : t[n] = step[<<n, t[n - 1]>>]

\* A computation of m steps has a history.
LEMMA History ==
  ASSUME NEW m \in Nat, NEW S, NEW start \in S, NEW step \in [(1..m) \X S -> S]
  PROVE  \E t \in [0..m -> S] : Steps(t, m, start, step)
<1> DEFINE G == {k \in 0..m : \E t \in [0..k -> S] : Steps(t, k, start, step)}
<1>1. 0 \in G
  <2> DEFINE z == [j \in 0..0 |-> start]
  <2>1. z \in [0..0 -> S] /\ Steps(z, 0, start, step) BY DEF Steps
  <2> QED BY <2>1
<1>2. ASSUME NEW n \in 1..m, n - 1 \in G PROVE n \in G
  <2>1. PICK t \in [0..n - 1 -> S] : Steps(t, n - 1, start, step) BY <1>2
  <2> DEFINE r == step[<<n, t[n - 1]>>]
             u == [j \in 0..n |-> IF j = n THEN r ELSE t[j]]
  <2>2. n - 1 \in 0..n - 1 /\ 0 \in 0..n - 1 /\ 0 # n BY <1>2
  <2>3. r \in S BY <2>1, <2>2
  <2>4. \A j \in 0..n : j = n \/ j \in 0..n - 1 BY <1>2
  <2>5. u[n] = r /\ \A j \in 0..n - 1 : u[j] = t[j] BY <1>2
  <2> HIDE DEF r
  <2>6. u \in [0..n -> S] BY <2>1, <2>3, <2>4
  <2> HIDE DEF u
  <2>7. u[0] = start BY <2>1, <2>2, <2>5 DEF Steps
  <2>8. ASSUME NEW j \in 1..n PROVE u[j] = step[<<j, u[j - 1]>>]
    <3>1. j - 1 \in 0..n - 1 BY <1>2
    <3>2. u[j - 1] = t[j - 1] BY <2>5, <3>1
    <3>3. CASE j = n BY <2>5, <3>2, <3>3 DEF r
    <3>4. CASE j # n
      <4>1. j \in 1..n - 1 /\ j \in 0..n - 1 BY <1>2, <3>4
      <4>2. t[j] = step[<<j, t[j - 1]>>] BY <2>1, <4>1 DEF Steps
      <4> QED BY <2>5, <3>2, <4>1, <4>2
    <3> QED BY <3>3, <3>4
  <2>9. Steps(u, n, start, step) BY <2>7, <2>8 DEF Steps
  <2>10. n \in 0..m BY <1>2
  <2> QED BY <2>6, <2>9, <2>10
<1>3. m \in 0..m OBVIOUS
<1> HIDE DEF G
<1>4. \A n \in 0..m : n \in G BY <1>1, <1>2, UpTo
<1> QED BY <1>3, <1>4 DEF G

\* A set of places that holds with a place all the places before it is counted by its end.
LEMMA FirstPlaces ==
  ASSUME NEW n \in Nat, NEW P \in SUBSET (1..n), \A k \in P : \A j \in 1..k : j \in P
  PROVE  Cardinality(P) \in 0..n /\ P = 1..Cardinality(P)
<1> DEFINE Out == {j \in 1..n + 1 : j \notin P}
<1>1. Out \in SUBSET Nat /\ Out # {}
  <2>1. n + 1 \in Out OBVIOUS
  <2> QED BY <2>1
<1> HIDE DEF Out
<1>2. Min(Out) \in Out /\ \A m \in Out : Min(Out) <= m BY <1>1, SmallestNumber
<1> DEFINE e == Min(Out) - 1
<1>3. e \in 0..n /\ e + 1 \notin P /\ \A m \in Out : e + 1 <= m BY <1>2 DEF Out
<1> HIDE DEF e
<1>4. \A j \in 1..e : j \in 1..n + 1 /\ ~(e + 1 <= j) BY <1>3
<1>5. \A j \in 1..e : j \in P BY <1>3, <1>4 DEF Out
<1>6. ASSUME NEW k \in P PROVE k \in 1..e
  <2>1. k \in 1..n OBVIOUS
  <2>2. CASE k <= e BY <2>1, <2>2
  <2>3. CASE ~(k <= e)
    <3>1. e + 1 \in 1..k BY <1>3, <2>1, <2>3
    <3> QED BY <1>3, <3>1
  <2> QED BY <2>2, <2>3
<1>7. P = 1..e BY <1>5, <1>6
<1>8. Cardinality(1..e) = e BY <1>3, FS_Interval
<1> QED BY <1>3, <1>7, <1>8
-----------------------------------------------------------------------------
(* One element put into a sequence, or taken out of it. *)

\* Inserting moves the later elements of a sequence up by one place.
LEMMA Inserted ==
  ASSUME NEW S, NEW s \in Seq(S), NEW i \in 1..Len(s) + 1, NEW e \in S
  PROVE  /\ InsertAt(s, i, e) \in Seq(S) /\ Len(InsertAt(s, i, e)) = Len(s) + 1
         /\ \A j \in 1..Len(s) + 1 :
              InsertAt(s, i, e)[j] = IF j < i THEN s[j] ELSE IF j = i THEN e ELSE s[j - 1]
<1> DEFINE m == Len(s)
           a == SubSeq(s, 1, i - 1)
           b == SubSeq(s, i, m)
           ab == a \o <<e>>
<1>1. m \in Nat /\ i \in 1..m + 1 /\ \A j \in 1..m : s[j] \in S OBVIOUS
<1>2. /\ a \in Seq(S) /\ Len(a) = i - 1 /\ \A j \in 1..i - 1 : a[j] = s[j]
  <2>1. 1 \in Int /\ i - 1 \in Int /\ \A j \in 1..i - 1 : s[j] \in S BY <1>1
  <2>2. /\ a \in Seq(S) /\ Len(a) = (IF 1 <= i - 1 THEN i - 1 - 1 + 1 ELSE 0)
        /\ \A j \in 1..i - 1 - 1 + 1 : a[j] = s[1 + j - 1]
    BY <2>1, SubSeqProperties
  <2> HIDE DEF a
  <2> QED BY <1>1, <2>2
<1>3. /\ b \in Seq(S) /\ Len(b) = m - i + 1 /\ \A j \in 1..m - i + 1 : b[j] = s[i + j - 1]
  <2>1. i \in Int /\ m \in Int /\ \A j \in i..m : s[j] \in S BY <1>1
  <2>2. /\ b \in Seq(S) /\ Len(b) = (IF i <= m THEN m - i + 1 ELSE 0)
        /\ \A j \in 1..m - i + 1 : b[j] = s[i + j - 1]
    BY <2>1, SubSeqProperties
  <2> HIDE DEF b
  <2> QED BY <1>1, <2>2
<1> HIDE DEF a, b, m
<1>4. /\ ab \in Seq(S) /\ Len(ab) = i
      /\ \A j \in 1..i : ab[j] = IF j < i THEN s[j] ELSE e
  <2>1. <<e>> \in Seq(S) /\ Len(<<e>>) = 1 /\ <<e>>[1] = e OBVIOUS
  <2>2. /\ ab \in Seq(S) /\ Len(ab) = Len(a) + 1
        /\ \A j \in 1..Len(a) + 1 : ab[j] = IF j <= Len(a) THEN a[j] ELSE <<e>>[j - Len(a)]
    BY <1>2, <2>1, ConcatProperties
  <2> HIDE DEF ab
  <2>3. \A j \in 1..i : j <= i - 1 \/ j - (i - 1) = 1 BY <1>1
  <2> QED BY <1>1, <1>2, <2>1, <2>2, <2>3
<1> HIDE DEF ab
<1>5. /\ ab \o b \in Seq(S) /\ Len(ab \o b) = i + (m - i + 1)
      /\ \A j \in 1..i + (m - i + 1) : (ab \o b)[j] = IF j <= i THEN ab[j] ELSE b[j - i]
  <2>1. /\ ab \o b \in Seq(S) /\ Len(ab \o b) = Len(ab) + Len(b)
        /\ \A j \in 1..Len(ab) + Len(b) : (ab \o b)[j] = IF j <= Len(ab) THEN ab[j] ELSE b[j - Len(ab)]
    <3>1. ab \in Seq(S) /\ b \in Seq(S) BY <1>3, <1>4
    <3> QED BY <3>1, ConcatProperties
  <2> QED BY <1>3, <1>4, <2>1
<1> DEFINE r == ab \o b
<1>6. InsertAt(s, i, e) = r BY DEF InsertAt, a, b, ab, m
<1> HIDE DEF r
<1>7. ASSUME NEW j \in 1..m + 1
      PROVE  r[j] = IF j < i THEN s[j] ELSE IF j = i THEN e ELSE s[j - 1]
  <2>1. j \in 1..i + (m - i + 1) BY <1>1
  <2>2. CASE j <= i
    <3>1. j \in 1..i BY <1>1, <2>2
    <3> QED BY <1>1, <1>4, <1>5, <2>1, <2>2, <3>1 DEF r
  <2>3. CASE ~(j <= i)
    <3>1. j - i \in 1..m - i + 1 /\ i + (j - i) - 1 = j - 1 /\ ~(j < i) /\ j # i BY <1>1, <2>3
    <3> QED BY <1>3, <1>5, <2>1, <2>3, <3>1 DEF r
  <2> QED BY <2>2, <2>3
<1>8. r \in Seq(S) /\ Len(r) = m + 1 BY <1>1, <1>5 DEF r
<1> QED BY <1>6, <1>7, <1>8 DEF m

\* Removing moves the later elements of a sequence down by one place.
LEMMA Dropped ==
  ASSUME NEW S, NEW s \in Seq(S), NEW i \in 1..Len(s)
  PROVE  /\ RemoveAt(s, i) \in Seq(S) /\ Len(RemoveAt(s, i)) = Len(s) - 1
         /\ \A j \in 1..Len(s) - 1 : RemoveAt(s, i)[j] = IF j < i THEN s[j] ELSE s[j + 1]
<1> DEFINE m == Len(s)
           a == SubSeq(s, 1, i - 1)
           b == SubSeq(s, i + 1, m)
<1>1. m \in Nat /\ i \in 1..m /\ \A j \in 1..m : s[j] \in S OBVIOUS
<1>2. /\ a \in Seq(S) /\ Len(a) = i - 1 /\ \A j \in 1..i - 1 : a[j] = s[j]
  <2>1. 1 \in Int /\ i - 1 \in Int /\ \A j \in 1..i - 1 : s[j] \in S BY <1>1
  <2>2. /\ a \in Seq(S) /\ Len(a) = (IF 1 <= i - 1 THEN i - 1 - 1 + 1 ELSE 0)
        /\ \A j \in 1..i - 1 - 1 + 1 : a[j] = s[1 + j - 1]
    BY <2>1, SubSeqProperties
  <2> HIDE DEF a
  <2> QED BY <1>1, <2>2
<1>3. /\ b \in Seq(S) /\ Len(b) = m - i /\ \A j \in 1..m - i : b[j] = s[i + j]
  <2>1. i + 1 \in Int /\ m \in Int /\ \A j \in i + 1..m : s[j] \in S BY <1>1
  <2>2. /\ b \in Seq(S) /\ Len(b) = (IF i + 1 <= m THEN m - (i + 1) + 1 ELSE 0)
        /\ \A j \in 1..m - (i + 1) + 1 : b[j] = s[(i + 1) + j - 1]
    BY <2>1, SubSeqProperties
  <2> HIDE DEF b
  <2>3. \A j \in 1..m - i : j \in 1..m - (i + 1) + 1 /\ (i + 1) + j - 1 = i + j BY <1>1
  <2> QED BY <1>1, <2>2, <2>3
<1> HIDE DEF a, b, m
<1> DEFINE r == a \o b
<1>4. /\ r \in Seq(S) /\ Len(r) = (i - 1) + (m - i)
      /\ \A j \in 1..(i - 1) + (m - i) : r[j] = IF j <= i - 1 THEN a[j] ELSE b[j - (i - 1)]
  <2>1. /\ r \in Seq(S) /\ Len(r) = Len(a) + Len(b)
        /\ \A j \in 1..Len(a) + Len(b) : r[j] = IF j <= Len(a) THEN a[j] ELSE b[j - Len(a)]
    <3>1. a \in Seq(S) /\ b \in Seq(S) BY <1>2, <1>3
    <3> QED BY <3>1, ConcatProperties
  <2> QED BY <1>2, <1>3, <2>1
<1>5. RemoveAt(s, i) = r BY DEF RemoveAt, a, b, m
<1> HIDE DEF r
<1>6. ASSUME NEW j \in 1..m - 1 PROVE r[j] = IF j < i THEN s[j] ELSE s[j + 1]
  <2>1. j \in 1..(i - 1) + (m - i) BY <1>1
  <2>2. CASE j < i
    <3>1. j \in 1..i - 1 /\ j <= i - 1 BY <1>1, <2>2
    <3> QED BY <1>2, <1>4, <2>1, <2>2, <3>1
  <2>3. CASE ~(j < i)
    <3>1. j - (i - 1) \in 1..m - i /\ i + (j - (i - 1)) = j + 1 /\ ~(j <= i - 1) BY <1>1, <2>3
    <3> QED BY <1>3, <1>4, <2>1, <2>3, <3>1
  <2> QED BY <2>2, <2>3
<1>7. Len(r) = m - 1 BY <1>1, <1>4
<1> QED BY <1>4, <1>5, <1>6, <1>7 DEF m

\* Removing the first e changes nothing when there is none, and else one place that holds it.
LEMMA FirstRemoved ==
  ASSUME NEW S, NEW s \in Seq(S), NEW e
  PROVE  \/ RemoveFirst(s, e) = s /\ \A k \in 1..Len(s) : s[k] # e
         \/ \E i \in 1..Len(s) : s[i] = e /\ RemoveFirst(s, e) = RemoveAt(s, i)
<1> DEFINE I == {i \in 1..Len(s) : s[i] = e}
<1>1. CASE I = {} BY <1>1 DEF RemoveFirst
<1>2. CASE I # {}
  <2>1. I \in SUBSET Nat OBVIOUS
  <2>2. Min(I) \in I BY <1>2, <2>1, SmallestNumber
  <2>3. SelectInSeq(s, LAMBDA v : v = e) = Min(I) BY <1>2 DEF SelectInSeq
  <2>4. RemoveFirst(s, e) = RemoveAt(s, Min(I)) BY <1>2, <2>3 DEF RemoveFirst
  <2> QED BY <2>2, <2>4
<1> QED BY <1>1, <1>2
-----------------------------------------------------------------------------
(* Tables: sorted by prefix; a rule of a gateway stands in one place. *)

OwnedRule ==
  [owner : Gateway, place : Nat, network : Address, netbits : 0..Width, nexthop : Address, ifIndex : Int]

TableRule == RoutingRule \cup OwnedRule

Sorted(t) == \A j, k \in DOMAIN t : j <= k => t[j].netbits >= t[k].netbits

Tables == {t \in Seq(TableRule) : Sorted(t)}

\* Equal rules of the configuration may be repeated.
OwnedOnce(t) == \A j, k \in DOMAIN t : t[j] = t[k] /\ t[j] \in OwnedRule => j = k

\* A rule's network bits are a number.
LEMMA BitsTyped == \A r \in TableRule : r.netbits \in Nat
BY WidthAssumption DEF TableRule, OwnedRule, RoutingRule

\* A rule that the node has from its map belongs to no gateway.
LEMMA NotOwned == \A r \in RoutingRule : r \notin OwnedRule
<1> SUFFICES ASSUME NEW r \in RoutingRule, r \in OwnedRule PROVE FALSE
  OBVIOUS
<1>1. DOMAIN r = {"network", "netbits", "nexthop", "ifIndex"} BY DEF RoutingRule
<1>2. "owner" \in DOMAIN r BY DEF OwnedRule
<1> QED BY <1>1, <1>2

\* Where a rule goes: behind the longer prefixes, before all others.
LEMMA WhereItGoes ==
  ASSUME NEW t \in Tables, NEW r \in TableRule
  PROVE  \E i \in 1..Len(t) + 1 :
           /\ WithRule(t, r) = InsertAt(t, i, r)
           /\ \A k \in 1..i - 1 : t[k].netbits > r.netbits
           /\ \A k \in i..Len(t) : t[k].netbits <= r.netbits
<1> DEFINE P == {k \in DOMAIN t : t[k].netbits > r.netbits}
           i == 1 + Cardinality(P)
<1>1. /\ Len(t) \in Nat /\ DOMAIN t = 1..Len(t) /\ Sorted(t) /\ r.netbits \in Nat
      /\ \A k \in 1..Len(t) : t[k].netbits \in Nat
  <2>1. \A k \in 1..Len(t) : t[k] \in TableRule BY DEF Tables
  <2> QED BY <2>1, BitsTyped DEF Tables
<1>2. P \in SUBSET (1..Len(t)) BY <1>1
<1>3. ASSUME NEW k \in P, NEW j \in 1..k PROVE j \in P
  <2>1. k \in 1..Len(t) /\ j \in 1..Len(t) /\ j <= k BY <1>2
  <2>2. t[j].netbits >= t[k].netbits BY <1>1, <2>1 DEF Sorted
  <2>3. t[k].netbits > r.netbits OBVIOUS
  <2> QED BY <1>1, <2>1, <2>2, <2>3
<1>4. Cardinality(P) \in 0..Len(t) /\ P = 1..Cardinality(P)
  <2> HIDE DEF P
  <2> QED BY <1>1, <1>2, <1>3, FirstPlaces
<1>5. WithRule(t, r) = InsertAt(t, i, r) BY DEF WithRule
<1> HIDE DEF P
<1>6. i \in 1..Len(t) + 1 /\ i - 1 = Cardinality(P) BY <1>1, <1>4
<1> HIDE DEF i
<1>7. ASSUME NEW k \in 1..i - 1 PROVE t[k].netbits > r.netbits
  <2>1. k \in P BY <1>4, <1>6
  <2> QED BY <2>1 DEF P
<1>8. ASSUME NEW k \in i..Len(t) PROVE t[k].netbits <= r.netbits
  <2>1. k \notin P /\ k \in 1..Len(t) BY <1>1, <1>4, <1>6
  <2>2. ~(t[k].netbits > r.netbits) BY <1>1, <2>1 DEF P
  <2> QED BY <1>1, <2>1, <2>2
<1> QED BY <1>5, <1>6, <1>7, <1>8
\* A rule that is put in its place adds itself to the table and nothing else.
LEMMA RuleAdded ==
  ASSUME NEW t \in Tables, NEW r \in TableRule
  PROVE  /\ WithRule(t, r) \in Tables
         /\ Range(WithRule(t, r)) = Range(t) \cup {r}
         /\ OwnedOnce(t) /\ (r \in OwnedRule => r \notin Range(t)) => OwnedOnce(WithRule(t, r))
<1>0. /\ t \in Seq(TableRule) /\ Len(t) \in Nat /\ DOMAIN t = 1..Len(t) /\ Sorted(t)
      /\ r.netbits \in Nat /\ \A k \in 1..Len(t) : t[k].netbits \in Nat
  <2>1. \A k \in 1..Len(t) : t[k] \in TableRule BY DEF Tables
  <2> QED BY <2>1, BitsTyped DEF Tables
<1>1. PICK i \in 1..Len(t) + 1 :
           /\ WithRule(t, r) = InsertAt(t, i, r)
           /\ \A k \in 1..i - 1 : t[k].netbits > r.netbits
           /\ \A k \in i..Len(t) : t[k].netbits <= r.netbits
  BY WhereItGoes
<1> DEFINE u == WithRule(t, r)
           m == Len(t)
<1>2. /\ u \in Seq(TableRule) /\ Len(u) = m + 1
      /\ \A j \in 1..m + 1 : u[j] = IF j < i THEN t[j] ELSE IF j = i THEN r ELSE t[j - 1]
  <2>1. /\ InsertAt(t, i, r) \in Seq(TableRule) /\ Len(InsertAt(t, i, r)) = Len(t) + 1
        /\ \A j \in 1..Len(t) + 1 :
              InsertAt(t, i, r)[j] = IF j < i THEN t[j] ELSE IF j = i THEN r ELSE t[j - 1]
    <3>1. t \in Seq(TableRule) /\ r \in TableRule /\ i \in 1..Len(t) + 1 BY <1>0, <1>1
    <3>2. InsertAt(t, i, r) \in Seq(TableRule) BY <3>1, Inserted
    <3>3. Len(InsertAt(t, i, r)) = Len(t) + 1 BY <3>1, Inserted
    <3>4. \A j \in 1..Len(t) + 1 :
              InsertAt(t, i, r)[j] = IF j < i THEN t[j] ELSE IF j = i THEN r ELSE t[j - 1]
      BY <3>1, Inserted
    <3> QED BY <3>2, <3>3, <3>4
  <2> QED BY <1>1, <2>1
<1>3. DOMAIN u = 1..m + 1 BY <1>2
<1> HIDE DEF u, m
\* Where the element of each place was before
<1> DEFINE old(j) == IF j < i THEN j ELSE j - 1
<1>4. \A j \in 1..m + 1 : j # i => old(j) \in 1..m /\ u[j] = t[old(j)]
  <2> TAKE j \in 1..m + 1
  <2>1. m \in Nat /\ i \in 1..m + 1 BY <1>0, <1>1 DEF m
  <2>2. CASE j < i
    <3>1. j \in 1..m BY <2>1, <2>2
    <3> QED BY <1>2, <2>1, <2>2, <3>1
  <2>3. CASE j > i
    <3>1. j - 1 \in 1..m /\ ~(j < i) /\ j # i BY <2>1, <2>3
    <3> QED BY <1>2, <2>1, <3>1
  <2> QED BY <2>1, <2>2, <2>3
<1>5. u[i] = r /\ i \in 1..m + 1
  <2>1. m \in Nat /\ i \in 1..m + 1 BY <1>0, <1>1 DEF m
  <2> QED BY <1>2, <2>1
<1>m. m \in Nat /\ i \in Nat BY <1>0, <1>5 DEF m
<1>6. Sorted(u)
  <2>1. ASSUME NEW j \in 1..m + 1, NEW k \in 1..m + 1, j <= k PROVE u[j].netbits >= u[k].netbits
    <3>1. CASE j = i /\ k = i BY <1>0, <1>5, <3>1
    <3>2. CASE j = i /\ k # i
      <4>1. old(k) \in i..m /\ old(k) \in 1..m BY <1>m, <1>5, <2>1, <3>2
      <4>2. t[old(k)].netbits <= r.netbits BY <1>1, <4>1 DEF m
      <4>3. u[k] = t[old(k)] BY <1>4, <3>2
      <4>4. t[old(k)].netbits \in Nat BY <1>0, <4>1 DEF m
      <4> HIDE DEF old
      <4> QED BY <1>0, <1>5, <3>2, <4>2, <4>3, <4>4
    <3>3. CASE j # i /\ k = i
      <4>1. old(j) \in 1..i - 1 /\ old(j) \in 1..m BY <1>m, <1>5, <2>1, <3>3
      <4>2. t[old(j)].netbits > r.netbits BY <1>1, <4>1
      <4>3. u[j] = t[old(j)] BY <1>4, <3>3
      <4>4. t[old(j)].netbits \in Nat BY <1>0, <4>1 DEF m
      <4> HIDE DEF old
      <4> QED BY <1>0, <1>5, <3>3, <4>2, <4>3, <4>4
    <3>4. CASE j # i /\ k # i
      <4>1. old(j) \in 1..m /\ old(k) \in 1..m /\ old(j) <= old(k) BY <1>m, <1>4, <2>1, <3>4
      <4>2. t[old(j)].netbits >= t[old(k)].netbits
        <5> HIDE DEF old
        <5> QED BY <1>0, <4>1 DEF Sorted, m
      <4>3. u[j] = t[old(j)] /\ u[k] = t[old(k)] BY <1>4, <3>4
      <4> QED BY <4>2, <4>3
    <3> QED BY <3>1, <3>2, <3>3, <3>4
  <2> QED BY <1>3, <2>1 DEF Sorted
\* and where it is now
<1> DEFINE new(k) == IF k < i THEN k ELSE k + 1
<1>7. \A k \in 1..m : new(k) \in 1..m + 1 /\ new(k) # i /\ old(new(k)) = k BY <1>m
<1>8. Range(u) = Range(t) \cup {r}
  <2>1. ASSUME NEW j \in 1..m + 1 PROVE u[j] \in Range(t) \cup {r}
    <3>1. CASE j = i BY <1>5, <3>1
    <3>2. CASE j # i
      <4>1. old(j) \in DOMAIN t /\ u[j] = t[old(j)] BY <1>0, <1>4, <3>2 DEF m
      <4> HIDE DEF old
      <4> QED BY <4>1 DEF Range
    <3> QED BY <3>1, <3>2
  <2>2. ASSUME NEW k \in 1..m PROVE t[k] \in Range(u)
    <3>1. new(k) \in 1..m + 1 /\ u[new(k)] = t[old(new(k))] /\ old(new(k)) = k BY <1>4, <1>7
    <3> HIDE DEF new, old
    <3> QED BY <1>3, <3>1 DEF Range
  <2>3. r \in Range(u) BY <1>3, <1>5 DEF Range
  <2> HIDE DEF old, new
  <2>4. Range(u) \subseteq Range(t) \cup {r} BY <1>3, <2>1 DEF Range
  <2>5. Range(t) \subseteq Range(u) BY <1>0, <2>2 DEF Range, m
  <2> QED BY <2>3, <2>4, <2>5
<1>9. ASSUME OwnedOnce(t), r \in OwnedRule => r \notin Range(t) PROVE OwnedOnce(u)
  <2>1. ASSUME NEW j \in 1..m + 1, NEW k \in 1..m + 1, u[j] = u[k], u[j] \in OwnedRule PROVE j = k
    <3>0. ASSUME NEW l \in 1..m + 1, l # i, u[l] = r, r \in OwnedRule PROVE FALSE
      <4>1. old(l) \in DOMAIN t /\ u[l] = t[old(l)] BY <1>0, <1>4, <3>0 DEF m
      <4> HIDE DEF old
      <4> QED BY <1>9, <3>0, <4>1 DEF Range
    <3>1. CASE j = i \/ k = i BY <1>5, <2>1, <3>0, <3>1
    <3>2. CASE j # i /\ k # i
      <4>1. old(j) \in 1..m /\ old(k) \in 1..m /\ u[j] = t[old(j)] /\ u[k] = t[old(k)] BY <1>4, <3>2
      <4>2. old(j) = old(k)
        <5> HIDE DEF old
        <5> QED BY <1>0, <1>9, <2>1, <4>1 DEF OwnedOnce, m
      <4> QED BY <1>m, <3>2, <4>2
    <3> QED BY <3>1, <3>2
  <2> QED BY <1>3, <2>1 DEF OwnedOnce
<1>10. u \in Tables BY <1>2, <1>6 DEF Tables
<1> QED BY <1>8, <1>9, <1>10 DEF u

\* Removing a rule that the table has once takes that rule away and nothing else.
LEMMA RuleRemoved ==
  ASSUME NEW t \in Tables, NEW r
  PROVE  /\ RemoveFirst(t, r) \in Tables
         /\ Range(RemoveFirst(t, r)) \subseteq Range(t)
         /\ OwnedOnce(t) /\ r \in OwnedRule
              => OwnedOnce(RemoveFirst(t, r)) /\ Range(RemoveFirst(t, r)) = Range(t) \ {r}
<1>0. t \in Seq(TableRule) /\ Len(t) \in Nat /\ DOMAIN t = 1..Len(t) /\ Sorted(t) BY DEF Tables
<1>1. CASE RemoveFirst(t, r) = t /\ \A k \in 1..Len(t) : t[k] # r
  <2>1. r \notin Range(t) BY <1>0, <1>1 DEF Range
  <2> QED BY <1>1, <2>1
<1>2. CASE \E i \in 1..Len(t) : t[i] = r /\ RemoveFirst(t, r) = RemoveAt(t, i)
  <2>1. PICK i \in 1..Len(t) : t[i] = r /\ RemoveFirst(t, r) = RemoveAt(t, i) BY <1>2
  <2> DEFINE u == RemoveFirst(t, r)
             m == Len(t)
             old(j) == IF j < i THEN j ELSE j + 1
             new(k) == IF k < i THEN k ELSE k - 1
  <2>2. /\ u \in Seq(TableRule) /\ Len(u) = m - 1
        /\ \A j \in 1..m - 1 : u[j] = IF j < i THEN t[j] ELSE t[j + 1]
    BY <1>0, <2>1, Dropped
  <2>3. m \in Nat /\ i \in 1..m /\ DOMAIN u = 1..m - 1 /\ DOMAIN t = 1..m BY <1>0, <2>1, <2>2
  <2> HIDE DEF u, m
  <2>4. \A j \in 1..m - 1 : old(j) \in 1..m /\ old(j) # i /\ u[j] = t[old(j)] BY <2>2, <2>3
  <2>5. \A k \in 1..m : k # i => new(k) \in 1..m - 1 /\ old(new(k)) = k BY <2>3
  <2>6. \A j, k \in 1..m - 1 : (j <= k => old(j) <= old(k)) /\ (old(j) = old(k) => j = k) BY <2>3
  <2> HIDE DEF old, new
  <2>7. Sorted(u) BY <1>0, <2>3, <2>4, <2>6 DEF Sorted
  <2>8. u \in Tables BY <2>2, <2>7 DEF Tables
  <2>9. Range(u) \subseteq Range(t) BY <2>3, <2>4 DEF Range
  <2>10. ASSUME OwnedOnce(t), r \in OwnedRule
         PROVE  OwnedOnce(u) /\ Range(u) = Range(t) \ {r}
    <3>1. OwnedOnce(u)
      <4>1. \A j, k \in 1..m - 1 : u[j] = u[k] /\ u[j] \in OwnedRule => old(j) = old(k)
        BY <2>3, <2>4, <2>10 DEF OwnedOnce
      <4> QED BY <2>3, <2>6, <4>1 DEF OwnedOnce
    <3>2. r \notin Range(u)
      <4>1. ASSUME NEW j \in 1..m - 1, u[j] = r PROVE FALSE
        <5>1. old(j) \in 1..m /\ t[old(j)] = r /\ old(j) # i BY <2>4, <4>1
        <5> QED BY <2>1, <2>3, <2>10, <5>1 DEF OwnedOnce
      <4> QED BY <2>3, <4>1 DEF Range
    <3>3. ASSUME NEW k \in 1..m, t[k] # r PROVE t[k] \in Range(u)
      <4>1. k # i BY <2>1, <3>3
      <4>2. new(k) \in 1..m - 1 /\ old(new(k)) = k BY <2>5, <4>1
      <4>3. u[new(k)] = t[k] BY <2>4, <4>2
      <4> QED BY <2>3, <4>2, <4>3 DEF Range
    <3>4. Range(t) \ {r} \subseteq Range(u) BY <2>3, <3>3 DEF Range
    <3> QED BY <2>9, <3>1, <3>2, <3>4
  <2> QED BY <2>8, <2>9, <2>10 DEF u
<1>3. t \in Seq(TableRule) BY <1>0
<1> QED BY <1>1, <1>2, <1>3, FirstRemoved
-----------------------------------------------------------------------------
(* Rules added, or taken back, one by one. *)

\* What recursion over a list of rules stands for.
AddsUp(t, rules, added) ==
  /\ DOMAIN added = 0..Len(rules) /\ added[0] = t
  /\ \A n \in 1..Len(rules) : added[n] = WithRule(added[n - 1], rules[n])

\* Adding a list of rules is adding them one after the other.
LEMMA AddedOneByOne ==
  ASSUME NEW t \in Tables, NEW rules \in Seq(TableRule)
  PROVE  \E added : AddsUp(t, rules, added) /\ WithRules(t, rules) = added[Len(rules)]
<1> DEFINE m == Len(rules)
           Def(f) == f = [n \in 0..m |-> IF n = 0 THEN t ELSE WithRule(f[n - 1], rules[n])]
           added == CHOOSE f : Def(f)
           step == [x \in (1..m) \X Tables |-> WithRule(x[2], rules[x[1]])]
<1>1. m \in Nat /\ \A n \in 1..m : rules[n] \in TableRule OBVIOUS
<1>2. WithRules(t, rules) = added[m] BY DEF WithRules
<1> HIDE DEF m
<1>3. step \in [(1..m) \X Tables -> Tables] BY <1>1, RuleAdded
<1>4. \A n \in 1..m, u \in Tables : step[<<n, u>>] = WithRule(u, rules[n]) OBVIOUS
<1> HIDE DEF step
<1>5. PICK h \in [0..m -> Tables] : Steps(h, m, t, step) BY <1>1, <1>3, History
<1>6. Def(h)
  <2>1. ASSUME NEW n \in 0..m PROVE h[n] = IF n = 0 THEN t ELSE WithRule(h[n - 1], rules[n])
    <3>1. CASE n = 0 BY <1>5, <3>1 DEF Steps
    <3>2. CASE n # 0
      <4>1. n \in 1..m /\ n - 1 \in 0..m BY <1>1, <3>2
      <4>2. h[n - 1] \in Tables BY <1>5, <4>1
      <4> QED BY <1>4, <1>5, <3>2, <4>1, <4>2 DEF Steps
    <3> QED BY <3>1, <3>2
  <2> QED BY <2>1
<1>7. Def(added) BY <1>6
<1> HIDE DEF added
<1>8. /\ DOMAIN added = 0..m
      /\ \A n \in 0..m : added[n] = IF n = 0 THEN t ELSE WithRule(added[n - 1], rules[n])
  BY <1>7
<1> HIDE DEF Def
<1>9. added[0] = t /\ \A n \in 1..m : added[n] = WithRule(added[n - 1], rules[n])
  <2>1. 0 \in 0..m /\ \A n \in 1..m : n \in 0..m /\ n # 0 BY <1>1
  <2> QED BY <1>8, <2>1
<1> QED BY <1>2, <1>8, <1>9 DEF AddsUp, m

\* Rules of gateways that are new, and different
Fresh(t, rules) ==
  /\ \A j, k \in DOMAIN rules : rules[j] = rules[k] /\ rules[j] \in OwnedRule => j = k
  /\ \A k \in DOMAIN rules : rules[k] \in OwnedRule => rules[k] \notin Range(t)

Firsts(rules, n) == {rules[k] : k \in 1..n}

\* Adding a list of new rules adds those, each of them once.
LEMMA RulesAdded ==
  ASSUME NEW t \in Tables, NEW rules \in Seq(TableRule)
  PROVE  /\ WithRules(t, rules) \in Tables
         /\ Range(WithRules(t, rules)) = Range(t) \cup Range(rules)
         /\ OwnedOnce(t) /\ Fresh(t, rules) => OwnedOnce(WithRules(t, rules))
<1> DEFINE m == Len(rules)
<1>1. m \in Nat /\ DOMAIN rules = 1..m /\ \A n \in 1..m : rules[n] \in TableRule OBVIOUS
<1>2. PICK a : AddsUp(t, rules, a) /\ WithRules(t, rules) = a[m] BY AddedOneByOne
<1> HIDE DEF m
<1>3. a[0] = t /\ \A n \in 1..m : a[n] = WithRule(a[n - 1], rules[n]) BY <1>2 DEF AddsUp, m
<1> DEFINE Good(n) == /\ a[n] \in Tables /\ Range(a[n]) = Range(t) \cup Firsts(rules, n)
                      /\ OwnedOnce(t) /\ Fresh(t, rules) => OwnedOnce(a[n])
           G == {n \in 0..m : Good(n)}
<1>4. 0 \in G
  <2>1. Firsts(rules, 0) = {} BY DEF Firsts
  <2> QED BY <1>1, <1>3, <2>1
<1>5. ASSUME NEW n \in 1..m, n - 1 \in G PROVE n \in G
  <2>1. Good(n - 1) BY <1>5
  <2>2. a[n] = WithRule(a[n - 1], rules[n]) /\ rules[n] \in TableRule BY <1>1, <1>3
  <2>3. a[n] \in Tables /\ Range(a[n]) = Range(a[n - 1]) \cup {rules[n]} BY <2>1, <2>2, RuleAdded
  <2>4. Firsts(rules, n) = Firsts(rules, n - 1) \cup {rules[n]}
    <3>1. 1..n = (1..n - 1) \cup {n} BY <1>5
    <3> QED BY <3>1 DEF Firsts
  <2>5. ASSUME OwnedOnce(t), Fresh(t, rules) PROVE OwnedOnce(a[n])
    <3>1. OwnedOnce(a[n - 1]) BY <2>1, <2>5
    <3>2. ASSUME rules[n] \in OwnedRule PROVE rules[n] \notin Range(a[n - 1])
      <4>1. rules[n] \notin Range(t) BY <1>1, <2>5, <3>2 DEF Fresh
      <4>2. \A k \in 1..n - 1 : k \in 1..m /\ k # n BY <1>1, <1>5
      <4>3. rules[n] \notin Firsts(rules, n - 1) BY <1>1, <2>5, <3>2, <4>2 DEF Fresh, Firsts
      <4> QED BY <2>1, <4>1, <4>3
    <3>3. a[n - 1] \in Tables BY <2>1
    <3> HIDE DEF G, Good
    <3> QED BY <2>2, <3>1, <3>2, <3>3, RuleAdded
  <2>6. n \in 0..m BY <1>5
  <2> QED BY <2>1, <2>3, <2>4, <2>5, <2>6
<1>6. m \in 0..m BY <1>1
<1> HIDE DEF G
<1>7. m \in G BY <1>1, <1>4, <1>5, <1>6, UpTo
<1>8. Firsts(rules, m) = Range(rules) BY <1>1 DEF Firsts, Range
<1> QED BY <1>2, <1>7, <1>8 DEF G

TakesAway(t, rules, left) ==
  /\ DOMAIN left = 0..Len(rules) /\ left[0] = t
  /\ \A n \in 1..Len(rules) : left[n] = RemoveFirst(left[n - 1], rules[n])

\* Removing a list of rules is removing them one after the other.
LEMMA RemovedOneByOne ==
  ASSUME NEW t \in Tables, NEW rules \in Seq(OwnedRule)
  PROVE  \E left : TakesAway(t, rules, left) /\ Removed(t, rules) = left[Len(rules)]
<1> DEFINE m == Len(rules)
           Def(f) == f = [n \in 0..m |-> IF n = 0 THEN t ELSE RemoveFirst(f[n - 1], rules[n])]
           left == CHOOSE f : Def(f)
           step == [x \in (1..m) \X Tables |-> RemoveFirst(x[2], rules[x[1]])]
<1>1. m \in Nat OBVIOUS
<1>2. Removed(t, rules) = left[m] BY DEF Removed, Without
<1> HIDE DEF m
<1>3. step \in [(1..m) \X Tables -> Tables] BY RuleRemoved
<1>4. \A n \in 1..m, u \in Tables : step[<<n, u>>] = RemoveFirst(u, rules[n]) OBVIOUS
<1> HIDE DEF step
<1>5. PICK h \in [0..m -> Tables] : Steps(h, m, t, step) BY <1>1, <1>3, History
<1>6. Def(h)
  <2>1. ASSUME NEW n \in 0..m PROVE h[n] = IF n = 0 THEN t ELSE RemoveFirst(h[n - 1], rules[n])
    <3>1. CASE n = 0 BY <1>5, <3>1 DEF Steps
    <3>2. CASE n # 0
      <4>1. n \in 1..m /\ n - 1 \in 0..m BY <1>1, <3>2
      <4>2. h[n - 1] \in Tables BY <1>5, <4>1
      <4> QED BY <1>4, <1>5, <3>2, <4>1, <4>2 DEF Steps
    <3> QED BY <3>1, <3>2
  <2> QED BY <2>1
<1>7. Def(left) BY <1>6
<1> HIDE DEF left
<1>8. /\ DOMAIN left = 0..m
      /\ \A n \in 0..m : left[n] = IF n = 0 THEN t ELSE RemoveFirst(left[n - 1], rules[n])
  BY <1>7
<1> HIDE DEF Def
<1>9. left[0] = t /\ \A n \in 1..m : left[n] = RemoveFirst(left[n - 1], rules[n])
  <2>1. 0 \in 0..m /\ \A n \in 1..m : n \in 0..m /\ n # 0 BY <1>1
  <2> QED BY <1>8, <2>1
<1> QED BY <1>2, <1>8, <1>9 DEF TakesAway, m

\* Removing a list of rules leaves exactly the others in the table.
LEMMA RulesRemoved ==
  ASSUME NEW t \in Tables, NEW rules \in Seq(OwnedRule)
  PROVE  /\ Removed(t, rules) \in Tables
         /\ OwnedOnce(t) => OwnedOnce(Removed(t, rules)) /\ Range(Removed(t, rules)) = Range(t) \ Range(rules)
<1> DEFINE m == Len(rules)
<1>1. m \in Nat /\ DOMAIN rules = 1..m /\ \A n \in 1..m : rules[n] \in OwnedRule OBVIOUS
<1>2. PICK a : TakesAway(t, rules, a) /\ Removed(t, rules) = a[m] BY RemovedOneByOne
<1> HIDE DEF m
<1>3. a[0] = t /\ \A n \in 1..m : a[n] = RemoveFirst(a[n - 1], rules[n]) BY <1>2 DEF TakesAway, m
<1> DEFINE Good(n) == /\ a[n] \in Tables
                      /\ OwnedOnce(t) => OwnedOnce(a[n]) /\ Range(a[n]) = Range(t) \ Firsts(rules, n)
           G == {n \in 0..m : Good(n)}
<1>4. 0 \in G
  <2>1. Firsts(rules, 0) = {} BY DEF Firsts
  <2> QED BY <1>1, <1>3, <2>1
<1>5. ASSUME NEW n \in 1..m, n - 1 \in G PROVE n \in G
  <2>1. Good(n - 1) BY <1>5
  <2>2. a[n] = RemoveFirst(a[n - 1], rules[n]) /\ rules[n] \in OwnedRule BY <1>1, <1>3
  <2>3. a[n] \in Tables BY <2>1, <2>2, RuleRemoved
  <2>4. Firsts(rules, n) = Firsts(rules, n - 1) \cup {rules[n]}
    <3>1. 1..n = (1..n - 1) \cup {n} BY <1>5
    <3> QED BY <3>1 DEF Firsts
  <2>5. ASSUME OwnedOnce(t) PROVE OwnedOnce(a[n]) /\ Range(a[n]) = Range(a[n - 1]) \ {rules[n]}
    <3>1. OwnedOnce(a[n - 1]) /\ a[n - 1] \in Tables BY <2>1, <2>5
    <3> HIDE DEF G, Good
    <3> QED BY <2>2, <3>1, RuleRemoved
  <2>6. n \in 0..m BY <1>5
  <2> QED BY <2>1, <2>3, <2>4, <2>5, <2>6
<1>6. m \in 0..m BY <1>1
<1> HIDE DEF G
<1>7. m \in G BY <1>1, <1>4, <1>5, <1>6, UpTo
<1>8. Firsts(rules, m) = Range(rules) BY <1>1 DEF Firsts, Range
<1> QED BY <1>2, <1>7, <1>8 DEF G
-----------------------------------------------------------------------------
(* The invariant. *)

Live == {"reading", "failed", "running"}

GatewayTyped ==
  /\ life \in [Node -> Live \cup {"none", "leaving", "gone"}]
  /\ script \in [Gateway -> Seq(Parameter)]
  /\ linked \subseteq Gateway
  /\ listed \in [Gateway -> Seq(OwnedRule)]
  /\ rtable \in Tables
  /\ observers \in Seq(Node) /\ posted \in [Node -> Seq(Nat)] /\ read \in Nat
  /\ panicked \in BOOLEAN

\* The routers map is ended when the maps of the users have been.
LastOfAll ==
  /\ main \in {"serving", "maps"} => life[router] = "running"
  /\ main \notin {"serving", "maps"} => linked = {} /\ \A g \in Gateway : life[g] \in {"none", "gone"}
  /\ ~panicked => \A g \in linked : life[g] \in Live

\* Who is subscribed is so once, and still there; who runs is subscribed.
Subscribed ==
  /\ IsInjective(observers)
  /\ \A n \in Range(observers) : life[n] \in {"running", "leaving"}
  /\ \A n \in Node : life[n] = "running" => n \in Range(observers)
  /\ NoEventForTheGone

GatewayInv == GatewayTyped /\ LastOfAll /\ Subscribed

\* A rule is known by its gateway and its place in the list of that gateway, which is
\* written once, before any rule of it is in the table.
ListedByPlace ==
  \A g \in Gateway : \A k \in DOMAIN listed[g] : listed[g][k].owner = g /\ listed[g][k].place = k

ListedLater ==
  \A g \in Gateway : \A j, k \in DOMAIN script[g] :
    script[g][j].name = "advertise" =>
      listed[g] = << >> /\ (script[g][k].name = "advertise" => j = k)

OwnersLinked ==
  \A r \in Range(rtable) \cap OwnedRule : r.owner \in linked /\ r \in Range(listed[r.owner])

RulesInv == ListedByPlace /\ ListedLater /\ OwnedOnce(rtable) /\ (~panicked => OwnersLinked)

\* Every gateway is a node, and none is the router.
LEMMA GatewaysAreNodes == Gateway \subseteq Node /\ router \in Node /\ router \notin Gateway
BY RouterAssumption DEF Node

\* Constructing a gateway keeps the relay's invariant.
LEMMA ConstructKeeps ==
  ASSUME GatewayInv, ~panicked, NEW g \in Gateway, Construct(g)
  PROVE  GatewayInv'
<1>0. g \in Node /\ g # router BY GatewaysAreNodes
<1>1. GatewayTyped' BY <1>0 DEF GatewayInv, GatewayTyped, Construct, Become, routing, reading, Live
<1>2. LastOfAll'
  <2>1. life'[g] = "reading" /\ \A n \in Node : n # g => life'[n] = life[n]
    BY <1>0 DEF GatewayInv, GatewayTyped, Construct, Become
  <2> QED BY <1>0, <2>1, GatewaysAreNodes DEF GatewayInv, GatewayTyped, LastOfAll, Construct, routing, Live
<1>3. Subscribed'
  <2>1. life'[g] = "reading" /\ life[g] = "none" /\ \A n \in Node : n # g => life'[n] = life[n]
    BY <1>0 DEF GatewayInv, GatewayTyped, Construct, Become
  <2>2. UNCHANGED <<observers, posted>> BY DEF Construct, reading
  <2>3. Range(observers) \subseteq Node BY DEF GatewayInv, GatewayTyped, Range
  <2> QED BY <2>1, <2>2, <2>3 DEF GatewayInv, Subscribed, NoEventForTheGone
<1> QED BY <1>1, <1>2, <1>3 DEF GatewayInv

\* A gateway's parameter lists the rules it listed before, then new ones of its own.
LEMMA AdvertisedTyped ==
  ASSUME GatewayTyped, NEW g \in Gateway, script[g] # << >>
  PROVE  /\ Advertised(g) \in Seq(OwnedRule)
         /\ Len(listed[g]) <= Len(Advertised(g))
         /\ \A k \in 1..Len(Advertised(g)) :
              IF k <= Len(listed[g]) THEN Advertised(g)[k] = listed[g][k]
              ELSE Advertised(g)[k].owner = g /\ Advertised(g)[k].place = k
<1> DEFINE s == listed[g]
           m == Len(s)
           rules == Head(script[g]).rules
           t == [k \in 1..Len(rules) |-> Owned(g, m + k, rules[k])]
<1>1. rules \in Seq(RoutingRule)
  <2>1. Head(script[g]) \in Parameter BY DEF GatewayTyped
  <2> QED BY <2>1 DEF Parameter
<1>2. s \in Seq(OwnedRule) /\ m \in Nat BY DEF GatewayTyped
<1> DEFINE n == Len(rules)
<1>3. n \in Nat /\ \A k \in 1..n : rules[k] \in RoutingRule BY <1>1
<1>4. Advertised(g) = s \o t BY DEF Advertised
<1> HIDE DEF rules, s, m, n
<1>5. \A k \in 1..n : Owned(g, m + k, rules[k]) \in OwnedRule
  <2>1. \A k \in 1..n : m + k \in Nat BY <1>2, <1>3
  <2> QED BY <1>3, <2>1 DEF Owned, OwnedRule, RoutingRule
<1>6. t \in Seq(OwnedRule) /\ Len(t) = n BY <1>3, <1>5 DEF n
<1>7. \A k \in 1..n : t[k].owner = g /\ t[k].place = m + k BY DEF Owned, n
<1> HIDE DEF t
<1>8. s \o t \in Seq(OwnedRule) /\ Len(s \o t) = Len(s) + Len(t) BY <1>2, <1>6, ConcatProperties
<1>9. \A k \in 1..Len(s) + Len(t) : (s \o t)[k] = IF k <= Len(s) THEN s[k] ELSE t[k - Len(s)]
  BY <1>2, <1>6, ConcatProperties
<1>10. ASSUME NEW k \in 1..m + n
       PROVE  IF k <= m THEN (s \o t)[k] = s[k] ELSE (s \o t)[k].owner = g /\ (s \o t)[k].place = k
  <2>1. CASE k <= m BY <1>6, <1>9, <2>1 DEF m
  <2>2. CASE ~(k <= m)
    <3>1. k - m \in 1..n /\ m + (k - m) = k BY <1>2, <1>3, <2>2
    <3>2. (s \o t)[k] = t[k - m] BY <1>6, <1>9, <2>2 DEF m
    <3> QED BY <1>7, <2>2, <3>1, <3>2
  <2> QED BY <2>1, <2>2
<1>11. m <= Len(s \o t) BY <1>2, <1>3, <1>6, <1>8 DEF m
<1> QED BY <1>4, <1>6, <1>8, <1>10, <1>11 DEF m, s

\* Reading a gateway's rules keeps the relay's invariant.
LEMMA ReadParameterKeeps ==
  ASSUME GatewayInv, ~panicked, NEW g \in Gateway, ReadParameter(g)
  PROVE  GatewayInv'
<1>0. g \in Node /\ g # router BY GatewaysAreNodes
<1>1. /\ life[g] = "reading" /\ script[g] # << >> /\ script' = [script EXCEPT ![g] = Tail(@)]
      /\ UNCHANGED <<relay, observers, posted, read, handles, main, panicked>>
  BY DEF ReadParameter, reading
<1>2. script' \in [Gateway -> Seq(Parameter)]
  BY <1>1 DEF GatewayInv, GatewayTyped
<1>3. Advertised(g) \in Seq(OwnedRule) BY <1>1, AdvertisedTyped DEF GatewayInv
<1>4. linked' \in {linked, linked \cup {g}}
  BY DEF ReadParameter, Connect, Advertise
<1>5. life' = life \/ life' = [life EXCEPT ![g] = "failed"]
  BY DEF ReadParameter, Connect, Advertise, Become
<1>6. listed' = listed \/ listed' = [listed EXCEPT ![g] = Advertised(g)]
  BY DEF ReadParameter, Connect, Advertise
<1>7. rtable' = rtable \/ rtable' = WithRules(rtable, Advertised(g))
  BY DEF ReadParameter, Connect, Advertise
<1>8. rtable' \in Tables
  <2>1. Advertised(g) \in Seq(TableRule) BY <1>3 DEF TableRule
  <2> QED BY <1>7, <2>1, RulesAdded DEF GatewayInv, GatewayTyped
<1>9. /\ life'[g] \in {"reading", "failed"} /\ \A n \in Node : n # g => life'[n] = life[n]
      /\ life' \in [Node -> Live \cup {"none", "leaving", "gone"}]
  BY <1>0, <1>1, <1>5 DEF GatewayInv, GatewayTyped, Live
<1>10. listed' \in [Gateway -> Seq(OwnedRule)] BY <1>3, <1>6 DEF GatewayInv, GatewayTyped
<1>11. GatewayTyped'
  BY <1>1, <1>2, <1>4, <1>8, <1>9, <1>10 DEF GatewayInv, GatewayTyped
<1>12. main \in {"serving", "maps"} BY <1>1 DEF GatewayInv, LastOfAll
<1>13. LastOfAll'
  BY <1>0, <1>1, <1>4, <1>9, <1>12, GatewaysAreNodes DEF GatewayInv, GatewayTyped, LastOfAll, Live
<1>14. Subscribed'
  <2>1. Range(observers) \subseteq Node BY DEF GatewayInv, GatewayTyped, Range
  <2> QED BY <1>1, <1>9, <2>1 DEF GatewayInv, Subscribed, NoEventForTheGone, Live
<1> QED BY <1>11, <1>13, <1>14 DEF GatewayInv

\* One more that was not among them
LEMMA AppendedOnce ==
  ASSUME NEW S, NEW s \in Seq(S), IsInjective(s), NEW x \in S, x \notin Range(s)
  PROVE  /\ Append(s, x) \in Seq(S) /\ IsInjective(Append(s, x))
         /\ Range(Append(s, x)) = Range(s) \cup {x}
<1>1. /\ Len(s) \in Nat /\ DOMAIN s = 1..Len(s) /\ Append(s, x) \in Seq(S)
      /\ DOMAIN Append(s, x) = 1..Len(s) + 1
      /\ Append(s, x)[Len(s) + 1] = x
      /\ \A k \in DOMAIN s : Append(s, x)[k] = s[k]
  OBVIOUS
<1>2. \A k \in DOMAIN s : s[k] # x BY DEF Range
<1>3. IsInjective(Append(s, x)) BY <1>1, <1>2 DEF IsInjective
<1>4. Range(Append(s, x)) = Range(s) \cup {x} BY <1>1 DEF Range
<1> QED BY <1>1, <1>3, <1>4

\* Reading a gateway's interface keeps the relay's invariant.
LEMMA ReadInterfaceKeeps ==
  ASSUME GatewayInv, ~panicked, NEW g \in Gateway, ReadInterface(g)
  PROVE  GatewayInv'
<1>0. g \in Node /\ g # router BY GatewaysAreNodes
<1>1. /\ life[g] = "reading" /\ observers' = Append(observers, g)
      /\ UNCHANGED <<script, linked, listed, rtable, collaborators, panicked, relay, posted, read, handles, main>>
  BY DEF ReadInterface, routing
<1>2. life' = [life EXCEPT ![g] = "running"] BY DEF ReadInterface, Become
<1>3. life'[g] = "running" /\ \A n \in Node : n # g => life'[n] = life[n]
  BY <1>0, <1>2 DEF GatewayInv, GatewayTyped
<1>4. observers \in Seq(Node) /\ IsInjective(observers) /\ g \notin Range(observers)
  BY <1>1 DEF GatewayInv, GatewayTyped, Subscribed
<1>5. /\ Append(observers, g) \in Seq(Node) /\ IsInjective(Append(observers, g))
      /\ Range(Append(observers, g)) = Range(observers) \cup {g}
  BY <1>0, <1>4, AppendedOnce
<1>6. life' \in [Node -> Live \cup {"none", "leaving", "gone"}] BY <1>2 DEF GatewayInv, GatewayTyped, Live
<1>7. GatewayTyped' BY <1>1, <1>5, <1>6 DEF GatewayInv, GatewayTyped
<1>8. LastOfAll' BY <1>0, <1>1, <1>3, GatewaysAreNodes DEF GatewayInv, GatewayTyped, LastOfAll, Live
<1>9. Subscribed'
  <2>1. Range(observers) \subseteq Node BY DEF GatewayInv, GatewayTyped, Range
  <2> QED BY <1>1, <1>3, <1>5, <2>1 DEF GatewayInv, Subscribed, NoEventForTheGone
<1> QED BY <1>7, <1>8, <1>9 DEF GatewayInv

\* Deleting a gateway keeps the relay's invariant.
LEMMA DeleteGatewayKeeps ==
  ASSUME GatewayInv, ~panicked, NEW g \in Gateway, DeleteGateway(g)
  PROVE  GatewayInv'
<1>0. g \in Node /\ g # router BY GatewaysAreNodes
<1>1. /\ life[g] \in {"failed", "running"} /\ life' = [life EXCEPT ![g] = "leaving"]
      /\ UNCHANGED <<script, relay, observers, posted, read, handles, main>>
  BY DEF DeleteGateway, Become, reading
<1>2. life'[g] = "leaving" /\ \A n \in Node : n # g => life'[n] = life[n]
  BY <1>0, <1>1 DEF GatewayInv, GatewayTyped
<1>3. /\ UNCHANGED listed
      /\ \/ panicked' = TRUE /\ UNCHANGED <<linked, rtable>>
         \/ UNCHANGED <<panicked, linked, rtable>> /\ g \notin linked
         \/ UNCHANGED panicked /\ linked' = linked \ {g} /\ rtable' = Removed(rtable, listed[g])
  BY DEF DeleteGateway, Withdraw, routing
<1>4. Removed(rtable, listed[g]) \in Tables
  <2>1. listed[g] \in Seq(OwnedRule) /\ rtable \in Tables BY DEF GatewayInv, GatewayTyped
  <2> QED BY <2>1, RulesRemoved
<1>5. life' \in [Node -> Live \cup {"none", "leaving", "gone"}] BY <1>1 DEF GatewayInv, GatewayTyped
<1>6. linked' \subseteq linked /\ panicked' \in BOOLEAN /\ (~panicked' => g \notin linked')
  BY <1>3 DEF GatewayInv, GatewayTyped
<1>7. GatewayTyped' BY <1>1, <1>3, <1>4, <1>5, <1>6 DEF GatewayInv, GatewayTyped
<1>8. LastOfAll'
  <2>1. main \in {"serving", "maps"} BY <1>1 DEF GatewayInv, LastOfAll
  <2> QED BY <1>0, <1>1, <1>2, <1>6, <2>1, GatewaysAreNodes DEF GatewayInv, GatewayTyped, LastOfAll
<1>9. Subscribed'
  <2>1. Range(observers) \subseteq Node BY DEF GatewayInv, GatewayTyped, Range
  <2> QED BY <1>1, <1>2, <2>1 DEF GatewayInv, Subscribed, NoEventForTheGone
<1> QED BY <1>7, <1>8, <1>9 DEF GatewayInv

\* One less, of a list that has each once
LEMMA RemovedOnce ==
  ASSUME NEW S, NEW s \in Seq(S), IsInjective(s), NEW x
  PROVE  /\ RemoveFirst(s, x) \in Seq(S) /\ IsInjective(RemoveFirst(s, x))
         /\ Range(RemoveFirst(s, x)) = Range(s) \ {x}
<1>0. Len(s) \in Nat /\ DOMAIN s = 1..Len(s) OBVIOUS
<1>1. CASE RemoveFirst(s, x) = s /\ \A k \in 1..Len(s) : s[k] # x
  <2>1. x \notin Range(s) BY <1>0, <1>1 DEF Range
  <2> QED BY <1>1, <2>1
<1>2. CASE \E i \in 1..Len(s) : s[i] = x /\ RemoveFirst(s, x) = RemoveAt(s, i)
  <2>1. PICK i \in 1..Len(s) : s[i] = x /\ RemoveFirst(s, x) = RemoveAt(s, i) BY <1>2
  <2> DEFINE u == RemoveFirst(s, x)
             m == Len(s)
             old(j) == IF j < i THEN j ELSE j + 1
             new(k) == IF k < i THEN k ELSE k - 1
  <2>2. /\ u \in Seq(S) /\ Len(u) = m - 1
        /\ \A j \in 1..m - 1 : u[j] = IF j < i THEN s[j] ELSE s[j + 1]
    BY <1>0, <2>1, Dropped
  <2>3. m \in Nat /\ i \in 1..m /\ DOMAIN u = 1..m - 1 /\ DOMAIN s = 1..m BY <1>0, <2>1, <2>2
  <2> HIDE DEF u, m
  <2>4. \A j \in 1..m - 1 : old(j) \in 1..m /\ old(j) # i /\ u[j] = s[old(j)] BY <2>2, <2>3
  <2>5. \A k \in 1..m : k # i => new(k) \in 1..m - 1 /\ old(new(k)) = k BY <2>3
  <2>6. \A j, k \in 1..m - 1 : old(j) = old(k) => j = k BY <2>3
  <2> HIDE DEF old, new
  <2>7. IsInjective(u) BY <2>3, <2>4, <2>6 DEF IsInjective
  <2>8. \A k \in 1..m : s[k] = x <=> k = i BY <2>1, <2>3 DEF IsInjective
  <2>9. Range(u) \subseteq Range(s) \ {x} BY <2>3, <2>4, <2>8 DEF Range
  <2>10. ASSUME NEW k \in 1..m, s[k] # x PROVE s[k] \in Range(u)
    <3>1. new(k) \in 1..m - 1 /\ old(new(k)) = k BY <2>5, <2>8, <2>10
    <3>2. u[new(k)] = s[k] BY <2>4, <3>1
    <3> QED BY <2>3, <3>1, <3>2 DEF Range
  <2>11. Range(s) \ {x} \subseteq Range(u) BY <2>3, <2>10 DEF Range
  <2> QED BY <2>2, <2>7, <2>9, <2>11 DEF u
<1> QED BY <1>1, <1>2, FirstRemoved

\* What the end of an interface does to the subscriptions
LEMMA UnsubscribeKeeps ==
  ASSUME GatewayTyped, Subscribed, NEW n \in Node, Unsubscribe(n)
  PROVE  /\ Subscribed'
         /\ life' \in [Node -> Live \cup {"none", "leaving", "gone"}]
         /\ observers' \in Seq(Node) /\ posted' \in [Node -> Seq(Nat)]
         /\ life'[n] = "gone" /\ \A o \in Node : o # n => life'[o] = life[o]
<1>1. /\ life' = [life EXCEPT ![n] = "gone"] /\ posted' = [posted EXCEPT ![n] = << >>]
      /\ observers' = RemoveFirst(observers, n)
  BY DEF Unsubscribe, Become
<1>2. /\ observers' \in Seq(Node) /\ IsInjective(observers')
      /\ Range(observers') = Range(observers) \ {n}
  <2>1. observers \in Seq(Node) /\ IsInjective(observers) BY DEF GatewayTyped, Subscribed
  <2> QED BY <1>1, <2>1, RemovedOnce
<1>3. life'[n] = "gone" /\ \A o \in Node : o # n => life'[o] = life[o] BY <1>1 DEF GatewayTyped
<1>4. posted'[n] = << >> /\ \A o \in Node : o # n => posted'[o] = posted[o] BY <1>1 DEF GatewayTyped
<1>5. life' \in [Node -> Live \cup {"none", "leaving", "gone"}] /\ posted' \in [Node -> Seq(Nat)]
  BY <1>1 DEF GatewayTyped
<1>6. Range(observers) \subseteq Node BY DEF GatewayTyped, Range
<1>7. NoEventForTheGone' BY <1>3, <1>4 DEF Subscribed, NoEventForTheGone
<1>8. \A o \in Range(observers') : life'[o] \in {"running", "leaving"} BY <1>2, <1>3, <1>6 DEF Subscribed
<1>9. \A o \in Node : life'[o] = "running" => o \in Range(observers') BY <1>2, <1>3 DEF Subscribed
<1> QED BY <1>2, <1>3, <1>5, <1>7, <1>8, <1>9 DEF Subscribed

\* Deleting an interface plugin keeps the relay's invariant.
LEMMA DeleteInterfaceKeeps ==
  ASSUME GatewayInv, ~panicked, NEW g \in Gateway, DeleteInterface(g)
  PROVE  GatewayInv'
<1>0. g \in Node /\ g # router BY GatewaysAreNodes
<1>1. /\ life[g] = "leaving" /\ Unsubscribe(g)
      /\ UNCHANGED <<script, linked, listed, rtable, collaborators, panicked, relay, read, handles, main>>
  BY DEF DeleteInterface, routing
<1>2. /\ Subscribed'
      /\ life' \in [Node -> Live \cup {"none", "leaving", "gone"}]
      /\ observers' \in Seq(Node) /\ posted' \in [Node -> Seq(Nat)]
      /\ life'[g] = "gone" /\ \A o \in Node : o # g => life'[o] = life[o]
  BY <1>0, <1>1, UnsubscribeKeeps DEF GatewayInv
<1>3. GatewayTyped' BY <1>1, <1>2 DEF GatewayInv, GatewayTyped
<1>4. g \notin linked BY <1>1 DEF GatewayInv, LastOfAll, Live
<1>5. LastOfAll'
  BY <1>0, <1>1, <1>2, <1>4, GatewaysAreNodes DEF GatewayInv, GatewayTyped, LastOfAll
<1> QED BY <1>2, <1>3, <1>5 DEF GatewayInv

\* A frame is posted once to each observer whose address it is for, and to nobody else.
LEMMA OneCopy ==
  ASSUME GatewayTyped, Subscribed, NEW mac, NEW n \in Node
  PROVE  Copies(mac, n) = IF n \in Range(observers) /\ Matches(mac, Mac[n]) THEN 1 ELSE 0
<1> DEFINE C == {k \in Served(mac) : observers[k] = n}
<1>1. /\ DOMAIN observers = 1..Len(observers)
      /\ \A j, k \in 1..Len(observers) : observers[j] = observers[k] => j = k
  BY DEF GatewayTyped, Subscribed, IsInjective
<1>2. C = {k \in 1..Len(observers) : Matches(mac, Mac[n]) /\ observers[k] = n}
  BY <1>1 DEF Served, Interested
<1> HIDE DEF C
<1>3. Copies(mac, n) = Cardinality(C) BY DEF Copies, C
<1>4. CASE n \in Range(observers) /\ Matches(mac, Mac[n])
  <2>1. PICK k \in 1..Len(observers) : observers[k] = n BY <1>1, <1>4 DEF Range
  <2>2. C = {k} BY <1>1, <1>2, <1>4, <2>1
  <2> QED BY <1>3, <1>4, <2>2, FS_Singleton
<1>5. CASE ~(n \in Range(observers) /\ Matches(mac, Mac[n]))
  <2>1. C = {} BY <1>1, <1>2, <1>5 DEF Range
  <2> QED BY <1>3, <1>5, <2>1, FS_EmptySet
<1> QED BY <1>4, <1>5

\* A published frame is appended to what is posted to each observing node that it is for.
LEMMA Posted ==
  ASSUME GatewayInv, NEW mac, Publish(mac), NEW n \in Node
  PROVE  /\ posted'[n] \in Seq(Nat)
         /\ posted'[n] = IF n \in Range(observers) /\ Matches(mac, Mac[n])
                         THEN Append(posted[n], read) ELSE posted[n]
<1> DEFINE c == Copies(mac, n)
           new == [k \in 1..c |-> read]
<1>1. c = IF n \in Range(observers) /\ Matches(mac, Mac[n]) THEN 1 ELSE 0 BY OneCopy DEF GatewayInv
<1>2. posted'[n] = posted[n] \o new BY DEF Publish
<1>3. posted[n] \in Seq(Nat) /\ read \in Nat BY DEF GatewayInv, GatewayTyped
<1> HIDE DEF c
<1>4. CASE c = 1
  <2>1. new = <<read>> BY <1>4
  <2> HIDE DEF new
  <2>2. posted[n] \o <<read>> = Append(posted[n], read) BY <1>3
  <2> QED BY <1>1, <1>2, <1>3, <1>4, <2>1, <2>2
<1>5. CASE c = 0
  <2>1. new \in Seq(Nat) /\ Len(new) = 0 BY <1>5
  <2> HIDE DEF new
  <2>2. new = << >> BY <2>1
  <2>3. posted[n] \o << >> = posted[n] BY <1>3, ConcatEmptySeq
  <2> QED BY <1>1, <1>2, <1>3, <1>5, <2>2, <2>3
<1> QED BY <1>1, <1>4, <1>5

\* Publishing a frame keeps the relay's invariant.
LEMMA PublishKeeps ==
  ASSUME GatewayInv, NEW mac \in Macs, Publish(mac)
  PROVE  GatewayInv'
<1>1. /\ read' = read + 1 /\ DOMAIN posted' = Node /\ posted' = [n \in Node |-> posted'[n]]
      /\ UNCHANGED <<life, script, linked, listed, rtable, collaborators, panicked, relay, observers, handles, main>>
  BY DEF Publish, routing
<1>2. posted' \in [Node -> Seq(Nat)] BY <1>1, Posted
<1>3. GatewayTyped' BY <1>1, <1>2 DEF GatewayInv, GatewayTyped
<1>4. LastOfAll' BY <1>1 DEF GatewayInv, LastOfAll
<1>5. Subscribed'
  <2>1. ASSUME NEW n \in Node, life[n] = "gone" PROVE posted'[n] = << >>
    <3>1. n \notin Range(observers) BY <2>1 DEF GatewayInv, Subscribed
    <3> QED BY <2>1, <3>1, Posted DEF GatewayInv, Subscribed, NoEventForTheGone
  <2> QED BY <1>1, <2>1 DEF GatewayInv, Subscribed, NoEventForTheGone
<1> QED BY <1>3, <1>4, <1>5 DEF GatewayInv

\* Delivering a frame to its node keeps the relay's invariant.
LEMMA DeliverKeeps ==
  ASSUME GatewayInv, NEW n \in Node, Deliver(n)
  PROVE  GatewayInv'
<1>1. /\ life[n] = "running" /\ posted[n] # << >> /\ posted' = [posted EXCEPT ![n] = Tail(@)]
      /\ UNCHANGED <<life, script, linked, listed, rtable, collaborators, panicked, relay, observers, read, handles, main>>
  BY DEF Deliver, routing
<1>2. posted' \in [Node -> Seq(Nat)] BY <1>1 DEF GatewayInv, GatewayTyped
<1>3. GatewayTyped' BY <1>1, <1>2 DEF GatewayInv, GatewayTyped
<1>4. LastOfAll' BY <1>1 DEF GatewayInv, LastOfAll
<1>5. \A o \in Node : o # n => posted'[o] = posted[o] BY <1>1 DEF GatewayInv, GatewayTyped
<1>6. Subscribed' BY <1>1, <1>5 DEF GatewayInv, Subscribed, NoEventForTheGone
<1> QED BY <1>3, <1>4, <1>6 DEF GatewayInv

\* The main thread
LEMMA MainKeeps ==
  ASSUME GatewayInv, ~panicked, Shutdown \/ MainStep
  PROVE  GatewayInv'
<1>1. CASE Shutdown
  <2>1. main = "serving" /\ main' = "maps" /\ UNCHANGED <<life, script, routing, reading>> BY <1>1 DEF Shutdown
  <2> QED BY <2>1 DEF GatewayInv, GatewayTyped, LastOfAll, Subscribed, NoEventForTheGone, routing, reading
<1>2. CASE MapsEnded
  <2>1. /\ main = "maps" /\ main' = "routers"
        /\ \A g \in Gateway : life[g] \in {"none", "gone"}
        /\ UNCHANGED <<life, script, linked, listed, rtable, collaborators, panicked, relay, observers, posted, read, handles>>
    BY <1>2 DEF MapsEnded, routing, reading
  <2>2. linked = {} BY <2>1 DEF GatewayInv, GatewayTyped, LastOfAll, Live
  <2>3. GatewayTyped' BY <2>1 DEF GatewayInv, GatewayTyped
  <2>4. LastOfAll' BY <2>1, <2>2 DEF LastOfAll
  <2>5. Subscribed' BY <2>1 DEF GatewayInv, Subscribed, NoEventForTheGone
  <2> QED BY <2>3, <2>4, <2>5 DEF GatewayInv
<1>3. CASE DeleteRouter
  <2>1. /\ main = "routers" /\ life[router] = "running" /\ rtable' = << >>
        /\ life' = [life EXCEPT ![router] = "leaving"]
        /\ UNCHANGED <<script, linked, listed, panicked, relay, observers, posted, read, handles, main>>
    BY <1>3 DEF DeleteRouter, Become, reading
  <2>2. life'[router] = "leaving" /\ \A n \in Node : n # router => life'[n] = life[n]
    BY <2>1, GatewaysAreNodes DEF GatewayInv, GatewayTyped
  <2>3. rtable' \in Tables BY <2>1 DEF Tables, Sorted
  <2>4. life' \in [Node -> Live \cup {"none", "leaving", "gone"}] BY <2>1 DEF GatewayInv, GatewayTyped
  <2>5. GatewayTyped' BY <2>1, <2>3, <2>4 DEF GatewayInv, GatewayTyped
  <2>6. LastOfAll' BY <2>1, <2>2, GatewaysAreNodes DEF GatewayInv, LastOfAll
  <2>7. Subscribed'
    <3>1. Range(observers) \subseteq Node BY DEF GatewayInv, GatewayTyped, Range
    <3> QED BY <2>1, <2>2, <3>1 DEF GatewayInv, Subscribed, NoEventForTheGone
  <2> QED BY <2>5, <2>6, <2>7 DEF GatewayInv
<1>4. CASE DeleteRouterInterface
  <2>1. /\ life[router] = "leaving" /\ Unsubscribe(router) /\ main' = "driver"
        /\ UNCHANGED <<script, linked, listed, rtable, panicked, relay, read, handles>>
    BY <1>4 DEF DeleteRouterInterface, routing
  <2>2. /\ Subscribed'
        /\ life' \in [Node -> Live \cup {"none", "leaving", "gone"}]
        /\ observers' \in Seq(Node) /\ posted' \in [Node -> Seq(Nat)]
        /\ life'[router] = "gone" /\ \A o \in Node : o # router => life'[o] = life[o]
    BY <2>1, UnsubscribeKeeps, GatewaysAreNodes DEF GatewayInv
  <2>3. GatewayTyped' BY <2>1, <2>2 DEF GatewayInv, GatewayTyped
  <2>4. main \notin {"serving", "maps"} BY <2>1 DEF GatewayInv, LastOfAll
  <2>5. LastOfAll' BY <2>1, <2>2, <2>4, GatewaysAreNodes DEF GatewayInv, LastOfAll
  <2> QED BY <2>2, <2>3, <2>5 DEF GatewayInv
<1>5. CASE FinishRunning \/ LoopBroken \/ DeleteRelay
  <2>1. UNCHANGED <<life, script, linked, listed, rtable, panicked, observers, posted, read, main>>
    BY <1>5 DEF FinishRunning, LoopBroken, DeleteRelay, routing
  <2> QED BY <2>1 DEF GatewayInv, GatewayTyped, LastOfAll, Subscribed, NoEventForTheGone
<1>6. CASE DestroyDriver
  <2>1. /\ main = "driver" /\ main' = "done"
        /\ UNCHANGED <<life, script, linked, listed, rtable, panicked, observers, posted, read>>
    BY <1>6 DEF DestroyDriver, routing, reading
  <2> QED BY <2>1 DEF GatewayInv, GatewayTyped, LastOfAll, Subscribed, NoEventForTheGone
<1> QED BY <1>1, <1>2, <1>3, <1>4, <1>5, <1>6 DEF MainStep

\* The relay starts within its invariant.
LEMMA GatewayInitial == Init => GatewayInv
<1> SUFFICES ASSUME Init PROVE GatewayInv
  OBVIOUS
<1>1. /\ life = [n \in Node |-> IF n = router THEN "running" ELSE "none"]
      /\ script \in [Gateway -> Scripts] /\ linked = {} /\ listed = [g \in Gateway |-> << >>]
      /\ rtable = RoutingTable /\ observers = <<router>> /\ posted = [n \in Node |-> << >>] /\ read = 0
      /\ main = "serving" /\ panicked = FALSE
  BY DEF Init
<1>2. script \in [Gateway -> Seq(Parameter)] BY <1>1, ScriptsAssumption
<1>3. rtable \in Tables
  <2>1. << >> \in Tables BY DEF Tables, Sorted
  <2>2. Rules \in Seq(TableRule) BY RulesAssumption DEF TableRule
  <2> QED BY <1>1, <2>1, <2>2, RulesAdded DEF RoutingTable
<1>4. life \in [Node -> Live \cup {"none", "leaving", "gone"}] BY <1>1 DEF Live
<1>5. observers \in Seq(Node) /\ IsInjective(observers) /\ Range(observers) = {router}
  BY <1>1, GatewaysAreNodes DEF IsInjective, Range
<1>6. posted \in [Node -> Seq(Nat)] BY <1>1
<1>7. listed \in [Gateway -> Seq(OwnedRule)] BY <1>1
<1>8. GatewayTyped BY <1>1, <1>2, <1>3, <1>4, <1>5, <1>6, <1>7 DEF GatewayTyped
<1>9. life[router] = "running" BY <1>1, GatewaysAreNodes
<1>10. LastOfAll BY <1>1, <1>9 DEF LastOfAll
<1>11. Subscribed BY <1>1, <1>5, <1>9 DEF Subscribed, NoEventForTheGone
<1> QED BY <1>8, <1>10, <1>11 DEF GatewayInv

\* Every step of gateways and relay keeps the invariant.
LEMMA GatewaySteps == GatewayInv /\ [Next]_vars => GatewayInv'
<1> SUFFICES ASSUME GatewayInv, [Next]_vars PROVE GatewayInv'
  OBVIOUS
<1>1. CASE UNCHANGED vars
  BY <1>1 DEF vars, GatewayInv, GatewayTyped, LastOfAll, Subscribed, NoEventForTheGone
<1>2. CASE Next
  <2>1. ~panicked BY <1>2 DEF Next
  <2>2. ASSUME NEW g \in Gateway, GatewayStep(g) PROVE GatewayInv'
    BY <2>1, <2>2, ConstructKeeps, ReadParameterKeeps, ReadInterfaceKeeps, DeleteGatewayKeeps,
       DeleteInterfaceKeeps DEF GatewayStep
  <2>3. ASSUME NEW mac \in Macs, Publish(mac) PROVE GatewayInv' BY <2>3, PublishKeeps
  <2>4. ASSUME NEW n \in Node, Deliver(n) PROVE GatewayInv' BY <2>4, DeliverKeeps
  <2>5. CASE Shutdown \/ MainStep BY <2>1, <2>5, MainKeeps
  <2> QED BY <1>2, <2>2, <2>3, <2>4, <2>5 DEF Next
<1> QED BY <1>1, <1>2

\* The order of the table makes the rule with the longest prefix the one that decides.
LEMMA LongestDecides == ASSUME GatewayTyped PROVE LongestPrefixDecides
<1> SUFFICES ASSUME NEW a \in Address, NEW k \in DOMAIN rtable, Covers(rtable[k], a)
             PROVE  rtable[Min({j \in DOMAIN rtable : Covers(rtable[j], a)})].netbits >= rtable[k].netbits
  BY DEF LongestPrefixDecides
<1> DEFINE M == {j \in DOMAIN rtable : Covers(rtable[j], a)}
<1>1. DOMAIN rtable = 1..Len(rtable) /\ Sorted(rtable) BY DEF GatewayTyped, Tables
<1>2. M \in SUBSET Nat /\ k \in M /\ M \subseteq DOMAIN rtable BY <1>1
<1> HIDE DEF M
<1>3. Min(M) \in M /\ Min(M) <= k BY <1>2, SmallestNumber
<1>4. rtable[Min(M)].netbits >= rtable[k].netbits BY <1>1, <1>2, <1>3 DEF Sorted
<1> QED BY <1>4 DEF M

\* The invariant says that no gateway is left without its router.
LEMMA RouterStays == ASSUME GatewayInv PROVE RouterOutlivesGateways
BY DEF GatewayInv, LastOfAll, RouterOutlivesGateways

\* Whatever is advertised and taken back, longer prefixes stand first in the router's table.
THEOREM LongestDecidesAlways == Spec => []LongestPrefixDecides
<1>1. GatewayInv => LongestPrefixDecides BY LongestDecides DEF GatewayInv
<1> QED BY <1>1, GatewayInitial, GatewaySteps, PTL DEF Spec

\* However gateways come and go, and whenever the server stops, the router is there for as
\* long as a gateway holds a pointer to it.
THEOREM RouterOutlives == Spec => []RouterOutlivesGateways
<1>1. GatewayInv => RouterOutlivesGateways BY RouterStays
<1> QED BY <1>1, GatewayInitial, GatewaySteps, PTL DEF Spec

\* No frame of the relay is kept for an interface that has been deleted.
THEOREM NothingForTheGone == Spec => []NoEventForTheGone
<1>1. GatewayInv => NoEventForTheGone BY DEF GatewayInv, Subscribed
<1> QED BY <1>1, GatewayInitial, GatewaySteps, PTL DEF Spec

\* A frame from outside, be it for one address or for everybody, is posted once to each node
\* that listens and that it is for, and to no other.  A running node is on the list of the
\* observers, nobody is on it twice, and who is on it still listens.
THEOREM ListenersServed == Spec => EveryListenerServed
<1> DEFINE OwnServed(mac) ==
             \A n \in Node :
               posted'[n] = IF Listens(n) /\ Matches(mac, Mac[n]) THEN Append(posted[n], read)
                            ELSE posted[n]
           ServedAll == \A mac \in Macs : Publish(mac) => OwnServed(mac)
<1>1. GatewayInv => [ServedAll]_vars
  <2> SUFFICES ASSUME GatewayInv, NEW mac \in Macs, Publish(mac), NEW n \in Node
               PROVE  posted'[n] = IF Listens(n) /\ Matches(mac, Mac[n]) THEN Append(posted[n], read)
                                   ELSE posted[n]
    OBVIOUS
  <2>1. Listens(n) <=> n \in Range(observers) BY DEF Listens, GatewayInv, Subscribed
  <2> QED BY <2>1, Posted
<1> HIDE DEF ServedAll
<1>2. Spec => [][ServedAll]_vars BY <1>1, GatewayInitial, GatewaySteps, PTL DEF Spec
<1> QED BY <1>2 DEF EveryListenerServed, ServedAll

-----------------------------------------------------------------------------
(* Rules and their owners, where every gateway advertises once. *)

\* The rules that a gateway advertises are its own, numbered by their places.
LEMMA AdvertisedByPlace ==
  ASSUME GatewayTyped, ListedByPlace, NEW g \in Gateway, script[g] # << >>
  PROVE  \A k \in DOMAIN Advertised(g) : Advertised(g)[k].owner = g /\ Advertised(g)[k].place = k
<1>1. /\ Advertised(g) \in Seq(OwnedRule)
      /\ \A k \in 1..Len(Advertised(g)) :
              IF k <= Len(listed[g]) THEN Advertised(g)[k] = listed[g][k]
              ELSE Advertised(g)[k].owner = g /\ Advertised(g)[k].place = k
  BY AdvertisedTyped
<1>2. DOMAIN listed[g] = 1..Len(listed[g]) /\ Len(listed[g]) \in Nat BY DEF GatewayTyped
<1>3. \A k \in DOMAIN listed[g] : listed[g][k].owner = g /\ listed[g][k].place = k BY DEF ListedByPlace
<1>4. DOMAIN Advertised(g) = 1..Len(Advertised(g)) BY <1>1
<1> TAKE k \in DOMAIN Advertised(g)
<1>5. CASE k <= Len(listed[g])
  <2>1. k \in DOMAIN listed[g] BY <1>2, <1>4, <1>5
  <2> QED BY <1>1, <1>3, <1>4, <1>5, <2>1
<1>6. CASE ~(k <= Len(listed[g])) BY <1>1, <1>4, <1>6
<1> QED BY <1>5, <1>6

\* Reading on: one parameter less is left, and the others keep their order.
LEMMA RestOfScript ==
  ASSUME NEW s \in Seq(Parameter), s # << >>
  PROVE  /\ 1 \in DOMAIN s /\ s[1] = Head(s)
         /\ \A k \in DOMAIN Tail(s) : k + 1 \in DOMAIN s /\ k + 1 # 1 /\ Tail(s)[k] = s[k + 1]
         /\ \A j, k \in DOMAIN Tail(s) : j + 1 = k + 1 => j = k
OBVIOUS

\* Reading a gateway's rules keeps table and gateways in agreement.
LEMMA RulesRead ==
  ASSUME GatewayInv, RulesInv, ~panicked, NEW g \in Gateway, ReadParameter(g)
  PROVE  RulesInv'
<1>0. script[g] \in Seq(Parameter) /\ script[g] # << >> /\ g \in Gateway
  BY DEF ReadParameter, GatewayInv, GatewayTyped
<1>1. /\ script' = [script EXCEPT ![g] = Tail(@)] /\ UNCHANGED panicked
      /\ script'[g] = Tail(script[g]) /\ \A h \in Gateway : h # g => script'[h] = script[h]
  BY DEF ReadParameter, GatewayInv, GatewayTyped
<1>2. OwnersLinked BY DEF RulesInv
<1>3. CASE Connect(g)
  <2>1. linked' = linked \cup {g} /\ UNCHANGED <<listed, rtable>> BY <1>3 DEF Connect
  <2>2. ListedLater'
    <3>1. ASSUME NEW h \in Gateway, NEW j \in DOMAIN script'[h], NEW k \in DOMAIN script'[h],
                 script'[h][j].name = "advertise"
          PROVE  listed[h] = << >> /\ (script'[h][k].name = "advertise" => j = k)
      <4>1. CASE h # g BY <1>1, <3>1, <4>1 DEF RulesInv, ListedLater
      <4>2. CASE h = g
        <5>1. /\ j + 1 \in DOMAIN script[g] /\ k + 1 \in DOMAIN script[g]
              /\ script'[g][j] = script[g][j + 1] /\ script'[g][k] = script[g][k + 1]
              /\ (j + 1 = k + 1 => j = k)
          <6>1. j \in DOMAIN Tail(script[g]) /\ k \in DOMAIN Tail(script[g]) BY <1>1, <3>1, <4>2
          <6>2. \A i \in DOMAIN Tail(script[g]) :
                  i + 1 \in DOMAIN script[g] /\ Tail(script[g])[i] = script[g][i + 1]
            BY <1>0, RestOfScript
          <6>3. j + 1 = k + 1 => j = k BY <1>0, <6>1, RestOfScript
          <6> QED BY <1>1, <6>1, <6>2, <6>3
        <5> QED BY <3>1, <4>2, <5>1 DEF RulesInv, ListedLater
      <4> QED BY <4>1, <4>2
    <3> QED BY <2>1, <3>1 DEF ListedLater
  <2>3. OwnersLinked' BY <1>2, <2>1 DEF OwnersLinked
  <2> QED BY <2>1, <2>2, <2>3 DEF RulesInv, ListedByPlace
<1>4. CASE Advertise(g)
  <2>1. /\ Head(script[g]).name = "advertise" /\ UNCHANGED linked
        /\ listed' = [listed EXCEPT ![g] = Advertised(g)]
        /\ \/ g \in linked /\ rtable' = WithRules(rtable, Advertised(g))
           \/ UNCHANGED rtable
    BY <1>4 DEF Advertise
  <2>2. listed'[g] = Advertised(g) /\ \A h \in Gateway : h # g => listed'[h] = listed[h]
    BY <2>1 DEF GatewayInv, GatewayTyped
  <2>3. 1 \in DOMAIN script[g] /\ script[g][1].name = "advertise" BY <1>0, <2>1, RestOfScript
  <2>4. listed[g] = << >> /\ \A k \in DOMAIN script[g] : script[g][k].name = "advertise" => k = 1
    BY <2>3 DEF RulesInv, ListedLater
  <2>5. \A k \in DOMAIN Advertised(g) : Advertised(g)[k].owner = g /\ Advertised(g)[k].place = k
    BY <1>0, AdvertisedByPlace DEF GatewayInv, RulesInv
  <2>6. ListedByPlace' BY <2>2, <2>5 DEF RulesInv, ListedByPlace
  <2>7. ListedLater'
    <3>1. ASSUME NEW h \in Gateway, NEW j \in DOMAIN script'[h], NEW k \in DOMAIN script'[h],
                 script'[h][j].name = "advertise"
          PROVE  listed'[h] = << >> /\ (script'[h][k].name = "advertise" => j = k)
      <4>1. CASE h # g BY <1>1, <2>2, <3>1, <4>1 DEF RulesInv, ListedLater
      <4>2. CASE h = g
        <5>1. j + 1 \in DOMAIN script[g] /\ j + 1 # 1 /\ script'[g][j] = script[g][j + 1]
          <6>1. j \in DOMAIN Tail(script[g]) BY <1>1, <3>1, <4>2
          <6>2. \A i \in DOMAIN Tail(script[g]) :
                  i + 1 \in DOMAIN script[g] /\ i + 1 # 1 /\ Tail(script[g])[i] = script[g][i + 1]
            BY <1>0, RestOfScript
          <6> QED BY <1>1, <6>1, <6>2
        <5> QED BY <2>4, <3>1, <4>2, <5>1
      <4> QED BY <4>1, <4>2
    <3> QED BY <3>1 DEF ListedLater
  <2>8. \A r \in Range(rtable) \cap OwnedRule : r.owner # g
    <3>1. Range(listed[g]) = {} BY <2>4 DEF Range
    <3> QED BY <1>2, <3>1 DEF OwnersLinked
  <2>9. /\ rtable \in Tables /\ Advertised(g) \in Seq(TableRule) /\ OwnedOnce(rtable)
        /\ Advertised(g) \in Seq(OwnedRule)
    <3>1. Advertised(g) \in Seq(OwnedRule) BY <1>0, AdvertisedTyped DEF GatewayInv
    <3> QED BY <3>1 DEF GatewayInv, GatewayTyped, RulesInv, TableRule
  <2>10. Fresh(rtable, Advertised(g))
    <3>1. \A j, k \in DOMAIN Advertised(g) : Advertised(g)[j] = Advertised(g)[k] => j = k BY <2>5
    <3>2. \A k \in DOMAIN Advertised(g) : Advertised(g)[k] \in OwnedRule => Advertised(g)[k] \notin Range(rtable)
      BY <2>5, <2>8
    <3> QED BY <3>1, <3>2 DEF Fresh
  <2>11. OwnedOnce(rtable') /\ OwnersLinked'
    <3>1. CASE g \in linked /\ rtable' = WithRules(rtable, Advertised(g))
      <4>1. Range(rtable') = Range(rtable) \cup Range(Advertised(g)) /\ OwnedOnce(rtable')
        BY <2>9, <2>10, <3>1, RulesAdded
      <4>2. ASSUME NEW r \in Range(rtable') \cap OwnedRule
            PROVE  r.owner \in linked' /\ r \in Range(listed'[r.owner])
        <5>1. CASE r \in Range(rtable)
          <6>1. r.owner \in linked /\ r \in Range(listed[r.owner]) /\ r.owner # g
            BY <1>2, <2>8, <4>2, <5>1 DEF OwnersLinked
          <6>2. r.owner \in Gateway BY <4>2 DEF OwnedRule
          <6> QED BY <2>1, <2>2, <6>1, <6>2
        <5>2. CASE r \in Range(Advertised(g))
          <6>1. r.owner = g BY <2>5, <5>2 DEF Range
          <6> QED BY <2>1, <2>2, <3>1, <5>2, <6>1
        <5> QED BY <4>1, <4>2, <5>1, <5>2
      <4> QED BY <4>1, <4>2 DEF OwnersLinked
    <3>2. CASE UNCHANGED rtable
      <4>1. ASSUME NEW r \in Range(rtable) \cap OwnedRule
            PROVE  r.owner \in linked' /\ r \in Range(listed'[r.owner])
        <5>1. r.owner \in linked /\ r \in Range(listed[r.owner]) /\ r.owner # g
          BY <1>2, <2>8, <4>1 DEF OwnersLinked
        <5>2. r.owner \in Gateway BY <4>1 DEF OwnedRule
        <5> QED BY <2>1, <2>2, <5>1, <5>2
      <4> QED BY <2>9, <3>2, <4>1 DEF OwnersLinked
    <3> QED BY <2>1, <3>1, <3>2
  <2> QED BY <2>6, <2>7, <2>11 DEF RulesInv
<1> QED BY <1>3, <1>4 DEF ReadParameter

\* Deleting a gateway takes back from the table all that it added.
LEMMA RulesTakenBack ==
  ASSUME GatewayInv, RulesInv, ~panicked, NEW g \in Gateway, DeleteGateway(g)
  PROVE  RulesInv'
<1>1. UNCHANGED <<script, listed>> BY DEF DeleteGateway, Withdraw, routing
<1>2. ListedByPlace' /\ ListedLater' BY <1>1 DEF RulesInv, ListedByPlace, ListedLater
<1>3. CASE panicked' = TRUE /\ UNCHANGED rtable BY <1>2, <1>3 DEF RulesInv
<1>4. CASE UNCHANGED <<panicked, linked, rtable>>
  BY <1>1, <1>2, <1>4 DEF RulesInv, OwnersLinked
<1>5. CASE UNCHANGED panicked /\ linked' = linked \ {g} /\ rtable' = Removed(rtable, listed[g])
  <2>1. rtable \in Tables /\ listed[g] \in Seq(OwnedRule) /\ OwnedOnce(rtable)
    BY DEF GatewayInv, GatewayTyped, RulesInv
  <2>2. OwnedOnce(rtable') /\ Range(rtable') = Range(rtable) \ Range(listed[g])
    BY <1>5, <2>1, RulesRemoved
  <2>3. ASSUME NEW r \in Range(rtable') \cap OwnedRule
        PROVE  r.owner \in linked' /\ r \in Range(listed'[r.owner])
    <3>1. r.owner \in linked /\ r \in Range(listed[r.owner]) /\ r \notin Range(listed[g])
      BY <2>2, <2>3 DEF RulesInv, OwnersLinked
    <3> QED BY <1>1, <1>5, <3>1
  <2> QED BY <1>2, <2>2, <2>3 DEF RulesInv, OwnersLinked
<1>6. \/ panicked' = TRUE /\ UNCHANGED rtable
      \/ UNCHANGED <<panicked, linked, rtable>>
      \/ UNCHANGED panicked /\ linked' = linked \ {g} /\ rtable' = Removed(rtable, listed[g])
  BY DEF DeleteGateway, Withdraw, routing
<1> QED BY <1>3, <1>4, <1>5, <1>6

\* Table and gateways agree at the start.
LEMMA RulesInitial == ASSUME AdvertisedOnce, Init PROVE RulesInv
<1>1. /\ script \in [Gateway -> Scripts] /\ listed = [g \in Gateway |-> << >>] /\ rtable = RoutingTable
  BY DEF Init
<1>2. ListedByPlace BY <1>1 DEF ListedByPlace
<1>3. ListedLater BY <1>1 DEF ListedLater, AdvertisedOnce
<1>4. Range(rtable) \cap OwnedRule = {}
  <2>1. << >> \in Tables /\ Range(<< >>) = {} BY DEF Tables, Sorted, Range
  <2>2. Rules \in Seq(TableRule) BY RulesAssumption DEF TableRule
  <2>3. Range(rtable) = Range(<< >>) \cup Range(Rules) BY <1>1, <2>1, <2>2, RulesAdded DEF RoutingTable
  <2>4. Range(Rules) \subseteq RoutingRule BY RulesAssumption DEF Range
  <2> QED BY <2>1, <2>3, <2>4, NotOwned
<1>5. OwnedOnce(rtable) BY <1>4 DEF OwnedOnce, Range
<1> QED BY <1>2, <1>3, <1>4, <1>5 DEF RulesInv, OwnersLinked

\* Every step keeps table and gateways in agreement.
LEMMA RulesStep ==
  ASSUME GatewayInv, RulesInv, [Next]_vars
  PROVE  RulesInv'
<1>1. CASE UNCHANGED <<script, linked, listed, rtable, panicked>>
  BY <1>1 DEF RulesInv, ListedByPlace, ListedLater, OwnedOnce, OwnersLinked
<1>2. CASE ~panicked /\ \E g \in Gateway : ReadParameter(g) BY <1>2, RulesRead
<1>3. CASE ~panicked /\ \E g \in Gateway : DeleteGateway(g) BY <1>3, RulesTakenBack
<1>4. CASE DeleteRouter
  <2>1. rtable' = << >> /\ UNCHANGED <<script, linked, listed, panicked>> BY <1>4 DEF DeleteRouter
  <2>2. Range(rtable') = {} /\ OwnedOnce(rtable') BY <2>1 DEF Range, OwnedOnce
  <2> QED BY <2>1, <2>2 DEF RulesInv, ListedByPlace, ListedLater, OwnersLinked
<1>5. CASE Next
  <2>1. \/ UNCHANGED <<script, linked, listed, rtable, panicked>>
        \/ ~panicked /\ \E g \in Gateway : ReadParameter(g)
        \/ ~panicked /\ \E g \in Gateway : DeleteGateway(g)
        \/ DeleteRouter
    BY <1>5 DEF Next, GatewayStep, MainStep, Construct, ReadInterface, DeleteInterface, Publish,
       Deliver, Shutdown, MapsEnded, DeleteRouterInterface, FinishRunning, LoopBroken, DeleteRelay,
       DestroyDriver, routing
  <2> QED BY <1>1, <1>2, <1>3, <1>4, <2>1
<1>6. CASE UNCHANGED vars BY <1>1, <1>6 DEF vars
<1> QED BY <1>5, <1>6

\* When table and gateways agree, the table has no rule of a gateway that is gone.
LEMMA OwnedAreAlive == ASSUME GatewayInv, RulesInv PROVE RulesAreAlive
<1> SUFFICES ASSUME ~panicked, NEW k \in DOMAIN rtable, NEW g \in Gateway, Contains(listed[g], rtable[k])
             PROVE  life[g] \in {"reading", "failed", "running"}
  BY DEF RulesAreAlive
<1>1. PICK i \in 1..Len(listed[g]) : listed[g][i] = rtable[k] BY DEF Contains
<1>2. listed[g] \in Seq(OwnedRule) BY DEF GatewayInv, GatewayTyped
<1>3. i \in DOMAIN listed[g] /\ rtable[k] \in OwnedRule BY <1>1, <1>2
<1>4. rtable[k].owner = g BY <1>1, <1>3 DEF RulesInv, ListedByPlace
<1>5. rtable[k] \in Range(rtable) BY DEF Range
<1>6. g \in linked BY <1>3, <1>4, <1>5 DEF RulesInv, OwnersLinked
<1> QED BY <1>6 DEF GatewayInv, LastOfAll, Live

\* Where every gateway names its networks once, the router's table never holds a rule whose
\* gateway has been deleted.
THEOREM RulesStayAlive ==
  ASSUME AdvertisedOnce
  PROVE  Spec => []RulesAreAlive
<1>1. Init => GatewayInv /\ RulesInv BY GatewayInitial, RulesInitial
<1>2. (GatewayInv /\ RulesInv) /\ [Next]_vars => (GatewayInv /\ RulesInv)' BY GatewaySteps, RulesStep
<1>3. GatewayInv /\ RulesInv => RulesAreAlive BY OwnedAreAlive
<1> QED BY <1>1, <1>2, <1>3, PTL DEF Spec
=============================================================================
