-------------------------- MODULE MapParts_proofs ---------------------------
(***************************************************************************)
(* Parts of a map and of the server that have a state of their own, each   *)
(* for any values of its constants.                                        *)
(* First: the allocation tables, the stacks of the creators and their      *)
(* limits agree, for any users, hosts and map files.                       *)
(* Second: answers reach the client who asked through the TCP reverse      *)
(* proxy, if each server stands behind one public port.                    *)
(* Third: the state machine of a link leaves a state by the timer of this  *)
(* visit, whatever delays it draws.                                        *)
(* Fourth: a tracker keeps a peer as long as it announces itself.          *)
(* Fifth: a part of the server is made after, and deleted before, the      *)
(* parts it uses, and no handle of libpcap is left open or closed twice.   *)
(* Sixth: who signs in gets the same verdict in whatever pieces the bytes  *)
(* arrive.                                                                 *)
(* Seventh: a pinger measures its own pings, whatever became of them.      *)
(***************************************************************************)
EXTENDS MapInstances, TcpReverseProxy, LinkFsm, BitTorrentTracker,
        ServerProcess, SignIn, Pingers, EventScheduler_proofs, SequenceTheorems

-----------------------------------------------------------------------------
(* The inductive invariant. *)

Instance == [file : MapFile, creator : User, index : Int]

\* The instances that have a handle
Held == Live \cup settingUp

InstancesTyped ==
  /\ instance \in Seq(Instance)
  /\ allocationTable \in [MapFile -> SUBSET Int]
  /\ maps \in [MapFile -> [User -> Seq(Nat)]]
  /\ settingUp \subseteq DOMAIN instance
  /\ \A m, n \in settingUp : m = n

\* A stack has instances of its file and creator, each once, that are set up.
StackOf(f, u) ==
  /\ \A k \in 1 .. Len(maps[f][u]) :
       LET m == maps[f][u][k]
       IN /\ m \in DOMAIN instance \ settingUp
          /\ instance[m].file = f /\ instance[m].creator = u
  /\ \A j, k \in 1 .. Len(maps[f][u]) : maps[f][u][j] = maps[f][u][k] => j = k

Stacked == \A f \in MapFile, u \in User : StackOf(f, u)

\* The taken handles are those of the instances that are held, each by one of them.
HandlesOf(f) == {instance[m].index : m \in Handles(f, Held)}
HandlesTaken == \A f \in MapFile : allocationTable[f] = HandlesOf(f)
OneForEach ==
  \A m, n \in Held :
    instance[m].file = instance[n].file /\ instance[m].index = instance[n].index => m = n

\* The limit leaves room for the instance that is being set up.
WithinLimits ==
  /\ \A f \in MapFile, u \in User : maps[f][u] # <<>> => Len(maps[f][u]) <= MaxIpu(f)
  /\ \A m \in settingUp :
       Len(maps[instance[m].file][instance[m].creator]) < MaxIpu(instance[m].file)

InstancesInv == InstancesTyped /\ Stacked /\ HandlesTaken /\ OneForEach /\ WithinLimits
-----------------------------------------------------------------------------
(* Stacks. *)

\* The instances in some stacks, an expression that can be primed
InStacks(s) == {m \in Nat : \E f \in MapFile, u \in User : \E k \in 1 .. Len(s[f][u]) : m = s[f][u][k]}

\* An instance lives if it is in a stack.
LEMMA LiveInStacks ==
  ASSUME NEW s \in [MapFile -> [User -> Seq(Nat)]]
  PROVE  UNION {Range(s[f][u]) : f \in MapFile, u \in User} = InStacks(s)
<1> DEFINE Stacks == {Range(s[f][u]) : f \in MapFile, u \in User}
<1>1. \A f \in MapFile, u \in User : Range(s[f][u]) = {s[f][u][k] : k \in 1 .. Len(s[f][u])}
  <2> SUFFICES ASSUME NEW f \in MapFile, NEW u \in User
               PROVE  Range(s[f][u]) = {s[f][u][k] : k \in 1 .. Len(s[f][u])}
    OBVIOUS
  <2>1. DOMAIN s[f][u] = 1 .. Len(s[f][u]) OBVIOUS
  <2> QED BY <2>1 DEF Range
<1>2. ASSUME NEW m
      PROVE  (\E S \in Stacks : m \in S) <=> m \in InStacks(s)
  <2>1. (\E S \in Stacks : m \in S) <=> \E f \in MapFile, u \in User : m \in Range(s[f][u])
    OBVIOUS
  <2>2. \A f \in MapFile, u \in User : \A k \in 1 .. Len(s[f][u]) : s[f][u][k] \in Nat OBVIOUS
  <2>3. \A f \in MapFile, u \in User :
          m \in Range(s[f][u]) <=> \E k \in 1 .. Len(s[f][u]) : m = s[f][u][k]
    BY <1>1
  <2>4. m \in InStacks(s) <=> \E f \in MapFile, u \in User : \E k \in 1 .. Len(s[f][u]) :
                                m \in Nat /\ m = s[f][u][k]
    BY DEF InStacks
  <2> HIDE DEF Stacks
  <2> QED BY <2>1, <2>2, <2>3, <2>4
<1> QED BY <1>2

\* The live instances of this state and of the next
LEMMA LiveNow ==
  ASSUME maps \in [MapFile -> [User -> Seq(Nat)]]
  PROVE  Live = InStacks(maps)
BY LiveInStacks DEF Live

\* The instances that are alive after a step are those in the stacks of maps after it.
LEMMA LiveNext ==
  ASSUME maps' \in [MapFile -> [User -> Seq(Nat)]]
  PROVE  Live' = InStacks(maps')
BY LiveInStacks DEF Live

\* What lives is in the stack of its file and creator.
LEMMA LiveInItsStack ==
  ASSUME InstancesTyped, Stacked, NEW m \in Live
  PROVE  /\ m \in DOMAIN instance \ settingUp
         /\ instance[m].file \in MapFile /\ instance[m].creator \in User
         /\ \E k \in 1 .. Len(maps[instance[m].file][instance[m].creator]) :
              m = maps[instance[m].file][instance[m].creator][k]
<1>1. PICK f \in MapFile, u \in User : \E k \in 1 .. Len(maps[f][u]) : m = maps[f][u][k]
  BY LiveNow DEF InstancesTyped, InStacks
<1>2. instance[m].file = f /\ instance[m].creator = u /\ m \in DOMAIN instance \ settingUp
  BY <1>1 DEF Stacked, StackOf
<1> QED BY <1>1, <1>2

\* What is held is an instance.
LEMMA HeldTyped ==
  ASSUME InstancesTyped, Stacked
  PROVE  Held \subseteq DOMAIN instance
BY LiveInItsStack DEF Held, InstancesTyped

\* A sequence without its last element
LEMMA FrontOf ==
  ASSUME NEW s \in Seq(Nat), s # <<>>
  PROVE  /\ Front(s) \in Seq(Nat) /\ Len(Front(s)) = Len(s) - 1 /\ Len(s) \in Nat \ {0}
         /\ \A k \in 1 .. Len(s) - 1 : Front(s)[k] = s[k]
<1>1. Len(s) \in Nat \ {0} /\ \A k \in 1 .. Len(s) : s[k] \in Nat OBVIOUS
<1>2. \A i \in 1 .. Len(s) - 1 : s[i] \in Nat BY <1>1
<1>3. Len(s) - 1 \in Int BY <1>1
<1>4. Front(s) \in Seq(Nat) BY <1>2, <1>3, SubSeqProperties DEF Front
<1>5. \A i \in 1 .. Len(s) - 1 - 1 + 1 : Front(s)[i] = s[1 + i - 1]
  BY <1>2, <1>3, SubSeqProperties DEF Front
<1>6. Len(Front(s)) = Len(s) - 1
  <2>1. Len(Front(s)) = IF 1 <= Len(s) - 1 THEN Len(s) - 1 - 1 + 1 ELSE 0
    BY <1>2, <1>3, SubSeqProperties DEF Front
  <2>2. \A n \in Nat \ {0} : (IF 1 <= n - 1 THEN n - 1 - 1 + 1 ELSE 0) = n - 1 OBVIOUS
  <2> QED BY <1>1, <2>1, <2>2
<1>7. ASSUME NEW k \in 1 .. Len(s) - 1
      PROVE  Front(s)[k] = s[k]
  <2>1. k \in 1 .. Len(s) - 1 - 1 + 1 /\ 1 + k - 1 = k BY <1>1
  <2> QED BY <1>5, <2>1
<1> QED BY <1>1, <1>4, <1>6, <1>7

\* The limit of a file is a number.
LEMMA LimitTyped ==
  ASSUME NEW f \in MapFile
  PROVE  MaxIpu(f) \in Int
<1>1. CASE Said(f, "maxIpu") = {} BY <1>1 DEF MaxIpu
<1>2. CASE Said(f, "maxIpu") # {}
  <2>1. PICK n \in Said(f, "maxIpu") : TRUE BY <1>2
  <2>2. \A m \in Said(f, "maxIpu") : m \in Int /\ m = n
    BY <2>1, AuthorizationAssumption DEF Said
  <2>3. Max(Said(f, "maxIpu")) = n BY <2>1, <2>2 DEF Max
  <2> QED BY <1>2, <2>1, <2>2, <2>3 DEF MaxIpu
<1> QED BY <1>1, <1>2
-----------------------------------------------------------------------------
(* The steps. *)

\* The handle of an instance that is held no more is free.
LEMMA HandleGivenBack ==
  ASSUME InstancesInv, NEW m \in Held, UNCHANGED instance,
         allocationTable' = HandleFreed(m), Held' = Held \ {m}
  PROVE  HandlesTaken' /\ OneForEach' /\ allocationTable' \in [MapFile -> SUBSET Int]
<1>1. OneForEach' BY DEF InstancesInv, OneForEach
<1>2. m \in DOMAIN instance /\ instance[m] \in Instance
  BY HeldTyped DEF InstancesInv, InstancesTyped
<1>3. ASSUME NEW f \in MapFile
      PROVE  allocationTable'[f] = HandlesOf(f)'
  <2>1. HandlesOf(f)' = {instance[n].index : n \in Handles(f, Held \ {m})}
    BY DEF HandlesOf, Handles
  <2>2. CASE f = instance[m].file
    <3>1. allocationTable'[f] = {instance[n].index : n \in Handles(f, Held)} \ {instance[m].index}
      BY <2>2 DEF HandleFreed, InstancesInv, InstancesTyped, HandlesTaken, HandlesOf
    <3>2. \A n \in Handles(f, Held) : instance[n].index = instance[m].index => n = m
      BY <2>2 DEF InstancesInv, OneForEach, Handles
    <3>3. Handles(f, Held \ {m}) = Handles(f, Held) \ {m} BY DEF Handles
    <3> QED BY <2>1, <3>1, <3>2, <3>3
  <2>3. CASE f # instance[m].file
    <3>1. allocationTable'[f] = HandlesOf(f)
      BY <2>3 DEF HandleFreed, InstancesInv, InstancesTyped, HandlesTaken
    <3>2. Handles(f, Held \ {m}) = Handles(f, Held) BY <2>3 DEF Handles
    <3> QED BY <2>1, <3>1, <3>2 DEF HandlesOf
  <2> QED BY <2>2, <2>3
<1>4. allocationTable' \in [MapFile -> SUBSET Int]
  BY <1>2 DEF HandleFreed, InstancesInv, InstancesTyped, Instance
<1> QED BY <1>1, <1>3, <1>4 DEF HandlesTaken

\* The invariant is about these variables only.
LEMMA InstancesSame ==
  ASSUME InstancesInv, UNCHANGED <<allocationTable, maps, instance, settingUp>>
  PROVE  InstancesInv'
<1>1. InstancesTyped' BY DEF InstancesInv, InstancesTyped
<1>2. Stacked' BY DEF InstancesInv, Stacked, StackOf
<1>3. Held' = Held BY DEF Held, Live
<1>4. HandlesTaken' BY <1>3 DEF InstancesInv, HandlesTaken, HandlesOf, Handles
<1>5. OneForEach' BY <1>3 DEF InstancesInv, OneForEach
<1>6. WithinLimits' BY DEF InstancesInv, WithinLimits
<1> QED BY <1>1, <1>2, <1>4, <1>5, <1>6 DEF InstancesInv

\* releaseResource gives the handle of the top of a stack back, and of nothing else.
LEMMA Released ==
  ASSUME InstancesInv, NEW m \in Live, ReleaseResource(m), UNCHANGED <<instance, settingUp>>
  PROVE  InstancesInv'
<1> DEFINE f == instance[m].file
           c == instance[m].creator
           s == maps[f][c]
<1>1. /\ m \in DOMAIN instance \ settingUp /\ f \in MapFile /\ c \in User
      /\ \E k \in 1 .. Len(s) : m = s[k]
  BY LiveInItsStack DEF InstancesInv
<1>2. s \in Seq(Nat) BY <1>1 DEF InstancesInv, InstancesTyped
<1>3. CASE ~(s # <<>> /\ Last(s) = m)
  <2>1. UNCHANGED <<maps, allocationTable>> BY <1>3 DEF ReleaseResource
  <2> QED BY <2>1, InstancesSame
<1>4. CASE s # <<>> /\ Last(s) = m
  <2>1. maps' = [maps EXCEPT ![f][c] = Front(@)] /\ allocationTable' = HandleFreed(m)
    BY <1>4 DEF ReleaseResource
  <2>2. /\ Front(s) \in Seq(Nat) /\ Len(Front(s)) = Len(s) - 1 /\ Len(s) \in Nat \ {0}
        /\ \A k \in 1 .. Len(s) - 1 : Front(s)[k] = s[k]
        /\ m = s[Len(s)]
    BY <1>2, <1>4, FrontOf DEF Last
  <2>3. /\ maps'[f][c] = Front(s)
        /\ \A g \in MapFile, u \in User : g # f \/ u # c => maps'[g][u] = maps[g][u]
        /\ maps' \in [MapFile -> [User -> Seq(Nat)]]
    BY <1>1, <2>1, <2>2 DEF InstancesInv, InstancesTyped
  <2> HIDE DEF f, c, s
  <2>4. Stacked'
    <3> SUFFICES ASSUME NEW g \in MapFile, NEW u \in User PROVE StackOf(g, u)'
      BY DEF Stacked
    <3>1. StackOf(g, u) BY DEF InstancesInv, Stacked
    <3>2. CASE g = f /\ u = c
      <4>1. \A k \in 1 .. Len(maps'[g][u]) : maps'[g][u][k] = maps[g][u][k] /\ k \in 1 .. Len(maps[g][u])
        BY <2>2, <2>3, <3>2 DEF s
      <4> QED BY <3>1, <4>1 DEF StackOf
    <3>3. CASE g # f \/ u # c
      BY <2>3, <3>1, <3>3 DEF StackOf
    <3> QED BY <3>2, <3>3
  <2>5. Live' = Live \ {m}
    <3>1. Live = InStacks(maps) /\ Live' = InStacks(maps')
      BY <2>3, LiveNow, LiveNext DEF InstancesInv, InstancesTyped
    <3>2. ASSUME NEW n \in Live' PROVE n \in Live /\ n # m
      <4>0. PICK g \in MapFile, u \in User : \E k \in 1 .. Len(maps'[g][u]) : n = maps'[g][u][k]
        BY <3>1, <3>2 DEF InStacks
      <4>1. PICK k \in 1 .. Len(maps'[g][u]) : n = maps'[g][u][k] BY <4>0
      <4>2. CASE g = f /\ u = c
        <5>1. k \in 1 .. Len(s) - 1 /\ n = s[k] /\ n \in Nat BY <1>2, <2>2, <2>3, <4>1, <4>2
        <5>2. n # m BY <1>1, <2>2, <5>1 DEF InstancesInv, Stacked, StackOf, s
        <5>3. k \in 1 .. Len(s) BY <2>2, <5>1
        <5> QED BY <1>1, <3>1, <5>1, <5>2, <5>3 DEF InStacks, s
      <4>3. CASE g # f \/ u # c
        <5>1. k \in 1 .. Len(maps[g][u]) /\ n = maps[g][u][k] BY <2>3, <4>1, <4>3
        <5>2. instance[n].file = g /\ instance[n].creator = u
          BY <5>1 DEF InstancesInv, Stacked, StackOf
        <5>3. n \in Nat BY <5>1 DEF InstancesInv, InstancesTyped
        <5> QED BY <3>1, <4>3, <5>1, <5>2, <5>3 DEF InStacks, f, c
      <4> QED BY <4>2, <4>3
    <3>3. ASSUME NEW n \in Live, n # m PROVE n \in Live'
      <4>0. PICK g \in MapFile, u \in User : \E k \in 1 .. Len(maps[g][u]) : n = maps[g][u][k]
        BY <3>1, <3>3 DEF InStacks
      <4>1. PICK k \in 1 .. Len(maps[g][u]) : n = maps[g][u][k] BY <4>0
      <4>2. CASE g = f /\ u = c
        <5>1. k \in 1 .. Len(s) - 1 BY <2>2, <3>3, <4>1, <4>2 DEF s
        <5>2. maps'[f][c][k] = n /\ k \in 1 .. Len(maps'[f][c])
          BY <2>2, <2>3, <4>1, <4>2, <5>1 DEF s
        <5>3. n \in Nat BY <4>1 DEF InstancesInv, InstancesTyped
        <5> QED BY <1>1, <3>1, <5>2, <5>3 DEF InStacks
      <4>3. CASE g # f \/ u # c
        <5>1. n \in Nat BY <4>1 DEF InstancesInv, InstancesTyped
        <5> QED BY <2>3, <3>1, <4>1, <4>3, <5>1 DEF InStacks
      <4> QED BY <4>2, <4>3
    <3> QED BY <3>2, <3>3
  <2>6. Held' = Held \ {m} BY <1>1, <2>5 DEF Held
  <2>7. HandlesTaken' /\ OneForEach' /\ allocationTable' \in [MapFile -> SUBSET Int]
    BY <2>1, <2>6, HandleGivenBack DEF Held
  <2>8. InstancesTyped' BY <2>3, <2>7 DEF InstancesInv, InstancesTyped
  <2>9. WithinLimits'
    <3>1. \A g \in MapFile, u \in User : Len(maps'[g][u]) <= Len(maps[g][u])
      <4> SUFFICES ASSUME NEW g \in MapFile, NEW u \in User
                   PROVE  Len(maps'[g][u]) <= Len(maps[g][u])
        OBVIOUS
      <4>1. CASE g = f /\ u = c BY <2>2, <2>3, <4>1 DEF s
      <4>2. CASE g # f \/ u # c
        <5>1. maps[g][u] \in Seq(Nat) BY DEF InstancesInv, InstancesTyped
        <5> QED BY <2>3, <4>2, <5>1
      <4> QED BY <4>1, <4>2
    <3>2. \A g \in MapFile, u \in User : maps'[g][u] # <<>> => maps[g][u] # <<>>
      BY <1>4, <2>3 DEF s
    <3>3. \A n \in settingUp : instance[n].file \in MapFile /\ instance[n].creator \in User
      <4>1. \A n \in DOMAIN instance : instance[n] \in Instance BY DEF InstancesInv, InstancesTyped
      <4> QED BY <4>1 DEF InstancesInv, InstancesTyped, Instance
    <3>4. \A g \in MapFile, u \in User : Len(maps[g][u]) \in Int /\ Len(maps'[g][u]) \in Int
      BY <2>3 DEF InstancesInv, InstancesTyped
    <3> QED BY <3>1, <3>2, <3>3, <3>4, LimitTyped DEF InstancesInv, WithinLimits
  <2> QED BY <2>4, <2>7, <2>8, <2>9 DEF InstancesInv
<1> QED BY <1>3, <1>4

\* A new instance holds a handle that was free.
LEMMA InstantiateKeeps ==
  ASSUME InstancesInv, NEW f \in MapFile, NEW user \in User, NEW host, Instantiate(f, user, host)
  PROVE  InstancesInv'
<1> DEFINE new == Len(instance) + 1
<1>1. settingUp = {} BY DEF Instantiate, Managing
<1>2. PICK index \in FirstFreeHandle(f) :
        /\ allocationTable' = [allocationTable EXCEPT ![f] = @ \cup {index}]
        /\ instance' = Append(instance, [file |-> f, creator |-> user, index |-> index])
  BY DEF Instantiate
<1>3. index \in Int \ allocationTable[f] BY DEF FirstFreeHandle
<1>4. /\ DOMAIN instance' = DOMAIN instance \cup {new} /\ new \notin DOMAIN instance
      /\ \A n \in DOMAIN instance : instance'[n] = instance[n]
      /\ instance'[new] = [file |-> f, creator |-> user, index |-> index]
      /\ instance' \in Seq(Instance)
  <2> DEFINE added == [file |-> f, creator |-> user, index |-> index]
  <2>1. instance \in Seq(Instance) /\ added \in Instance
    BY <1>3 DEF InstancesInv, InstancesTyped, Instance
  <2>2. instance' = Append(instance, added) BY <1>2
  <2> HIDE DEF added
  <2>3. /\ DOMAIN instance = 1 .. Len(instance) /\ Len(instance) \in Nat
        /\ instance' \in Seq(Instance) /\ Len(instance') = Len(instance) + 1
        /\ \A n \in 1 .. Len(instance) : instance'[n] = instance[n]
        /\ instance'[Len(instance) + 1] = added
    BY <2>1, <2>2, AppendProperties
  <2>4. DOMAIN instance' = 1 .. Len(instance) + 1 BY <2>3
  <2>5. 1 .. Len(instance) + 1 = (1 .. Len(instance)) \cup {new} /\ new \notin 1 .. Len(instance)
    BY <2>3
  <2> QED BY <2>3, <2>4, <2>5 DEF added
<1>5. settingUp' = {new} /\ UNCHANGED maps BY DEF Instantiate
<1> HIDE DEF new
<1>6. Held \subseteq DOMAIN instance BY HeldTyped DEF InstancesInv
<1>7. Held' = Held \cup {new} BY <1>1, <1>5 DEF Held, Live
<1>8. InstancesTyped'
  <2>1. allocationTable' \in [MapFile -> SUBSET Int]
    BY <1>2, <1>3 DEF InstancesInv, InstancesTyped
  <2> QED BY <1>4, <1>5, <2>1 DEF InstancesInv, InstancesTyped
<1>9. Stacked'
  <2> SUFFICES ASSUME NEW g \in MapFile, NEW u \in User PROVE StackOf(g, u)'
    BY DEF Stacked
  <2>1. StackOf(g, u) BY DEF InstancesInv, Stacked
  <2> QED BY <1>1, <1>4, <1>5, <2>1 DEF StackOf
<1>10. HandlesTaken'
  <2> SUFFICES ASSUME NEW g \in MapFile PROVE allocationTable'[g] = HandlesOf(g)'
    BY DEF HandlesTaken
  <2>1. allocationTable[g] = {instance[m].index : m \in Handles(g, Held)}
    BY DEF InstancesInv, HandlesTaken, HandlesOf
  <2>2. HandlesOf(g)' = {instance'[m].index : m \in Handles(g, Held)'} BY DEF HandlesOf
  <2>3. CASE g = f
    <3>1. Handles(g, Held)' = Handles(g, Held) \cup {new} BY <1>4, <1>6, <1>7, <2>3 DEF Handles
    <3>2. \A m \in Handles(g, Held) : instance'[m] = instance[m] BY <1>4, <1>6 DEF Handles
    <3>3. allocationTable'[g] = allocationTable[g] \cup {index}
      BY <1>2, <2>3 DEF InstancesInv, InstancesTyped
    <3> QED BY <1>4, <2>1, <2>2, <3>1, <3>2, <3>3
  <2>4. CASE g # f
    <3>1. Handles(g, Held)' = Handles(g, Held) BY <1>4, <1>6, <1>7, <2>4 DEF Handles
    <3>2. \A m \in Handles(g, Held) : instance'[m] = instance[m] BY <1>4, <1>6 DEF Handles
    <3>3. allocationTable'[g] = allocationTable[g]
      BY <1>2, <2>4 DEF InstancesInv, InstancesTyped
    <3> QED BY <2>1, <2>2, <3>1, <3>2, <3>3
  <2> QED BY <2>3, <2>4
<1>11. OneForEach'
  <2>1. \A m \in Held : instance[m].file = f => instance[m].index # index
    BY <1>3 DEF InstancesInv, HandlesTaken, HandlesOf, Handles
  <2> QED BY <1>4, <1>6, <1>7, <2>1 DEF InstancesInv, OneForEach
<1>12. WithinLimits'
  <2>1. Len(maps[f][user]) < MaxIpu(f) BY DEF Instantiate, CanInstantiateANewMap
  <2>2. \A n \in settingUp' : instance'[n].file = f /\ instance'[n].creator = user BY <1>4, <1>5
  <2>3. \A g \in MapFile, u \in User : maps'[g][u] # <<>> => Len(maps'[g][u]) <= MaxIpu(g)
    BY <1>5 DEF InstancesInv, WithinLimits
  <2>4. \A n \in settingUp' :
          Len(maps'[instance'[n].file][instance'[n].creator]) < MaxIpu(instance'[n].file)
    BY <1>5, <2>1, <2>2
  <2> QED BY <2>3, <2>4 DEF WithinLimits, MaxIpu, Said
<1> QED BY <1>8, <1>9, <1>10, <1>11, <1>12 DEF InstancesInv

\* A stack that gets one more instance keeps the others where they are.
LEMMA OneOnTop ==
  ASSUME NEW s \in Seq(Nat), NEW m \in Nat
  PROVE  /\ Len(Append(s, m)) = Len(s) + 1 /\ Len(s) \in Nat
         /\ \A k \in 1..Len(s) : Append(s, m)[k] = s[k]
         /\ Append(s, m)[Len(s) + 1] = m
  OBVIOUS

\* The instance goes from the setup to the stack, with its handle.
LEMMA SetUpKeeps ==
  ASSUME InstancesInv, SetUp
  PROVE  InstancesInv'
<1>1. PICK m \in settingUp :
        maps' = [maps EXCEPT ![instance[m].file][instance[m].creator] = Append(@, m)]
  BY DEF SetUp
<1> DEFINE f == instance[m].file
           c == instance[m].creator
           s == maps[f][c]
<1>2. settingUp = {m} /\ settingUp' = {} /\ UNCHANGED <<allocationTable, instance>>
  BY DEF SetUp, InstancesInv, InstancesTyped
<1>3. m \in DOMAIN instance /\ m \in Nat /\ instance[m] \in Instance
  BY DEF InstancesInv, InstancesTyped
<1>4. f \in MapFile /\ c \in User BY <1>3 DEF Instance
<1>5. s \in Seq(Nat) BY <1>4 DEF InstancesInv, InstancesTyped
<1>6. /\ maps' \in [MapFile -> [User -> Seq(Nat)]]
      /\ maps'[f][c] = Append(s, m)
      /\ \A g \in MapFile, u \in User : g # f \/ u # c => maps'[g][u] = maps[g][u]
  BY <1>1, <1>3, <1>4, <1>5 DEF InstancesInv, InstancesTyped
<1>7. /\ Len(Append(s, m)) = Len(s) + 1 /\ Len(s) \in Nat
      /\ \A k \in 1 .. Len(s) : Append(s, m)[k] = s[k]
      /\ Append(s, m)[Len(s) + 1] = m
  BY <1>3, <1>5, OneOnTop
<1>8. StackOf(f, c) BY <1>4 DEF InstancesInv, Stacked
<1>9. Len(s) < MaxIpu(f) BY DEF InstancesInv, WithinLimits
<1> HIDE DEF f, c
<1>10. InstancesTyped' BY <1>2, <1>6 DEF InstancesInv, InstancesTyped
<1>11. \A k \in 1 .. Len(s) : s[k] # m BY <1>8 DEF StackOf
<1>12. Stacked'
  <2> SUFFICES ASSUME NEW g \in MapFile, NEW u \in User PROVE StackOf(g, u)'
    BY DEF Stacked
  <2>1. CASE g = f /\ u = c
    <3>1. maps'[g][u] = Append(s, m) BY <1>6, <2>1
    <3>2. ASSUME NEW k \in 1 .. Len(s) + 1
          PROVE  /\ Append(s, m)[k] \in DOMAIN instance
                 /\ instance[Append(s, m)[k]].file = f /\ instance[Append(s, m)[k]].creator = c
      <4>1. CASE k = Len(s) + 1 BY <1>3, <1>7, <4>1 DEF f, c
      <4>2. CASE k \in 1 .. Len(s) BY <1>7, <1>8, <4>2 DEF StackOf
      <4> QED BY <1>7, <4>1, <4>2
    <3>3. ASSUME NEW j \in 1 .. Len(s) + 1, NEW k \in 1 .. Len(s) + 1,
                 Append(s, m)[j] = Append(s, m)[k]
          PROVE  j = k
      <4>1. CASE j \in 1 .. Len(s) /\ k \in 1 .. Len(s) BY <1>7, <1>8, <3>3, <4>1 DEF StackOf
      <4>2. CASE j = Len(s) + 1 \/ k = Len(s) + 1 BY <1>7, <1>11, <3>3, <4>2
      <4>3. \A i \in 1 .. Len(s) + 1 : i \in 1 .. Len(s) \/ i = Len(s) + 1 BY <1>7
      <4> QED BY <4>1, <4>2, <4>3
    <3> HIDE DEF s
    <3> QED BY <1>2, <1>7, <2>1, <3>1, <3>2, <3>3 DEF StackOf
  <2>2. CASE g # f \/ u # c
    <3>1. StackOf(g, u) BY DEF InstancesInv, Stacked
    <3> QED BY <1>2, <1>6, <2>2, <3>1 DEF StackOf
  <2> QED BY <2>1, <2>2
<1>13. Held' = Held
  <2>1. Live = InStacks(maps) /\ Live' = InStacks(maps')
    BY <1>6, LiveNow, LiveNext DEF InstancesInv, InstancesTyped
  <2>2. ASSUME NEW n \in Live' PROVE n \in Live \cup {m}
    <3>1. PICK g \in MapFile, u \in User : \E k \in 1 .. Len(maps'[g][u]) : n = maps'[g][u][k]
      BY <2>1, <2>2 DEF InStacks
    <3>2. PICK k \in 1 .. Len(maps'[g][u]) : n = maps'[g][u][k] BY <3>1
    <3>3. n \in Nat BY <2>1, <2>2 DEF InStacks
    <3>4. CASE g = f /\ u = c
      <4>1. k \in 1 .. Len(s) \/ k = Len(s) + 1 BY <1>6, <1>7, <3>2, <3>4
      <4>2. k \in 1 .. Len(s) => n = s[k] BY <1>6, <1>7, <3>2, <3>4
      <4>3. k = Len(s) + 1 => n = m BY <1>6, <1>7, <3>2, <3>4
      <4> QED BY <1>4, <2>1, <3>3, <3>4, <4>1, <4>2, <4>3 DEF InStacks
    <3>5. CASE g # f \/ u # c BY <1>6, <2>1, <3>2, <3>3, <3>5 DEF InStacks
    <3> QED BY <3>4, <3>5
  <2>3. ASSUME NEW n \in Live PROVE n \in Live'
    <3>1. PICK g \in MapFile, u \in User : \E k \in 1 .. Len(maps[g][u]) : n = maps[g][u][k]
      BY <2>1, <2>3 DEF InStacks
    <3>2. PICK k \in 1 .. Len(maps[g][u]) : n = maps[g][u][k] BY <3>1
    <3>3. n \in Nat BY <2>1, <2>3 DEF InStacks
    <3>4. k \in 1 .. Len(maps'[g][u]) /\ n = maps'[g][u][k]
      <4>1. CASE g = f /\ u = c BY <1>6, <1>7, <3>2, <4>1
      <4>2. CASE g # f \/ u # c BY <1>6, <3>2, <4>2
      <4> QED BY <4>1, <4>2
    <3> QED BY <2>1, <3>3, <3>4 DEF InStacks
  <2>4. m \in Live'
    <3>1. Len(s) + 1 \in 1 .. Len(maps'[f][c]) /\ maps'[f][c][Len(s) + 1] = m BY <1>6, <1>7
    <3> QED BY <1>3, <1>4, <2>1, <3>1 DEF InStacks, f, c
  <2> QED BY <1>2, <2>2, <2>3, <2>4 DEF Held
<1>14. HandlesTaken' BY <1>2, <1>13 DEF InstancesInv, HandlesTaken, HandlesOf, Handles
<1>15. OneForEach' BY <1>2, <1>13 DEF InstancesInv, OneForEach
<1>16. WithinLimits'
  <2> SUFFICES ASSUME NEW g \in MapFile, NEW u \in User, maps'[g][u] # <<>>
               PROVE  Len(maps'[g][u]) <= MaxIpu(g)
    BY <1>2 DEF WithinLimits, MaxIpu, Said
  <2>1. CASE g = f /\ u = c
    <3>1. Len(maps'[g][u]) = Len(s) + 1 BY <1>6, <1>7, <2>1
    <3> HIDE DEF s
    <3> QED BY <1>7, <1>9, <2>1, <3>1, LimitTyped
  <2>2. CASE g # f \/ u # c BY <1>6, <2>2 DEF InstancesInv, WithinLimits
  <2> QED BY <2>1, <2>2
<1> QED BY <1>10, <1>12, <1>14, <1>15, <1>16 DEF InstancesInv

\* A setup that fails gives its handle back.
LEMMA SetUpFailedKeeps ==
  ASSUME InstancesInv, SetUpFailed
  PROVE  InstancesInv'
<1>1. PICK m \in settingUp : allocationTable' = HandleFreed(m) BY DEF SetUpFailed
<1>2. settingUp = {m} /\ settingUp' = {} /\ UNCHANGED <<maps, instance>>
  BY DEF SetUpFailed, InstancesInv, InstancesTyped
<1>3. Held' = Held \ {m} BY <1>2, LiveInItsStack DEF Held, Live, InstancesInv
<1>4. HandlesTaken' /\ OneForEach' /\ allocationTable' \in [MapFile -> SUBSET Int]
  BY <1>1, <1>2, <1>3, HandleGivenBack DEF Held
<1>5. InstancesTyped' BY <1>2, <1>4 DEF InstancesInv, InstancesTyped
<1>6. Stacked' BY <1>2 DEF InstancesInv, Stacked, StackOf
<1>7. WithinLimits' BY <1>2 DEF InstancesInv, WithinLimits, MaxIpu, Said
<1> QED BY <1>4, <1>5, <1>6, <1>7 DEF InstancesInv

\* finalizeMap takes the top of the stack.
LEMMA DeleteKeeps ==
  ASSUME InstancesInv, NEW f \in MapFile, NEW user \in User, NEW creator \in User, NEW host,
         Delete(f, user, creator, host)
  PROVE  InstancesInv'
<1> DEFINE s == maps[f][creator]
<1>1. s \in Seq(Nat) /\ s # <<>> BY DEF InstancesInv, InstancesTyped, Delete, Retrievable
<1>2. Len(s) \in 1 .. Len(s) /\ s[Len(s)] \in Nat BY <1>1
<1>3. Last(s) \in Live
  <2>1. Live = InStacks(maps) BY LiveNow DEF InstancesInv, InstancesTyped
  <2> QED BY <1>2, <2>1 DEF InStacks, Last
<1>4. ReleaseResource(Last(s)) /\ UNCHANGED <<instance, settingUp>> BY DEF Delete
<1> HIDE DEF s
<1> QED BY <1>3, <1>4, Released
-----------------------------------------------------------------------------
\* Before the first instance the stacks are within their invariant.
LEMMA InstancesInitial ==
  ASSUME InstancesInit
  PROVE  InstancesInv
<1>1. InstancesTyped BY DEF InstancesInit, InstancesTyped
<1>2. \A f \in MapFile, u \in User : maps[f][u] = <<>> BY DEF InstancesInit
<1>3. Stacked BY <1>2 DEF Stacked, StackOf
<1>4. Held = {}
  <2>1. Live = InStacks(maps) BY <1>1, LiveNow DEF InstancesTyped
  <2>2. InStacks(maps) = {} BY <1>2 DEF InStacks
  <2> QED BY <2>1, <2>2 DEF Held, InstancesInit
<1>5. HandlesTaken BY <1>4 DEF HandlesTaken, HandlesOf, Handles, InstancesInit
<1>6. OneForEach BY <1>4 DEF OneForEach
<1>7. WithinLimits BY <1>2 DEF WithinLimits, InstancesInit
<1> QED BY <1>1, <1>3, <1>5, <1>6, <1>7 DEF InstancesInv

\* Every step keeps the invariant of the stacks of instances.
LEMMA InstancesStep ==
  ASSUME InstancesInv, [InstancesNext]_instanceVars
  PROVE  InstancesInv'
<1>1. CASE UNCHANGED instanceVars BY <1>1, InstancesSame DEF instanceVars
<1>2. ASSUME NEW f \in MapFile, NEW user \in User, NEW host \in Host, Instantiate(f, user, host)
      PROVE  InstancesInv'
  BY <1>2, InstantiateKeeps
<1>3. ASSUME NEW f \in MapFile, NEW user \in User, NEW host \in Host, NEW creator \in User,
             Delete(f, user, creator, host)
      PROVE  InstancesInv'
  BY <1>3, DeleteKeeps
<1>4. ASSUME NEW f \in MapFile, NEW user \in User, NEW host \in Host, NEW creator \in User,
             Retrieve(f, user, creator, host) \/ Refuse(f, user, creator, host)
      PROVE  InstancesInv'
  BY <1>4, InstancesSame DEF Retrieve, Refuse
<1>5. CASE SetUp BY <1>5, SetUpKeeps
<1>6. CASE SetUpFailed BY <1>6, SetUpFailedKeeps
<1>7. CASE Ended \/ Destroy BY <1>7, InstancesSame DEF Ended, Destroy
<1>8. CASE PrivilegedFinalize
  <2>1. PICK m \in Live : ReleaseResource(m) /\ UNCHANGED <<instance, settingUp>>
    BY <1>8 DEF PrivilegedFinalize
  <2> QED BY <2>1, Released
<1> QED BY <1>1, <1>2, <1>3, <1>4, <1>5, <1>6, <1>7, <1>8 DEF InstancesNext

\* One handle for each instance: as many handles as instances.
LEMMA InvariantAgrees ==
  ASSUME InstancesInv
  PROVE  AllocationAgrees
<1> SUFFICES ASSUME NEW f \in MapFile
             PROVE  /\ allocationTable[f] = HandlesOf(f)
                    /\ Cardinality(allocationTable[f]) = Cardinality(Handles(f, Held))
                    /\ \A u \in User : \A m \in Range(maps[f][u]) :
                         instance[m].creator = u /\ Len(maps[f][u]) <= MaxIpu(f)
  BY DEF AllocationAgrees, HandlesOf, Held
<1>1. allocationTable[f] = HandlesOf(f) BY DEF InstancesInv, HandlesTaken
<1>2. Cardinality(HandlesOf(f)) = Cardinality(Handles(f, Held))
  <2> DEFINE S == Handles(f, Held)
             b == [m \in S |-> instance[m].index]
  <2>1. IsFiniteSet(S)
    <3>1. S \subseteq 1 .. Len(instance) BY HeldTyped DEF InstancesInv, InstancesTyped, Handles
    <3>2. Len(instance) \in Int BY DEF InstancesInv, InstancesTyped
    <3>3. IsFiniteSet(1 .. Len(instance)) BY <3>2, FS_Interval
    <3> HIDE DEF S
    <3> QED BY <3>1, <3>3, FS_Subset
  <2>2. b \in [S -> HandlesOf(f)] BY DEF HandlesOf
  <2>3. \A m, n \in S : b[m] = b[n] => m = n BY DEF InstancesInv, OneForEach, Handles
  <2>4. \A i \in HandlesOf(f) : \E m \in S : b[m] = i BY DEF HandlesOf
  <2> HIDE DEF b, S
  <2>5. b \in Bijection(S, HandlesOf(f))
    BY <2>2, <2>3, <2>4 DEF Bijection, Injection, Surjection, IsInjective
  <2>6. ExistsBijection(S, HandlesOf(f)) BY <2>5 DEF ExistsBijection
  <2> QED BY <2>1, <2>6, FS_Bijection DEF S
<1>3. ASSUME NEW u \in User, NEW m \in Range(maps[f][u])
      PROVE  instance[m].creator = u /\ Len(maps[f][u]) <= MaxIpu(f)
  <2>1. maps[f][u] \in Seq(Nat) BY DEF InstancesInv, InstancesTyped
  <2>2. PICK k \in 1 .. Len(maps[f][u]) : m = maps[f][u][k] BY <2>1 DEF Range
  <2>3. maps[f][u] # <<>> BY <2>1, <2>2
  <2> QED BY <2>2, <2>3 DEF InstancesInv, Stacked, StackOf, WithinLimits
<1> QED BY <1>1, <1>2, <1>3

\* Every handle that is taken (allocationTable of MapInstantiator) belongs to exactly one
\* instance that lives or is being set up, and no creator has more than the file allows,
\* whatever setups fail, whoever deletes and however the server ends.
THEOREM AllocationsAgree == InstancesSpec => []AllocationAgrees
<1>1. InstancesInit => InstancesInv BY InstancesInitial
<1>2. InstancesInv /\ [InstancesNext]_instanceVars => InstancesInv' BY InstancesStep
<1>3. InstancesInv => AllocationAgrees BY InvariantAgrees
<1> QED BY <1>1, <1>2, <1>3, PTL DEF InstancesSpec

(***************************************************************************)
(* Answers reach the client who asked.                                     *)
(***************************************************************************)

\* The port-mapping parameter names every port and every server once, and port 0, which
\* the code takes for none, not at all.
OneToOne ==
  /\ DOMAIN Mappings \subseteq Nat
  /\ \A k \in DOMAIN Mappings : Mappings[k].port # 0
  /\ \A j, k \in DOMAIN Mappings :
       Mappings[j].port = Mappings[k].port \/ Mappings[j].server = Mappings[k].server => j = k

\* The two tables are inverse to each other where they are used: the port of a client who
\* asked is not a public one and still stands for that client, and the port that a client
\* is known by stands for it.
PortsKept ==
  /\ DOMAIN clientPort \cap ServerPorts = {}
  /\ \A c \in DOMAIN clientReverse :
       clientReverse[c] \in DOMAIN clientPort /\ clientPort[clientReverse[c]] = c
  /\ \A a \in asked :
       /\ a.public \in ServerPorts /\ a.server = serverPort[a.public]
       /\ a.port \in DOMAIN clientPort /\ clientPort[a.port] = a.client

ProxyInv == PortsKept /\ AnswersReachTheirClient

\* The largest of a single number
LEMMA MaxOfOne ==
  ASSUME NEW k \in Nat
  PROVE  Max({k}) = k
BY DEF Max

\* The rule of a public port leads to a server that is answered from that port.
LEMMA RulesInverse ==
  ASSUME OneToOne, NEW p \in ServerPorts
  PROVE  serverPort[p] \in Servers /\ serverReverse[serverPort[p]] = p /\ p # 0
<1>1. PICK k \in DOMAIN Mappings : Mappings[k].port = p
  BY DEF ServerPorts, Range
<1>2. k \in Nat BY DEF OneToOne
<1>3. {j \in DOMAIN Mappings : Mappings[j].port = p} = {k} BY <1>1 DEF OneToOne
<1>4. serverPort[p] = Mappings[k].server
  BY <1>2, <1>3, MaxOfOne DEF serverPort, LastRule
<1>5. serverPort[p] \in Servers BY <1>1, <1>4 DEF Servers, Range
<1>6. {j \in DOMAIN Mappings : Mappings[j].server = serverPort[p]} = {k}
  BY <1>1, <1>4 DEF OneToOne
<1>7. serverReverse[serverPort[p]] = Mappings[k].port
  BY <1>2, <1>5, <1>6, MaxOfOne DEF serverReverse, LastRule
<1> QED BY <1>1, <1>5, <1>7 DEF OneToOne

\* At first nobody has asked.
LEMMA ProxyInitial ==
  ASSUME ProxyInit
  PROVE  ProxyInv
BY DEF ProxyInit, ProxyInv, PortsKept, AnswersReachTheirClient

\* The rules do not change.
LEMMA RulesConstant == ServerPorts' = ServerPorts /\ serverPort' = serverPort
BY DEF ServerPorts, serverPort, LastRule

\* A packet for a public port keeps the tables: a client is known by a port that is free
\* for it, or all ports are taken back.
LEMMA ClientPacketKeepsPorts ==
  ASSUME PortsKept, NEW client, NEW public \in ServerPorts, ClientPacket(client, public)
  PROVE  PortsKept'
<1>1. CASE client \in DOMAIN clientReverse
  <2>1. KnownClient(client, public) BY <1>1 DEF ClientPacket
  <2>2. /\ UNCHANGED <<clientPort, clientReverse>>
        /\ asked' = asked \cup {Asked(client, public, clientReverse[client])}
    BY <2>1 DEF KnownClient
  <2>3. ASSUME NEW a \in asked'
        PROVE  /\ a.public \in ServerPorts /\ a.server = serverPort[a.public]
               /\ a.port \in DOMAIN clientPort /\ clientPort[a.port] = a.client
    <3>1. CASE a \in asked BY <3>1 DEF PortsKept
    <3>2. CASE a = Asked(client, public, clientReverse[client])
      BY <1>1, <3>2 DEF PortsKept, Asked
    <3> QED BY <2>2, <3>1, <3>2
  <2> QED BY <2>2, <2>3, RulesConstant DEF PortsKept
<1>2. CASE client \notin DOMAIN clientReverse
  <2>1. AssignPort(client, public) BY <1>2 DEF ClientPacket
  <2>2. CASE \E p \in Ports \ Taken(clientPort) :
               /\ clientPort' = Inserted(clientPort, p, client)
               /\ clientReverse' = Inserted(clientReverse, client, p)
               /\ asked' = asked \cup {Asked(client, public, p)}
    <3>1. PICK p \in Ports \ Taken(clientPort) :
               /\ clientPort' = Inserted(clientPort, p, client)
               /\ clientReverse' = Inserted(clientReverse, client, p)
               /\ asked' = asked \cup {Asked(client, public, p)}
      BY <2>2
    <3>2. p \notin ServerPorts /\ p \notin DOMAIN clientPort BY DEF Taken
    <3>3. /\ DOMAIN clientPort' = {p} \cup DOMAIN clientPort
          /\ clientPort'[p] = client
          /\ \A q \in DOMAIN clientPort : clientPort'[q] = clientPort[q]
      BY <3>1, <3>2 DEF Inserted
    <3>4. /\ DOMAIN clientReverse' = {client} \cup DOMAIN clientReverse
          /\ clientReverse'[client] = p
          /\ \A c \in DOMAIN clientReverse : clientReverse'[c] = clientReverse[c]
      BY <1>2, <3>1 DEF Inserted
    <3>5. ASSUME NEW a \in asked'
          PROVE  /\ a.public \in ServerPorts /\ a.server = serverPort[a.public]
                 /\ a.port \in DOMAIN clientPort' /\ clientPort'[a.port] = a.client
      <4>1. CASE a \in asked BY <3>2, <3>3, <4>1 DEF PortsKept
      <4>2. CASE a = Asked(client, public, p) BY <3>3, <4>2 DEF Asked
      <4> QED BY <3>1, <4>1, <4>2
    <3>6. DOMAIN clientPort' \cap ServerPorts = {} BY <3>2, <3>3 DEF PortsKept
    <3>7. \A c \in DOMAIN clientReverse' :
            clientReverse'[c] \in DOMAIN clientPort' /\ clientPort'[clientReverse'[c]] = c
      BY <3>2, <3>3, <3>4 DEF PortsKept
    <3> QED BY <3>5, <3>6, <3>7, RulesConstant DEF PortsKept
  <2>3. CASE \E p \in Ports \ Taken(<<>>) :
               /\ clientPort' = Inserted(<<>>, p, client)
               /\ clientReverse' = Inserted(<<>>, client, p)
               /\ asked' = {Asked(client, public, p)}
    <3>1. PICK p \in Ports \ Taken(<<>>) :
               /\ clientPort' = Inserted(<<>>, p, client)
               /\ clientReverse' = Inserted(<<>>, client, p)
               /\ asked' = {Asked(client, public, p)}
      BY <2>3
    <3>2. p \notin ServerPorts BY DEF Taken
    <3>3. DOMAIN clientPort' = {p} /\ clientPort'[p] = client BY <3>1 DEF Inserted
    <3>4. DOMAIN clientReverse' = {client} /\ clientReverse'[client] = p BY <3>1 DEF Inserted
    <3> QED BY <3>1, <3>2, <3>3, <3>4, RulesConstant DEF PortsKept, Asked
  <2> QED BY <2>1, <2>2, <2>3 DEF AssignPort
<1> QED BY <1>1, <1>2

\* A packet is answered as the tables say.
LEMMA ProxyStep ==
  ASSUME OneToOne, ProxyInv, [ProxyNext]_proxyVars
  PROVE  ProxyInv'
<1>1. CASE UNCHANGED proxyVars
  BY <1>1, RulesConstant DEF proxyVars, ProxyInv, PortsKept, AnswersReachTheirClient
<1>2. ASSUME NEW from, NEW port, PacketFrom(from, port)
      PROVE  ProxyInv'
  <2>1. got' = [from |-> from, port |-> port] BY <1>2 DEF PacketFrom
  <2>2. CASE port \in ServerPorts
    <3>1. ClientPacket(from, port) BY <1>2, <2>2 DEF PacketFrom
    <3>2. PortsKept' BY <2>2, <3>1, ClientPacketKeepsPorts DEF ProxyInv
    <3>3. \A a \in asked' : a.port # port
      BY <2>2, <3>2, RulesConstant DEF PortsKept
    <3> QED BY <2>1, <3>2, <3>3 DEF ProxyInv, AnswersReachTheirClient
  <2>3. CASE port \notin ServerPorts /\ port \in DOMAIN clientPort
    <3>1. ServerPacket(from, port) BY <1>2, <2>3 DEF PacketFrom
    <3>2. PortsKept'
      BY <3>1, RulesConstant DEF ServerPacket, ProxyInv, PortsKept
    <3>3. ASSUME NEW a \in asked, a.server = from, a.port = port
          PROVE  sent' = [to |-> a.client, from |-> a.public]
      <4>1. /\ a.public \in ServerPorts /\ from = serverPort[a.public]
            /\ clientPort[port] = a.client
        BY <3>3 DEF ProxyInv, PortsKept
      <4>2. from \in Servers /\ serverReverse[from] = a.public /\ a.public # 0
        BY <4>1, RulesInverse
      <4> QED BY <3>1, <4>1, <4>2 DEF ServerPacket
    <3>4. asked' = asked BY <3>1 DEF ServerPacket
    <3> QED BY <2>1, <3>2, <3>3, <3>4 DEF ProxyInv, AnswersReachTheirClient
  <2>4. CASE port \notin ServerPorts \cup DOMAIN clientPort
    <3>1. UNCHANGED <<clientPort, clientReverse, asked>> BY <1>2, <2>4 DEF PacketFrom
    <3>2. PortsKept'
      BY <3>1, RulesConstant DEF ProxyInv, PortsKept
    <3>3. \A a \in asked' : a.port # port BY <2>4, <3>1 DEF ProxyInv, PortsKept
    <3> QED BY <2>1, <3>2, <3>3 DEF ProxyInv, AnswersReachTheirClient
  <2> QED BY <2>2, <2>3, <2>4
<1> QED BY <1>1, <1>2 DEF ProxyNext

\* Whatever clients share the proxy, an answer goes to the client who asked, from the port
\* it asked (relayTCPPacket of GeneralTCPReverseProxy), if no server has two public ports.
THEOREM AnswersRelayed ==
  ASSUME OneToOne
  PROVE  ProxySpec => []AnswersReachTheirClient
<1>1. ProxyInit => ProxyInv BY ProxyInitial
<1>2. ProxyInv /\ [ProxyNext]_proxyVars => ProxyInv' BY ProxyStep
<1>3. ProxyInv => AnswersReachTheirClient BY DEF ProxyInv
<1> QED BY <1>1, <1>2, <1>3, PTL DEF ProxySpec

(***************************************************************************)
(* A state is left by the timer of this visit.                             *)
(***************************************************************************)

\* Visits: a state and the number of its visit.
Visit == FsmState \X Nat
ThisVisit == <<current, lastId[current]>>

FsmTyped ==
  /\ current \in FsmState
  /\ lastId \in [FsmState -> Nat]
  /\ enabled \in SUBSET FsmState
  /\ leaveAt \in Nat

\* Events are of visits that have begun, and only the present visit is not over; its event
\* is there while it has an enabled transition, once and for the time that it drew.
VisitsTimed ==
  /\ \A e \in events : e.who[2] <= lastId[e.who[1]]
  /\ \A e \in events : e.who[2] = lastId[e.who[1]] => e.who[1] = current
  /\ \A e \in events : e.who = ThisVisit => enabled # {} /\ e.due = leaveAt
  /\ \A d, e \in events : d.who = ThisVisit /\ e.who = ThisVisit => d = e
  /\ enabled # {} => \E e \in events : e.who = ThisVisit

FsmInv == SchedulerInv(Visit) /\ FsmTyped /\ VisitsTimed /\ ~leftEarly

\* The states that a node draws its next one from are states.
LEMMA DrawsAreStates ==
  ASSUME NEW s \in FsmState, NEW target \in Draws(s)
  PROVE  target \in SUBSET FsmState
BY FsmAssumption DEF Draws

\* The state machine starts within its invariant.
LEMMA FsmInitial == FsmInit => FsmInv
<1> SUFFICES ASSUME FsmInit PROVE FsmInv OBVIOUS
<1> USE FsmAssumption, TicksAssumption
<1>1. PICK target \in Draws(current), ms \in Delays :
        /\ enabled = target
        /\ leaveAt = ms * TicksPerMs
        /\ realtime \in BOOLEAN /\ clock = 0
        /\ events = IF target = {} THEN {}
                    ELSE {[due |-> ms * TicksPerMs, no |-> 1, who |-> <<current, 0>>]}
        /\ timers = IF target = {} THEN {}
                    ELSE {[at |-> IF realtime THEN ms * TicksPerMs ELSE 0, no |-> 1]}
        /\ registered = IF target = {} THEN 0 ELSE 1
  BY DEF FsmInit
<1>2. current \in FsmState /\ lastId = [s \in FsmState |-> 0] /\ leftEarly = FALSE
  BY DEF FsmInit
<1>3. ms * TicksPerMs \in Nat OBVIOUS
<1>4. FsmTyped BY <1>1, <1>2, <1>3, DrawsAreStates DEF FsmTyped
<1>5. SchedulerInv(Visit)
  <2>1. CASE target = {}
    BY <1>1, <2>1, SchedulerStarts DEF SchedulerInit
  <2>2. CASE target # {}
    <3>1. <<current, 0>> \in Visit BY <1>2 DEF Visit
    <3> QED BY <1>1, <1>3, <2>2, <3>1, OneEventMatches
  <2> QED BY <2>1, <2>2
<1>6. VisitsTimed
  <2>1. CASE target = {}
    BY <1>1, <2>1 DEF VisitsTimed, ThisVisit
  <2>2. CASE target # {}
    <3>1. lastId[current] = 0 BY <1>2
    <3> DEFINE e == [due |-> ms * TicksPerMs, no |-> 1, who |-> <<current, 0>>]
    <3>2. events = {e} /\ e.who = <<current, 0>> /\ e.due = leaveAt BY <1>1, <2>2
    <3>3. e.who[1] = current /\ e.who[2] = 0 BY <3>2
    <3> HIDE DEF e
    <3> QED BY <1>1, <2>2, <3>1, <3>2, <3>3 DEF VisitsTimed, ThisVisit
  <2> QED BY <2>1, <2>2
<1> QED BY <1>2, <1>4, <1>5, <1>6 DEF FsmInv

\* Entering a state schedules the event of its visit, if a transition was enabled.
LEMMA OneEntry ==
  ASSUME NEW from, NEW lag, NEW t, NEW id, NEW target, NEW ms
  PROVE  NewEvents(from, lag, Entry(t, id, target, ms))
           = IF target # {} THEN {[due |-> Due(from, lag, ms), no |-> registered + 1, who |-> <<t, id>>]}
             ELSE {}
<1> DEFINE r == Entry(t, id, target, ms)
<1>1. DOMAIN r = {1} /\ r[1].who = <<t, id>> /\ r[1].ms = ms /\ r[1].wanted = (target # {})
  <2>1. r = <<[who |-> <<t, id>>, ms |-> ms, wanted |-> target # {}]>> BY DEF Entry
  <2>2. DOMAIN r = {1} /\ r[1] = [who |-> <<t, id>>, ms |-> ms, wanted |-> target # {}]
    BY <2>1
  <2> HIDE DEF r
  <2> QED BY <2>2
<1> HIDE DEF r
<1>2. {j \in DOMAIN r : r[j].wanted} = IF target # {} THEN {1} ELSE {} BY <1>1
<1>3. NewEvents(from, lag, r)
        = IF target # {} THEN {[due |-> Due(from, lag, ms), no |-> registered + 1, who |-> <<t, id>>]}
          ELSE {}
  BY <1>1, <1>2 DEF NewEvents
<1> QED BY <1>3 DEF r

\* The machine enters t at the time "from", from an event that has come or from none.
LEMMA EnterKeeps ==
  ASSUME FsmInv, NEW t \in FsmState, NEW target \in Draws(t), NEW ms \in Delays,
         NEW from \in Nat, NEW lag \in Nat,
         Enter(t, Exited(current), from, lag, target, ms),
         events' \subseteq events \cup NewEvents(from, lag, Entry(t, Exited(current)[t], target, ms)),
         NewEvents(from, lag, Entry(t, Exited(current)[t], target, ms)) \subseteq events',
         SchedulerInv(Visit)'
  PROVE  FsmTyped' /\ VisitsTimed'
<1> USE FsmAssumption, TicksAssumption DEF FsmInv, FsmTyped
<1> DEFINE id == Exited(current)[t]
           new == [due |-> Due(from, lag, ms), no |-> registered + 1, who |-> <<t, id>>]
<1>1. /\ current' = t /\ enabled' = target /\ leaveAt' = from + lag + ms * TicksPerMs
      /\ lastId' = [lastId EXCEPT ![current] = @ + 1]
  BY DEF Enter, Exited
<1>2. ms \in Nat /\ ms * TicksPerMs \in Nat OBVIOUS
<1>3. FsmTyped'
  BY <1>1, <1>2, DrawsAreStates DEF FsmTyped
<1>4. new.due = leaveAt' /\ ThisVisit' = <<t, id>> /\ id \in Nat
  BY <1>1, <1>2 DEF Due, ThisVisit, Exited
<1>5. NewEvents(from, lag, Entry(t, id, target, ms)) = IF target # {} THEN {new} ELSE {}
  BY OneEntry DEF new
<1>6. events' \subseteq events \cup {new} /\ (target # {} => new \in events')
      /\ (target = {} => events' \subseteq events)
  BY <1>5
<1>7. ASSUME NEW e \in events
      PROVE  /\ e.who[1] \in FsmState /\ e.who[2] \in Nat /\ e.who = <<e.who[1], e.who[2]>>
             /\ e.who[2] < lastId'[e.who[1]]
  <2>1. e.who \in Visit BY DEF SchedulerInv, EventsTyped
  <2>2. e.who[1] \in FsmState /\ e.who[2] \in Nat /\ e.who = <<e.who[1], e.who[2]>>
    BY <2>1 DEF Visit
  <2>3. e.who[2] <= lastId[e.who[1]] /\ (e.who[2] = lastId[e.who[1]] => e.who[1] = current)
    BY DEF VisitsTimed
  <2>4. lastId[e.who[1]] \in Nat BY <2>2
  <2>5. CASE e.who[1] = current
    BY <1>1, <2>2, <2>3, <2>4, <2>5
  <2>6. CASE e.who[1] # current
    BY <1>1, <2>2, <2>3, <2>4, <2>6
  <2> QED BY <2>2, <2>5, <2>6
<1>8. \A e \in events : e.who # ThisVisit'
  <2> SUFFICES ASSUME NEW e \in events, e.who = <<t, id>> PROVE FALSE BY <1>4
  <2>1. e.who[1] = t /\ e.who[2] = id BY <1>7
  <2>2. lastId'[t] = id BY <1>1 DEF Exited
  <2> QED BY <1>4, <1>7, <2>1, <2>2
<1>9. new.who[1] = t /\ new.who[2] = lastId'[t] /\ new.who = ThisVisit'
  BY <1>1, <1>4 DEF Exited
<1> HIDE DEF new, id
<1>10. VisitsTimed'
  <2>1. \A e \in events' : e.who[2] <= lastId'[e.who[1]]
    <3> SUFFICES ASSUME NEW e \in events' PROVE e.who[2] <= lastId'[e.who[1]] OBVIOUS
    <3>1. CASE e \in events
      <4>1. lastId'[e.who[1]] \in Nat BY <1>3, <1>7, <3>1
      <4> QED BY <1>7, <3>1, <4>1
    <3>2. CASE e = new
      <4>1. lastId'[t] \in Nat BY <1>3
      <4> QED BY <1>9, <3>2, <4>1
    <3> QED BY <1>6, <3>1, <3>2
  <2>2. \A e \in events' : e.who[2] = lastId'[e.who[1]] => e.who[1] = current'
    <3> SUFFICES ASSUME NEW e \in events', e.who[2] = lastId'[e.who[1]] PROVE e.who[1] = t BY <1>1
    <3>1. CASE e \in events
      <4>1. lastId'[e.who[1]] \in Nat BY <1>3, <1>7, <3>1
      <4> QED BY <1>7, <3>1, <4>1
    <3> QED BY <1>6, <1>9, <3>1
  <2>3. \A e \in events' : e.who = ThisVisit' => e = new /\ target # {}
    BY <1>6, <1>8
  <2> QED BY <1>1, <1>4, <1>6, <1>9, <2>1, <2>2, <2>3 DEF VisitsTimed, new
<1> QED BY <1>3, <1>10

\* An event that is ignored is not that of the present visit.
LEMMA IgnoredKeeps ==
  ASSUME FsmInv, First \in events, UNCHANGED fsmVars, events' = events \ {First},
         First.who # ThisVisit
  PROVE  FsmTyped' /\ VisitsTimed' /\ ~leftEarly'
BY DEF FsmInv, FsmTyped, VisitsTimed, fsmVars, ThisVisit

\* The delivery of a timer's event keeps the state machine's invariant.
LEMMA DeliveredKeeps ==
  ASSUME FsmInv, Delivered
  PROVE  FsmInv'
<1> USE FsmAssumption, TicksAssumption
<1>0. realtime \in BOOLEAN /\ Lags \subseteq Nat BY LagsAreNumbers DEF FsmInv, SchedulerInv
<1>1. TimerExpired
  BY DEF Delivered, ProcessNext
<1>2. First \in events /\ HandlerClock \in Nat /\ First.due <= HandlerClock
  BY <1>1, NotEarly DEF FsmInv
<1>3. First.who \in Visit /\ First.who = <<First.who[1], First.who[2]>>
      /\ First.who[1] \in FsmState /\ First.who[2] \in Nat
  <2>1. First.who \in Visit BY <1>2 DEF FsmInv, SchedulerInv, EventsTyped
  <2> QED BY <2>1 DEF Visit
<1>4. CASE First.who[2] < lastId[First.who[1]] \/ First.who[1] # current \/ enabled = {}
  <2>1. ProcessNext(0, <<>>) /\ UNCHANGED fsmVars
    BY <1>4 DEF Delivered
  <2>2. First.who # ThisVisit
    BY <1>2, <1>3, <1>4 DEF FsmInv, FsmTyped, VisitsTimed, ThisVisit
  <2>3. events' = events \ {First} BY <2>1, NoNewEvent DEF ProcessNext
  <2>4. SchedulerInv(Visit)' BY <2>1, NoRequest, ProcessNextKeeps DEF FsmInv
  <2> QED BY <1>2, <2>1, <2>2, <2>3, <2>4, IgnoredKeeps DEF FsmInv
<1>5. CASE ~(First.who[2] < lastId[First.who[1]] \/ First.who[1] # current \/ enabled = {})
  <2>1. PICK t \in enabled : \E target \in Draws(t), ms \in Delays, lag \in Lags :
          /\ Enter(t, Exited(current), HandlerClock, lag, target, ms)
          /\ ProcessNext(lag, Entry(t, Exited(current)[t], target, ms))
    BY <1>5 DEF Delivered
  <2>2. PICK target \in Draws(t), ms \in Delays, lag \in Lags :
          /\ Enter(t, Exited(current), HandlerClock, lag, target, ms)
          /\ ProcessNext(lag, Entry(t, Exited(current)[t], target, ms))
    BY <2>1
  <2>3. First.who = ThisVisit
    <3>1. First.who[2] <= lastId[First.who[1]] BY <1>2 DEF FsmInv, VisitsTimed
    <3>2. lastId[First.who[1]] \in Nat BY <1>3 DEF FsmInv, FsmTyped
    <3> QED BY <1>3, <1>5, <3>1, <3>2 DEF ThisVisit
  <2>4. ~leftEarly'
    <3>1. First.due = leaveAt BY <1>2, <2>3 DEF FsmInv, VisitsTimed
    <3>2. leftEarly' = (leftEarly \/ HandlerClock < leaveAt) BY <1>5 DEF Delivered
    <3>3. leaveAt \in Nat BY DEF FsmInv, FsmTyped
    <3>4. First.due \in Nat BY <3>1, <3>3
    <3>5. ~(HandlerClock < leaveAt) BY <1>2, <3>1, <3>3, <3>4
    <3>6. ~leftEarly BY DEF FsmInv
    <3> QED BY <3>2, <3>5, <3>6
  <2>5. t \in FsmState /\ Exited(current)[t] \in Nat /\ lag \in Nat /\ ms \in Nat
    BY <1>0 DEF FsmInv, FsmTyped, Exited
  <2>6. Entry(t, Exited(current)[t], target, ms) \in RequestsOf(Visit)
    <3>1. <<t, Exited(current)[t]>> \in Visit BY <2>5 DEF Visit
    <3> QED BY <2>5, <3>1, OneRequest DEF Entry
  <2>7. SchedulerInv(Visit)' BY <2>2, <2>5, <2>6, ProcessNextKeeps DEF FsmInv
  <2> DEFINE N == NewEvents(HandlerClock, lag, Entry(t, Exited(current)[t], target, ms))
  <2>8. events' = (events \cup N) \ {First} BY <2>2 DEF ProcessNext
  <2>9. First \notin N
    <3>1. N = IF target # {} THEN {[due |-> Due(HandlerClock, lag, ms), no |-> registered + 1,
                                   who |-> <<t, Exited(current)[t]>>]} ELSE {}
      BY OneEntry DEF N
    <3>2. First.no \in 1 .. registered /\ registered \in Nat
      BY <1>2 DEF FsmInv, SchedulerInv, EventsTyped
    <3> QED BY <3>1, <3>2
  <2> HIDE DEF N
  <2>10. events' \subseteq events \cup N /\ N \subseteq events' BY <2>8, <2>9
  <2>11. FsmTyped' /\ VisitsTimed' BY <1>2, <2>2, <2>5, <2>7, <2>10, EnterKeeps DEF N
  <2> QED BY <2>4, <2>7, <2>11 DEF FsmInv
<1> QED BY <1>4, <1>5

\* Without a manual transition, walk leaves everything as it is.
LEMMA StaysKeeps ==
  ASSUME FsmInv, UNCHANGED <<current, lastId, enabled, leaveAt, leftEarly, events>>,
         SchedulerInv(Visit)'
  PROVE  FsmInv'
BY DEF FsmInv, FsmTyped, VisitsTimed, ThisVisit

\* A walk over the transitions keeps the state machine's invariant.
LEMMA WalkedKeeps ==
  ASSUME FsmInv, Walked
  PROVE  FsmInv'
<1> USE FsmAssumption, TicksAssumption
<1>0. realtime \in BOOLEAN /\ clock \in Nat /\ Lags \subseteq Nat BY LagsAreNumbers DEF FsmInv, SchedulerInv
<1>1. CASE ManualTarget[current] = {}
  <2>1. UNCHANGED <<schedulerVars, current, lastId, enabled, leaveAt, leftEarly>>
    BY <1>1 DEF Walked
  <2>2. SchedulerInv(Visit)' BY <2>1, IdleKeeps DEF FsmInv
  <2> QED BY <2>1, <2>2, StaysKeeps DEF schedulerVars
<1>2. CASE ManualTarget[current] # {}
  <2>0. PICK t \in ManualTarget[current] : \E target \in Draws(t), ms \in Delays, lag \in Lags :
          /\ Enter(t, Exited(current), clock, lag, target, ms)
          /\ Register(lag, Entry(t, Exited(current)[t], target, ms))
    BY <1>2 DEF Walked
  <2>1. PICK target \in Draws(t), ms \in Delays, lag \in Lags :
          /\ Enter(t, Exited(current), clock, lag, target, ms)
          /\ Register(lag, Entry(t, Exited(current)[t], target, ms))
    BY <2>0
  <2>2. t \in FsmState /\ Exited(current)[t] \in Nat /\ lag \in Nat /\ ms \in Nat
    BY <1>0 DEF FsmInv, FsmTyped, Exited
  <2>3. Entry(t, Exited(current)[t], target, ms) \in RequestsOf(Visit)
    <3>1. <<t, Exited(current)[t]>> \in Visit BY <2>2 DEF Visit
    <3> QED BY <2>2, <3>1, OneRequest DEF Entry
  <2>4. SchedulerInv(Visit)' BY <2>1, <2>2, <2>3, RegisterKeeps DEF FsmInv
  <2>5. events' = events \cup NewEvents(clock, lag, Entry(t, Exited(current)[t], target, ms))
    BY <2>1 DEF Register
  <2>6. FsmTyped' /\ VisitsTimed' BY <1>0, <2>1, <2>2, <2>4, <2>5, EnterKeeps
  <2> QED BY <2>4, <2>6 DEF Walked, FsmInv
<1> QED BY <1>1, <1>2

\* Every step keeps the state machine's invariant.
LEMMA FsmStep == FsmInv /\ [FsmNext]_<<schedulerVars, fsmVars>> => FsmInv'
<1> SUFFICES ASSUME FsmInv, [FsmNext]_<<schedulerVars, fsmVars>> PROVE FsmInv' OBVIOUS
<1>1. CASE Delivered BY <1>1, DeliveredKeeps
<1>2. CASE PostWalk
  BY <1>2, IdleKeeps, StaysKeeps DEF PostWalk, schedulerVars, FsmInv
<1>3. CASE Walked BY <1>3, WalkedKeeps
<1>4. CASE Tick /\ UNCHANGED fsmVars
  BY <1>4, TickKeeps, StaysKeeps DEF Tick, fsmVars, FsmInv
<1>5. CASE UNCHANGED <<schedulerVars, fsmVars>>
  BY <1>5, IdleKeeps, StaysKeeps DEF schedulerVars, fsmVars, FsmInv
<1> QED BY <1>1, <1>2, <1>3, <1>4, <1>5 DEF FsmNext

\* The invariant says that a timer which fires was set in this visit of its state.
LEMMA FsmInvSuffices == FsmInv => TimedByThisVisit
<1> SUFFICES ASSUME FsmInv PROVE TimedByThisVisit OBVIOUS
<1> DEFINE L == {e \in events : e.who = ThisVisit}
<1>1. CASE enabled = {}
  <2>1. L = {} BY <1>1 DEF FsmInv, VisitsTimed
  <2> QED BY <1>1, <2>1, FS_EmptySet DEF FsmInv, TimedByThisVisit, ThisVisit
<1>2. CASE enabled # {}
  <2>1. PICK e \in events : L = {e} BY <1>2 DEF FsmInv, VisitsTimed
  <2>2. Cardinality(L) = 1 BY <2>1, FS_Singleton
  <2> QED BY <1>2, <2>2 DEF FsmInv, TimedByThisVisit, ThisVisit
<1> QED BY <1>1, <1>2

\* In every behaviour of a state machine (LinkFsm) a timed transition is taken when its own visit
\* is due, never by the event of an earlier visit, and a visit with a timed transition has
\* exactly one live event.
THEOREM VisitsAreTimed == FsmSpec => []TimedByThisVisit
<1>1. FsmSpec => []FsmInv
  BY FsmInitial, FsmStep, PTL DEF FsmSpec
<1> QED BY <1>1, FsmInvSuffices, PTL

(***************************************************************************)
(* The peers of a tracker.                                                 *)
(* In compact time a check is never later than a period after the first    *)
(* peer of the queue was put there (c of Timely is when that was, for each *)
(* peer, and grows along the queue), which is at most a period after it    *)
(* was last heard of.                                                      *)
(***************************************************************************)

-----------------------------------------------------------------------------
(* Queues without repeats. *)

\* Appending a new element to a list without repeats repeats nothing.
LEMMA AppendOnce ==
  ASSUME NEW S, NEW s \in Seq(S), IsInjective(s), NEW x \in S, x \notin Range(s)
  PROVE  /\ Append(s, x) \in Seq(S) /\ IsInjective(Append(s, x))
         /\ Range(Append(s, x)) = Range(s) \cup {x}
<1>1. /\ Len(s) \in Nat /\ DOMAIN s = 1..Len(s) /\ Append(s, x) \in Seq(S)
      /\ DOMAIN Append(s, x) = 1..Len(s) + 1
      /\ Append(s, x)[Len(s) + 1] = x
      /\ \A k \in DOMAIN s : Append(s, x)[k] = s[k]
  OBVIOUS
<1>2. \A k \in DOMAIN s : s[k] # x BY DEF Range
<1>3. IsInjective(Append(s, x)) BY <1>1, <1>2 DEF IsInjective
<1>4. Range(Append(s, x)) = Range(s) \cup {x} BY <1>1 DEF Range
<1> QED BY <1>1, <1>3, <1>4

\* Two lists without repeats that share nothing make one without repeats.
LEMMA ConcatOnce ==
  ASSUME NEW S, NEW s \in Seq(S), NEW t \in Seq(S), IsInjective(s), IsInjective(t),
         Range(s) \cap Range(t) = {}
  PROVE  /\ s \o t \in Seq(S) /\ IsInjective(s \o t)
         /\ Range(s \o t) = Range(s) \cup Range(t)
<1> DEFINE u == s \o t
           m == Len(s)
           n == Len(t)
<1>1. /\ u \in Seq(S) /\ Len(u) = m + n /\ m \in Nat /\ n \in Nat
      /\ DOMAIN u = 1..m + n /\ DOMAIN s = 1..m /\ DOMAIN t = 1..n
      /\ \A i \in 1..m + n : u[i] = IF i <= m THEN s[i] ELSE t[i - m]
  BY ConcatProperties
<1> HIDE DEF u, m, n
<1>a. (\A i \in 1..m : s[i] \in Range(s)) /\ (\A i \in 1..n : t[i] \in Range(t)) BY <1>1 DEF Range
<1>2. \A i \in 1..m : u[i] = s[i] /\ s[i] \in Range(s)
  <2>1. \A i \in 1..m : i \in 1..m + n /\ i <= m BY <1>1
  <2> QED BY <1>1, <1>a, <2>1
<1>3. \A i \in 1..m + n : i \in 1..m \/ (i - m \in 1..n /\ u[i] = t[i - m] /\ t[i - m] \in Range(t))
  <2>1. \A i \in 1..m + n : i \in 1..m \/ (i - m \in 1..n /\ ~(i <= m)) BY <1>1
  <2> QED BY <1>1, <1>a, <2>1
<1>4. ASSUME NEW i \in 1..m + n, NEW j \in 1..m + n, u[i] = u[j] PROVE i = j
  <2>1. CASE i \in 1..m /\ j \in 1..m BY <1>1, <1>2, <1>4, <2>1 DEF IsInjective
  <2>2. CASE i \notin 1..m /\ j \notin 1..m
    <3>1. i - m = j - m BY <1>1, <1>3, <1>4, <2>2 DEF IsInjective
    <3> QED BY <1>1, <3>1
  <2>3. CASE ~(i \in 1..m <=> j \in 1..m) BY <1>2, <1>3, <1>4, <2>3
  <2> QED BY <2>1, <2>2, <2>3
<1>5. IsInjective(u) BY <1>1, <1>4 DEF IsInjective
<1>6. Range(u) = Range(s) \cup Range(t)
  <2>1. Range(u) \subseteq Range(s) \cup Range(t) BY <1>1, <1>2, <1>3 DEF Range
  <2>2. Range(s) \subseteq Range(u)
    <3>1. \A i \in 1..m : i \in 1..m + n BY <1>1
    <3> QED BY <1>1, <1>2, <3>1 DEF Range
  <2>3. Range(t) \subseteq Range(u)
    <3>1. \A i \in 1..n : i + m \in 1..m + n /\ i + m \notin 1..m /\ (i + m) - m = i BY <1>1
    <3>2. \A i \in 1..n : u[i + m] = t[i] BY <1>3, <3>1
    <3>3. \A i \in 1..n : i + m \in DOMAIN u BY <1>1, <3>1
    <3>4. \A i \in 1..n : t[i] \in Range(u) BY <3>2, <3>3 DEF Range
    <3> QED BY <1>1, <3>4 DEF Range
  <2> QED BY <2>1, <2>2, <2>3
<1> QED BY <1>1, <1>5, <1>6 DEF u

\* The end of a list without repeats has none, and keeps the order.
LEMMA PartOnce ==
  ASSUME NEW S, NEW s \in Seq(S), IsInjective(s), NEW v \in 0..Len(s)
  PROVE  /\ SubSeq(s, v + 1, Len(s)) \in Seq(S) /\ IsInjective(SubSeq(s, v + 1, Len(s)))
         /\ Len(SubSeq(s, v + 1, Len(s))) = Len(s) - v
         /\ \A i \in 1..Len(s) - v : SubSeq(s, v + 1, Len(s))[i] = s[i + v]
         /\ Range(SubSeq(s, v + 1, Len(s))) = {s[k] : k \in v + 1..Len(s)}
<1> DEFINE t == SubSeq(s, v + 1, Len(s))
           m == Len(s)
<1>1. m \in Nat /\ v \in 0..m /\ DOMAIN s = 1..m /\ \A i \in 1..m : s[i] \in S OBVIOUS
<1>2. /\ t \in Seq(S) /\ Len(t) = m - v /\ \A i \in 1..m - v : t[i] = s[v + i]
  <2>1. v + 1 \in Int /\ m \in Int /\ \A i \in v + 1..m : s[i] \in S BY <1>1
  <2>2. /\ t \in Seq(S) /\ Len(t) = (IF v + 1 <= m THEN m - (v + 1) + 1 ELSE 0)
        /\ \A i \in 1..m - (v + 1) + 1 : t[i] = s[(v + 1) + i - 1]
    BY <2>1, SubSeqProperties
  <2> HIDE DEF t, m
  <2>3. m - (v + 1) + 1 = m - v /\ (v + 1 > m => m - v = 0) BY <1>1
  <2>4. \A i \in Int : (v + 1) + i - 1 = v + i BY <1>1
  <2> QED BY <1>1, <2>2, <2>3, <2>4
<1>3. DOMAIN t = 1..m - v BY <1>2
<1> HIDE DEF t, m
<1>4. \A i \in 1..m - v : v + i \in 1..m /\ v + i \in v + 1..m /\ v + i = i + v BY <1>1
<1>5. \A k \in v + 1..m : k - v \in 1..m - v /\ v + (k - v) = k BY <1>1
<1>6. IsInjective(t)
  <2>1. ASSUME NEW i \in 1..m - v, NEW j \in 1..m - v, t[i] = t[j] PROVE i = j
    <3>1. s[v + i] = s[v + j] BY <1>2, <2>1
    <3>2. v + i = v + j BY <1>1, <1>4, <3>1 DEF IsInjective
    <3> QED BY <1>1, <3>2
  <2> QED BY <1>3, <2>1 DEF IsInjective
<1>7. Range(t) = {s[k] : k \in v + 1..m}
  <2>1. Range(t) \subseteq {s[k] : k \in v + 1..m} BY <1>2, <1>3, <1>4 DEF Range
  <2>2. \A k \in v + 1..m : t[k - v] = s[k] BY <1>2, <1>5
  <2> QED BY <1>3, <1>5, <2>1, <2>2 DEF Range
<1>8. \A i \in 1..m - v : t[i] = s[i + v] BY <1>2, <1>4
<1> QED BY <1>2, <1>6, <1>7, <1>8 DEF t, m

\* A queue without repeats has as many elements as places.
LEMMA SizeOfQueue ==
  ASSUME NEW S, NEW s \in Seq(S), IsInjective(s)
  PROVE  Cardinality(Range(s)) = Len(s)
<1>1. Len(s) \in Nat /\ DOMAIN s = 1..Len(s) /\ s \in [1..Len(s) -> Range(s)] BY DEF Range
<1>2. IsFiniteSet(1..Len(s)) /\ Cardinality(1..Len(s)) = Len(s)
  <2>1. 1..Len(s) = {} \/ Len(s) >= 1 BY <1>1
  <2>2. IsFiniteSet(1..Len(s)) /\ Cardinality(1..Len(s)) = IF 1 > Len(s) THEN 0 ELSE Len(s) - 1 + 1
    BY <1>1, FS_Interval
  <2> QED BY <1>1, <2>2
<1>3. \A i, j \in 1..Len(s) : s[i] = s[j] => i = j BY <1>1 DEF IsInjective
<1>4. \A x \in Range(s) : \E j \in 1..Len(s) : s[j] = x BY <1>1 DEF Range
<1> QED BY <1>1, <1>2, <1>3, <1>4, NumberedSet

-----------------------------------------------------------------------------
(* The rotation of a check. *)

Key == Torrent \X PeerId

QueueTyped == clockQueue \in Seq(Key) /\ IsInjective(clockQueue)

Survivors(n, now) == {clockQueue[k] : k \in {j \in 1..n : ~Expired(clockQueue[j], now)}}

\* t has, for each of the first m places, the peers up to there that are not expired.
Keeps(t, m, now) ==
  /\ t \in [0..m -> Seq(Key)] /\ t[0] = <<>>
  /\ \A n \in 1..m : t[n] = IF Expired(clockQueue[n], now) THEN t[n - 1]
                            ELSE Append(t[n - 1], clockQueue[n])

KeptOnce(t, m, now) == \A n \in 0..m : IsInjective(t[n]) /\ Range(t[n]) = Survivors(n, now)

\* The walk over the first peers of the queue tells those it keeps, each once.
LEMMA KeepExists ==
  ASSUME QueueTyped, NEW m \in 0..Len(clockQueue), NEW now
  PROVE  \E t : Keeps(t, m, now) /\ KeptOnce(t, m, now)
<1> DEFINE q == clockQueue
           P(n) == \E t : Keeps(t, n, now) /\ KeptOnce(t, n, now)
           Bad == {n \in 0..m : ~P(n)}
<1>0. /\ Len(q) \in Nat /\ m \in Nat /\ m <= Len(q) /\ DOMAIN q = 1..Len(q)
      /\ \A k \in 1..Len(q) : q[k] \in Key
      /\ \A j, k \in 1..Len(q) : q[j] = q[k] => j = k
  BY DEF QueueTyped, IsInjective
<1> HIDE DEF q
<1>1. CASE Bad = {}
  <2>1. m \in 0..m BY <1>0
  <2> HIDE DEF P
  <2>2. P(m) BY <1>1, <2>1
  <2> QED BY <2>2 DEF P
<1>2. CASE Bad # {}
  <2>1. Bad \in SUBSET Nat OBVIOUS
  <2> HIDE DEF Bad
  <2>2. PICK n \in Bad : \A k \in Bad : n <= k BY <1>2, <2>1, LeastNumber
  <2>3. n \in 0..m /\ ~P(n) BY <2>2 DEF Bad
  <2> HIDE DEF P
  <2>4. n # 0
    <3> DEFINE z == [j \in 0..0 |-> << >>]
    <3>1. Keeps(z, 0, now) BY DEF Keeps
    <3>2. IsInjective(z[0]) /\ Range(z[0]) = {} BY DEF IsInjective, Range
    <3>3. Survivors(0, now) = {} BY DEF Survivors
    <3>4. KeptOnce(z, 0, now) BY <3>2, <3>3 DEF KeptOnce
    <3> QED BY <2>3, <3>1, <3>4 DEF P
  <2>5. n \in 1..m /\ n - 1 \in 0..m /\ n - 1 \notin Bad BY <1>0, <2>2, <2>3, <2>4
  <2>6. P(n - 1) BY <2>5 DEF Bad
  <2>7. PICK t : Keeps(t, n - 1, now) /\ KeptOnce(t, n - 1, now) BY <2>6 DEF P
  <2> DEFINE s == t[n - 1]
             r == IF Expired(q[n], now) THEN s ELSE Append(s, q[n])
             u == [j \in 0..n |-> IF j = n THEN r ELSE t[j]]
  <2>8. s \in Seq(Key) /\ IsInjective(s) /\ Range(s) = Survivors(n - 1, now)
    <3>1. n - 1 \in 0..n - 1 BY <2>5
    <3> QED BY <2>7, <3>1 DEF Keeps, KeptOnce
  <2>9. q[n] \in Key /\ n \in 1..Len(q) BY <1>0, <2>5
  <2>10. q[n] \notin Survivors(n - 1, now)
    <3>1. \A k \in 1..n - 1 : k \in 1..Len(q) /\ k # n BY <1>0, <2>5
    <3> QED BY <1>0, <2>9, <3>1 DEF Survivors, q
  <2>11. Survivors(n, now) = Survivors(n - 1, now) \cup (IF Expired(q[n], now) THEN {} ELSE {q[n]})
    <3>1. 1..n = (1..n - 1) \cup {n} BY <2>5
    <3> QED BY <3>1 DEF Survivors, q
  <2>12. r \in Seq(Key) /\ IsInjective(r) /\ Range(r) = Survivors(n, now)
    <3> HIDE DEF s
    <3>1. CASE Expired(q[n], now) BY <2>8, <2>11, <3>1
    <3>2. CASE ~Expired(q[n], now)
      <4>1. /\ Append(s, q[n]) \in Seq(Key) /\ IsInjective(Append(s, q[n]))
            /\ Range(Append(s, q[n])) = Range(s) \cup {q[n]}
        BY <2>8, <2>9, <2>10, AppendOnce
      <4> QED BY <2>8, <2>11, <3>2, <4>1
    <3> QED BY <3>1, <3>2
  <2>13. \A j \in 0..n : j = n \/ j \in 0..n - 1 BY <2>5
  <2>14. u[n] = r /\ \A j \in 0..n - 1 : u[j] = t[j] BY <2>5
  <2>15. u \in [0..n -> Seq(Key)] /\ u[0] = << >>
    <3> HIDE DEF r
    <3>1. \A j \in 0..n - 1 : t[j] \in Seq(Key) BY <2>7 DEF Keeps
    <3>2. \A j \in 0..n : u[j] \in Seq(Key) BY <2>12, <2>13, <2>14, <3>1
    <3>3. 0 \in 0..n - 1 BY <2>5
    <3> QED BY <2>7, <2>14, <3>2, <3>3 DEF Keeps
  <2> HIDE DEF u
  <2>16. ASSUME NEW j \in 1..n
         PROVE  u[j] = IF Expired(q[j], now) THEN u[j - 1] ELSE Append(u[j - 1], q[j])
    <3>1. j - 1 \in 0..n - 1 BY <2>5
    <3>2. u[j - 1] = t[j - 1] BY <2>14, <3>1
    <3>3. CASE j = n BY <2>14, <3>2, <3>3
    <3>4. CASE j # n
      <4>1. j \in 1..n - 1 /\ j \in 0..n - 1 BY <2>5, <3>4
      <4>2. t[j] = IF Expired(q[j], now) THEN t[j - 1] ELSE Append(t[j - 1], q[j])
        BY <2>7, <4>1 DEF Keeps, q
      <4> QED BY <2>14, <3>2, <4>1, <4>2
    <3> QED BY <3>3, <3>4
  <2>17. Keeps(u, n, now) BY <2>15, <2>16 DEF Keeps, q
  <2>18. KeptOnce(u, n, now)
    <3>1. \A j \in 0..n - 1 : IsInjective(t[j]) /\ Range(t[j]) = Survivors(j, now) BY <2>7 DEF KeptOnce
    <3> HIDE DEF r
    <3> QED BY <2>12, <2>13, <2>14, <3>1 DEF KeptOnce
  <2> QED BY <2>3, <2>17, <2>18 DEF P
<1> QED BY <1>1, <1>2

\* The peers that move back in the queue are those that survive the visit.
LEMMA MovedAre ==
  ASSUME QueueTyped, NEW now, Visited(now) \in 0..Len(clockQueue)
  PROVE  /\ Moved(now) \in Seq(Key) /\ IsInjective(Moved(now))
         /\ Range(Moved(now)) = Survivors(Visited(now), now)
<1> DEFINE m == Visited(now)
           Def(f) == f = [n \in 0..m |-> IF n = 0 THEN <<>>
                            ELSE IF Expired(clockQueue[n], now) THEN f[n - 1]
                            ELSE Append(f[n - 1], clockQueue[n])]
           kept == CHOOSE f : Def(f)
<1>0. m \in Nat BY DEF QueueTyped
<1>1. Moved(now) = kept[m] BY DEF Moved
<1>2. PICK t : Keeps(t, m, now) /\ KeptOnce(t, m, now) BY KeepExists
<1> HIDE DEF m
<1>3. /\ t \in [0..m -> Seq(Key)] /\ t[0] = <<>>
      /\ \A n \in 1..m : t[n] = IF Expired(clockQueue[n], now) THEN t[n - 1]
                                ELSE Append(t[n - 1], clockQueue[n])
  BY <1>2 DEF Keeps
<1>4. Def(t)
  <2>1. \A n \in 0..m : t[n] = IF n = 0 THEN <<>>
                            ELSE IF Expired(clockQueue[n], now) THEN t[n - 1]
                            ELSE Append(t[n - 1], clockQueue[n])
    <3> TAKE n \in 0..m
    <3>1. CASE n = 0 BY <1>3, <3>1
    <3>2. CASE n # 0
      <4>1. n \in 1..m BY <1>0, <3>2
      <4> QED BY <1>3, <3>2, <4>1
    <3> QED BY <3>1, <3>2
  <2> QED BY <1>3, <2>1
<1>5. Def(kept) BY <1>4
<1> HIDE DEF kept
<1>6. /\ DOMAIN kept = 0..m
      /\ \A n \in 0..m : kept[n] = IF n = 0 THEN <<>>
                            ELSE IF Expired(clockQueue[n], now) THEN kept[n - 1]
                            ELSE Append(kept[n - 1], clockQueue[n])
  BY <1>5
<1> HIDE DEF Def
<1> DEFINE Bad == {n \in 0..m : t[n] # kept[n]}
<1>7. m \in 0..m BY <1>0
<1>8. CASE Bad = {}
  <2>1. t[m] = kept[m] BY <1>7, <1>8
  <2> QED BY <1>1, <1>2, <1>3, <1>7, <2>1 DEF KeptOnce, m
<1>9. CASE Bad # {}
  <2>1. Bad \in SUBSET Nat OBVIOUS
  <2> HIDE DEF Bad
  <2>2. PICK n \in Bad : \A k \in Bad : n <= k BY <1>9, <2>1, LeastNumber
  <2>3. n \in 0..m /\ t[n] # kept[n] BY <2>2 DEF Bad
  <2>4. n \in 1..m BY <1>0, <1>3, <1>6, <2>3
  <2>5. n - 1 \in 0..m /\ n - 1 \notin Bad BY <1>0, <2>2, <2>4
  <2>6. t[n - 1] = kept[n - 1] BY <2>5 DEF Bad
  <2> QED BY <1>3, <1>6, <2>3, <2>4, <2>6
<1> QED BY <1>8, <1>9

\* The check stops at the first peer that is settled.
LEMMA WhereItStops ==
  ASSUME QueueTyped, NEW now
  PROVE  /\ Visited(now) \in 0..Len(clockQueue)
         /\ Visited(now) < Len(clockQueue) => Visited(now) + 1 \in Settled(now)
<1> DEFINE S == Settled(now)
<1>1. Len(clockQueue) \in Nat /\ DOMAIN clockQueue = 1..Len(clockQueue) BY DEF QueueTyped
<1>2. S \in SUBSET (1..Len(clockQueue)) BY <1>1 DEF Settled
<1>3. CASE S = {} BY <1>1, <1>3 DEF Visited
<1>4. CASE S # {}
  <2>1. S \in SUBSET Nat BY <1>2
  <2> HIDE DEF S
  <2>2. PICK n \in S : \A k \in S : n <= k BY <1>4, <2>1, LeastNumber
  <2>3. Min(S) \in S BY <2>2 DEF Min
  <2>4. Visited(now) = Min(S) - 1 BY <1>4 DEF Visited, S
  <2>5. Min(S) \in 1..Len(clockQueue) BY <1>2, <2>3
  <2>6. Visited(now) \in 0..Len(clockQueue) /\ Visited(now) + 1 = Min(S) BY <1>1, <2>4, <2>5
  <2> QED BY <2>3, <2>6 DEF S
<1> QED BY <1>3, <1>4

Peer == [updated : Nat, pushedBack : BOOLEAN]

PeersTyped == QueueTyped /\ peers \in [Range(clockQueue) -> Peer]

\* After the check the queue starts with a peer that has not expired and was moved back before.
LEMMA Rotation ==
  ASSUME QueueTyped, NEW now
  PROVE  /\ Rotated(now) \in Seq(Key) /\ IsInjective(Rotated(now))
         /\ Range(Rotated(now)) \subseteq Range(clockQueue)
         /\ Range(Moved(now)) \subseteq Range(Rotated(now))
         /\ Rotated(now) # <<>> =>
              /\ ~Expired(Head(Rotated(now)), now)
              /\ peers[Head(Rotated(now))].pushedBack \/ Head(Rotated(now)) \in Range(Moved(now))
<1> DEFINE q == clockQueue
           v == Visited(now)
           t == SubSeq(q, v + 1, Len(q))
           s == Moved(now)
           r == Rotated(now)
<1>1. /\ Len(q) \in Nat /\ DOMAIN q = 1..Len(q) /\ q \in Seq(Key) /\ IsInjective(q)
      /\ v \in 0..Len(q) /\ (v < Len(q) => v + 1 \in Settled(now))
  BY WhereItStops DEF QueueTyped
<1>2. s \in Seq(Key) /\ IsInjective(s) /\ Range(s) = Survivors(v, now) BY <1>1, MovedAre
<1> HIDE DEF q, v, s
<1>3. /\ t \in Seq(Key) /\ IsInjective(t) /\ Len(t) = Len(q) - v
      /\ \A i \in 1..Len(q) - v : t[i] = q[i + v]
      /\ Range(t) = {q[k] : k \in v + 1..Len(q)}
  BY <1>1, PartOnce
<1> HIDE DEF t
<1>4. r = t \o s BY DEF Rotated, t, s, v, q
<1>5. Range(t) \cap Range(s) = {}
  <2>1. ASSUME NEW j \in v + 1..Len(q), NEW k \in 1..v PROVE q[j] # q[k]
    <3>1. j \in DOMAIN q /\ k \in DOMAIN q /\ j # k BY <1>1
    <3> QED BY <1>1, <3>1 DEF IsInjective
  <2> QED BY <1>2, <1>3, <2>1 DEF Survivors, q
<1>6. r \in Seq(Key) /\ IsInjective(r) /\ Range(r) = Range(t) \cup Range(s)
  BY <1>2, <1>3, <1>4, <1>5, ConcatOnce
<1>7. Range(r) \subseteq Range(q)
  <2>1. \A k \in v + 1..Len(q) : k \in DOMAIN q BY <1>1
  <2>2. \A k \in 1..v : k \in DOMAIN q BY <1>1
  <2>3. Range(t) \subseteq Range(q) BY <1>3, <2>1 DEF Range
  <2>4. Range(s) \subseteq Range(q) BY <1>2, <2>2 DEF Range, Survivors, q
  <2> QED BY <1>6, <2>3, <2>4
<1>8. ASSUME r # <<>>
      PROVE  ~Expired(Head(r), now) /\ (peers[Head(r)].pushedBack \/ Head(r) \in Range(s))
  <2>1. Len(s) \in Nat /\ Len(t) \in Nat /\ DOMAIN s = 1..Len(s) BY <1>2, <1>3
  <2>2. Head(r) = r[1] /\ Len(r) = Len(t) + Len(s) /\ Len(r) # 0
        /\ \A i \in 1..Len(t) + Len(s) : r[i] = IF i <= Len(t) THEN t[i] ELSE s[i - Len(t)]
    <3>1. Head(r) = r[1] /\ Len(r) # 0 BY <1>6, <1>8
    <3>2. /\ Len(r) = Len(t) + Len(s)
          /\ \A i \in 1..Len(t) + Len(s) : r[i] = IF i <= Len(t) THEN t[i] ELSE s[i - Len(t)]
      <4>1. /\ Len(t \o s) = Len(t) + Len(s)
            /\ \A i \in 1..Len(t) + Len(s) : (t \o s)[i] = IF i <= Len(t) THEN t[i] ELSE s[i - Len(t)]
        BY <1>2, <1>3, ConcatProperties
      <4> QED BY <1>4, <4>1
    <3> QED BY <3>1, <3>2
  <2> HIDE DEF r
  <2>3. CASE v < Len(q)
    <3>1. 1 \in 1..Len(q) - v /\ 1 \in 1..Len(t) + Len(s) /\ 1 <= Len(t) /\ 1 + v = v + 1
      BY <1>1, <1>3, <2>1, <2>3
    <3>2. Head(r) = q[v + 1] BY <1>3, <2>2, <3>1
    <3>3. ~Expired(q[v + 1], now) /\ peers[q[v + 1]].pushedBack
      BY <1>1, <2>3 DEF Settled, q
    <3> QED BY <3>2, <3>3
  <2>4. CASE ~(v < Len(q))
    <3>1. Len(t) = 0 /\ 1 \in 1..Len(s) /\ 1 \in 1..Len(t) + Len(s) /\ ~(1 <= Len(t)) /\ 1 - Len(t) = 1
      <4>0. Len(q) \in Nat /\ v \in 0..Len(q) BY <1>1
      <4>1. v = Len(q) BY <2>4, <4>0
      <4>2. Len(t) = 0 BY <1>1, <1>3, <4>1
      <4>3. Len(s) # 0 BY <2>2, <4>2
      <4> QED BY <2>1, <4>2, <4>3
    <3>2. Head(r) = s[1] BY <2>2, <3>1
    <3>3. s[1] \in Range(s) BY <2>1, <3>1 DEF Range
    <3>4. \A x \in Survivors(v, now) : ~Expired(x, now) BY DEF Survivors
    <3> QED BY <1>2, <3>2, <3>3, <3>4
  <2> QED BY <2>3, <2>4
<1>9. Range(s) \subseteq Range(r) BY <1>6
<1> QED BY <1>6, <1>7, <1>8, <1>9 DEF q, s

-----------------------------------------------------------------------------
(* The times of the peers. *)

\* A peer that was put at the end of the queue at the time "at", last
PeerTimes(at, peer, now) ==
  /\ at <= now /\ peer.updated <= now
  /\ at <= peer.updated + ExpireTime
  /\ peer.pushedBack => peer.updated <= at

QueuedAt(c, q, p, now) ==
  /\ c \in [Range(q) -> Nat]
  /\ \A k \in Range(q) : PeerTimes(c[k], p[k], now)
  /\ \A i, j \in DOMAIN q : i <= j => c[q[i]] <= c[q[j]]

\* Peers that are queued in time are so for every later time.
LEMMA TimesLater ==
  ASSUME NEW q, NEW p \in [Range(q) -> Peer], NEW m \in Nat, NEW n \in Nat, m <= n,
         NEW c, QueuedAt(c, q, p, m)
  PROVE  QueuedAt(c, q, p, n)
<1>1. \A k \in Range(q) : p[k].updated \in Nat /\ c[k] \in Nat BY DEF Peer, QueuedAt
<1>2. ASSUME NEW k \in Range(q) PROVE PeerTimes(c[k], p[k], n)
  <2>1. PeerTimes(c[k], p[k], m) BY DEF QueuedAt
  <2> QED BY <1>1, <2>1 DEF PeerTimes
<1> QED BY <1>2 DEF QueuedAt

\* A peer is heard of for the first time.
LEMMA JoinTimes ==
  ASSUME NEW q \in Seq(Key), IsInjective(q), NEW key \in Key, key \notin Range(q),
         NEW p \in [Range(q) -> Peer], NEW now \in Nat, NEW c, QueuedAt(c, q, p, now)
  PROVE  LET d == [k \in Range(q) \cup {key} |-> IF k = key THEN now ELSE c[k]]
             r == [k \in Range(q) \cup {key} |->
                     IF k = key THEN [updated |-> now, pushedBack |-> TRUE] ELSE p[k]]
         IN  QueuedAt(d, Append(q, key), r, now)
<1> DEFINE d == [k \in Range(q) \cup {key} |-> IF k = key THEN now ELSE c[k]]
           r == [k \in Range(q) \cup {key} |->
                   IF k = key THEN [updated |-> now, pushedBack |-> TRUE] ELSE p[k]]
           a == Append(q, key)
<1>1. Range(a) = Range(q) \cup {key} BY AppendOnce
<1>2. /\ Len(q) \in Nat /\ DOMAIN q = 1..Len(q) /\ DOMAIN a = 1..Len(q) + 1
      /\ a[Len(q) + 1] = key /\ \A i \in 1..Len(q) : a[i] = q[i]
  OBVIOUS
<1> HIDE DEF a
<1>3. d[key] = now /\ \A k \in Range(q) : d[k] = c[k] OBVIOUS
<1>4. r[key] = [updated |-> now, pushedBack |-> TRUE] /\ \A k \in Range(q) : r[k] = p[k] OBVIOUS
<1>5. \A k \in Range(q) : c[k] \in Nat /\ c[k] <= now /\ PeerTimes(c[k], p[k], now)
  BY DEF QueuedAt, PeerTimes
<1>6. d \in [Range(a) -> Nat] BY <1>1, <1>5
<1> HIDE DEF d, r
<1>7. PeerTimes(d[key], r[key], now)
  BY <1>3, <1>4, ExpireAssumption DEF PeerTimes
<1>8. \A k \in Range(a) : PeerTimes(d[k], r[k], now) BY <1>1, <1>3, <1>4, <1>5, <1>7
<1>9. ASSUME NEW i \in DOMAIN a, NEW j \in DOMAIN a, i <= j PROVE d[a[i]] <= d[a[j]]
  <2>1. \A k \in 1..Len(q) : q[k] \in Range(q) BY <1>2 DEF Range
  <2>2. \A k \in DOMAIN a : k = Len(q) + 1 \/ k \in 1..Len(q) BY <1>2
  <2>3. CASE j = Len(q) + 1
    <3>1. d[a[j]] = now BY <1>2, <1>3, <2>3
    <3>2. d[a[i]] <= now BY <1>2, <1>3, <1>5, <2>1, <2>2
    <3> QED BY <3>1, <3>2
  <2>4. CASE j # Len(q) + 1
    <3>1. j \in 1..Len(q) /\ i \in 1..Len(q) BY <1>2, <1>9, <2>2, <2>4
    <3>2. c[q[i]] <= c[q[j]] BY <1>2, <1>9, <3>1 DEF QueuedAt
    <3> QED BY <1>2, <1>3, <2>1, <3>1, <3>2
  <2> QED BY <2>3, <2>4
<1> QED BY <1>6, <1>8, <1>9 DEF QueuedAt, a, d, r

\* The peers after a check
AfterCheck(now) ==
  [key \in Range(Rotated(now)) |->
     [peers[key] EXCEPT !.pushedBack = @ \/ Contains(Moved(now), key)]]

\* The check changes no peer's time, and marks those that it moved back.
LEMMA CheckedAre ==
  ASSUME PeersTyped, NEW now
  PROVE  /\ AfterCheck(now) \in [Range(Rotated(now)) -> Peer]
         /\ \A k \in Range(Rotated(now)) :
              /\ k \in Range(clockQueue)
              /\ AfterCheck(now)[k].updated = peers[k].updated
              /\ AfterCheck(now)[k].pushedBack <=> peers[k].pushedBack \/ k \in Range(Moved(now))
<1> DEFINE R == Range(Rotated(now))
           M == Range(Moved(now))
<1>1. R \subseteq Range(clockQueue) BY Rotation DEF PeersTyped
<1>2. Moved(now) \in Seq(Key) BY MovedAre, WhereItStops DEF PeersTyped
<1>3. \A k : Contains(Moved(now), k) <=> k \in M BY <1>2 DEF Contains, Range
<1>4. ASSUME NEW k \in R
      PROVE  /\ AfterCheck(now)[k] \in Peer
             /\ AfterCheck(now)[k].updated = peers[k].updated
             /\ AfterCheck(now)[k].pushedBack <=> peers[k].pushedBack \/ k \in M
  <2>1. peers[k] \in Peer BY <1>1 DEF PeersTyped
  <2>2. AfterCheck(now)[k] = [peers[k] EXCEPT !.pushedBack = @ \/ Contains(Moved(now), k)]
    BY DEF AfterCheck
  <2> DEFINE b == peers[k].pushedBack \/ Contains(Moved(now), k)
  <2>3. AfterCheck(now)[k] = [updated |-> peers[k].updated, pushedBack |-> b]
    BY <2>1, <2>2 DEF Peer
  <2>4. b \in BOOLEAN OBVIOUS
  <2>5. b <=> peers[k].pushedBack \/ k \in M BY <1>3
  <2> HIDE DEF b
  <2>6. peers[k].updated \in Nat BY <2>1 DEF Peer
  <2>7. AfterCheck(now)[k] \in Peer BY <2>3, <2>4, <2>6 DEF Peer
  <2>8. AfterCheck(now)[k].pushedBack = b BY <2>3
  <2> QED BY <2>3, <2>5, <2>7, <2>8
<1>5. DOMAIN AfterCheck(now) = R /\ AfterCheck(now) = [k \in R |-> AfterCheck(now)[k]] BY DEF AfterCheck
<1> HIDE DEF R, M
<1>6. AfterCheck(now) \in [R -> Peer] BY <1>4, <1>5
<1> QED BY <1>1, <1>4, <1>6 DEF R, M

\* After a check the times hold again, and the next check is not later than a period after
\* its peer was put in the queue.
LEMMA CheckTimes ==
  ASSUME PeersTyped, NEW now \in Nat, NEW c, QueuedAt(c, clockQueue, peers, now)
  PROVE  \E d : /\ QueuedAt(d, Rotated(now), AfterCheck(now), now)
                /\ Rotated(now) # <<>> =>
                     peers[Head(Rotated(now))].updated <= d[Head(Rotated(now))]
<1> DEFINE q == clockQueue
           v == Visited(now)
           s == Moved(now)
           t == SubSeq(q, v + 1, Len(q))
           r == Rotated(now)
           p == AfterCheck(now)
           d == [k \in Range(r) |-> IF k \in Range(s) THEN now ELSE c[k]]
<1>1. /\ Len(q) \in Nat /\ DOMAIN q = 1..Len(q) /\ q \in Seq(Key) /\ IsInjective(q) /\ v \in 0..Len(q)
  BY WhereItStops DEF PeersTyped, QueueTyped
<1>2. s \in Seq(Key) /\ Range(s) = Survivors(v, now) BY <1>1, MovedAre DEF PeersTyped
<1>3. /\ t \in Seq(Key) /\ Len(t) = Len(q) - v /\ \A i \in 1..Len(q) - v : t[i] = q[i + v]
  BY <1>1, PartOnce
<1>4. r \in Seq(Key) /\ Range(r) \subseteq Range(q) /\ Range(s) \subseteq Range(r)
      /\ (r # <<>> => peers[Head(r)].pushedBack \/ Head(r) \in Range(s))
  BY Rotation DEF PeersTyped
<1>5. p \in [Range(r) -> Peer]
      /\ \A k \in Range(r) : /\ p[k].updated = peers[k].updated
                             /\ p[k].pushedBack <=> peers[k].pushedBack \/ k \in Range(s)
  BY CheckedAre
<1>6. r = t \o s BY DEF Rotated
<1>7. \A k \in Range(s) : ~Expired(k, now) BY <1>2 DEF Survivors
<1>8. \A k \in Range(q) : /\ c[k] \in Nat /\ peers[k].updated \in Nat
                          /\ PeerTimes(c[k], peers[k], now)
  <2>1. \A k \in Range(q) : peers[k] \in Peer BY DEF PeersTyped
  <2> QED BY <2>1 DEF QueuedAt, Peer
<1> HIDE DEF q, v, s, t, r, p
<1>9. \A k \in Range(s) : k \in Range(r) /\ d[k] = now BY <1>4
<1>10. \A k \in Range(r) : k \in Range(s) \/ d[k] = c[k] OBVIOUS
<1>11. d \in [Range(r) -> Nat] BY <1>4, <1>8
<1> HIDE DEF d
<1>12. \A k \in Range(r) : d[k] \in Nat /\ d[k] <= now
  <2>1. \A k \in Range(q) : c[k] <= now BY <1>8 DEF PeerTimes
  <2> QED BY <1>4, <1>9, <1>10, <1>11, <2>1
<1>13. ASSUME NEW k \in Range(r) PROVE PeerTimes(d[k], p[k], now) 
  <2>1. k \in Range(q) BY <1>4
  <2>2. PeerTimes(c[k], peers[k], now) /\ peers[k].updated \in Nat BY <1>8, <2>1
  <2>3. p[k].updated = peers[k].updated BY <1>5
  <2>4. CASE k \in Range(s)
    <3>1. ~(now - peers[k].updated >= ExpireTime) BY <1>7, <2>4 DEF Expired
    <3>2. d[k] = now BY <1>9, <2>4
    <3>3. peers[k].updated <= now BY <2>2 DEF PeerTimes
    <3>4. now <= peers[k].updated + ExpireTime BY <2>2, <3>1, ExpireAssumption
    <3> QED BY <2>3, <3>2, <3>3, <3>4 DEF PeerTimes
  <2>5. CASE k \notin Range(s)
    <3>1. d[k] = c[k] BY <1>10, <2>5
    <3>2. p[k].pushedBack <=> peers[k].pushedBack BY <1>5, <2>5
    <3> QED BY <2>2, <2>3, <3>1, <3>2 DEF PeerTimes
  <2> QED BY <2>4, <2>5
<1>14. ASSUME NEW i \in DOMAIN r, NEW j \in DOMAIN r, i <= j PROVE d[r[i]] <= d[r[j]]
  <2>1. /\ Len(r) = Len(t) + Len(s) /\ Len(s) \in Nat /\ Len(t) \in Nat
        /\ DOMAIN r = 1..Len(t) + Len(s) /\ DOMAIN s = 1..Len(s)
        /\ \A k \in 1..Len(t) + Len(s) : r[k] = IF k <= Len(t) THEN t[k] ELSE s[k - Len(t)]
    <3>1. /\ Len(t \o s) = Len(t) + Len(s)
          /\ \A k \in 1..Len(t) + Len(s) : (t \o s)[k] = IF k <= Len(t) THEN t[k] ELSE s[k - Len(t)]
      BY <1>2, <1>3, ConcatProperties
    <3>2. Len(s) \in Nat /\ Len(t) \in Nat /\ DOMAIN s = 1..Len(s) /\ DOMAIN r = 1..Len(r)
      BY <1>2, <1>3, <1>4
    <3> QED BY <1>6, <3>1, <3>2
  <2>2. r[i] \in Range(r) /\ r[j] \in Range(r) BY DEF Range
  <2>3. CASE r[j] \in Range(s) BY <1>9, <1>12, <2>2, <2>3
  <2>4. CASE r[j] \notin Range(s)
    <3>1. j <= Len(t)
      <4>1. CASE ~(j <= Len(t))
        <5>1. r[j] = s[j - Len(t)] /\ j - Len(t) \in 1..Len(s) BY <2>1, <4>1
        <5>2. r[j] \in Range(s) BY <2>1, <5>1 DEF Range
        <5> QED BY <2>4, <5>2
      <4> QED BY <4>1
    <3>2. i \in 1..Len(q) - v /\ j \in 1..Len(q) - v /\ r[i] = t[i] /\ r[j] = t[j]
      BY <1>3, <1>14, <2>1, <3>1
    <3>3. r[i] = q[i + v] /\ r[j] = q[j + v] BY <1>3, <3>2
    <3>4. i + v \in DOMAIN q /\ j + v \in DOMAIN q /\ i + v <= j + v BY <1>1, <1>14, <3>2
    <3>5. c[r[i]] <= c[r[j]] BY <3>3, <3>4 DEF QueuedAt, q
    <3>6. r[i] \notin Range(s)
      <4>1. \A k \in 1..v : k \in DOMAIN q /\ k # i + v BY <1>1, <3>2
      <4>2. \A k \in 1..v : q[k] # q[i + v] BY <1>1, <3>4, <4>1 DEF IsInjective
      <4> QED BY <1>2, <3>3, <4>2 DEF Survivors, q
    <3> QED BY <1>10, <2>2, <2>4, <3>5, <3>6
  <2> QED BY <2>3, <2>4
<1>15. QueuedAt(d, r, p, now) BY <1>11, <1>13, <1>14 DEF QueuedAt
<1>16. ASSUME r # <<>> PROVE peers[Head(r)].updated <= d[Head(r)]
  <2>1. Head(r) \in Range(r)
    <3>1. Head(r) = r[1] /\ 1 \in DOMAIN r BY <1>4, <1>16
    <3> QED BY <3>1 DEF Range
  <2>2. Head(r) \in Range(q) BY <1>4, <2>1
  <2>3. p[Head(r)].pushedBack BY <1>4, <1>5, <1>16, <2>1
  <2>4. PeerTimes(d[Head(r)], p[Head(r)], now) BY <1>13, <2>1
  <2> QED BY <1>5, <2>1, <2>3, <2>4 DEF PeerTimes
<1> QED BY <1>15, <1>16 DEF r, p

-----------------------------------------------------------------------------
(* The invariant. *)

\* In compact time the next check is not later than a period after the first peer was put
\* in the queue.
Timely(q, p, E, t) ==
  \E c : /\ QueuedAt(c, q, p, t \div TicksPerMs)
         /\ \A e \in E : t <= e.due /\ e.due \div TicksPerMs <= c[Head(q)] + ExpireTime

OneCheck(q, E) == IF q = <<>> THEN E = {} ELSE \E e : E = {e}

TrackerInv ==
  /\ SchedulerInv({Checker})
  /\ PeersTyped
  /\ checkScheduled = (clockQueue # <<>>)
  /\ OneCheck(clockQueue, events)
  /\ ~realtime => Timely(clockQueue, peers, events, clock)

\* The milli-seconds of a time that lies n of them later are n more.
LEMMA MsAfter ==
  ASSUME NEW n \in Nat, NEW c \in Nat
  PROVE  (n * TicksPerMs + c) \div TicksPerMs = n + c \div TicksPerMs
<1> DEFINE T == TicksPerMs
           a == c \div T
           b == (n * T + c) \div T
<1>1. T \in Nat \ {0} BY TicksAssumption
<1>2. a \in Nat /\ a * T <= c /\ c < (a + 1) * T BY <1>1
<1>3. n * T \in Nat BY <1>1
<1>4. b \in Nat /\ b * T <= n * T + c /\ n * T + c < (b + 1) * T BY <1>1, <1>3
<1> HIDE DEF a, b
<1>5. (n + a) * T = n * T + a * T /\ (n + a + 1) * T = n * T + (a + 1) * T BY <1>1, <1>2
<1>6. ASSUME b + 1 <= n + a PROVE FALSE
  <2>1. (b + 1) * T <= (n + a) * T BY <1>2, <1>4, <1>6, TicksGrow
  <2>2. (b + 1) * T \in Int /\ (n + a) * T \in Int BY <1>1, <1>2, <1>4
  <2>3. a * T \in Int BY <1>1, <1>2
  <2> QED BY <1>2, <1>3, <1>4, <1>5, <2>1, <2>2, <2>3
<1>7. ASSUME n + a + 1 <= b PROVE FALSE
  <2>1. (n + a + 1) * T <= b * T BY <1>2, <1>4, <1>7, TicksGrow
  <2>2. (n + a + 1) * T \in Int /\ b * T \in Int /\ (a + 1) * T \in Int BY <1>1, <1>2, <1>4
  <2> QED BY <1>2, <1>3, <1>4, <1>5, <2>1, <2>2
<1>8. b = n + a BY <1>2, <1>4, <1>6, <1>7
<1> QED BY <1>8 DEF a, b

\* Lags are numbers, and there are none in simulated time.
LEMMA LagsAre == ASSUME SchedulerInv({Checker}) PROVE Lags \subseteq Nat /\ (~realtime => Lags = {0})
BY TicksAssumption DEF Lags, SchedulerInv

\* The tracker's timer is one typed request.
LEMMA ChecksTyped == ASSUME NEW ms \in Nat PROVE Check(ms) \in RequestsOf({Checker})
<1>1. Checker \in {Checker} /\ TRUE \in BOOLEAN OBVIOUS
<1> QED BY <1>1, OneRequest DEF Check

\* The tracker's timer adds one event, due after its delay.
LEMMA NewCheck ==
  ASSUME NEW from, NEW lag, NEW ms
  PROVE  NewEvents(from, lag, Check(ms))
           = {[due |-> Due(from, lag, ms), no |-> registered + 1, who |-> Checker]}
<1> DEFINE r == Check(ms)
<1>1. DOMAIN r = {1} /\ r[1].who = Checker /\ r[1].ms = ms /\ r[1].wanted BY DEF Check
<1> HIDE DEF r
<1>2. {j \in DOMAIN r : r[j].wanted} = {1} BY <1>1
<1>3. NewEvents(from, lag, r)
        = {[due |-> Due(from, lag, ms), no |-> registered + 1, who |-> Checker]}
  BY <1>1, <1>2 DEF NewEvents
<1> QED BY <1>3 DEF r

\* A peer that is known is heard of again.
LEMMA HeardAgain ==
  ASSUME NEW q, NEW p \in [Range(q) -> Peer], NEW key \in Range(q), NEW now \in Nat,
         NEW c, QueuedAt(c, q, p, now),
         NEW r, r = [k \in Range(q) \cup {key} |->
                       IF k = key THEN [updated |-> now, pushedBack |-> FALSE] ELSE p[k]]
  PROVE  QueuedAt(c, q, r, now)
<1>1. r[key] = [updated |-> now, pushedBack |-> FALSE] /\ \A k \in Range(q) : k # key => r[k] = p[k]
  OBVIOUS
<1>2. \A k \in Range(q) : c[k] \in Nat /\ PeerTimes(c[k], p[k], now) BY DEF QueuedAt
<1>3. c[key] <= now BY <1>2 DEF PeerTimes
<1>4. PeerTimes(c[key], r[key], now) BY <1>1, <1>2, <1>3, ExpireAssumption DEF PeerTimes
<1>5. \A k \in Range(q) : PeerTimes(c[k], r[k], now) BY <1>1, <1>2, <1>4
<1> QED BY <1>5 DEF QueuedAt

\* A peer that reports itself keeps the tracker's invariant.
LEMMA DownloadingKeeps ==
  ASSUME TrackerInv, NEW torrent \in Torrent, NEW id \in PeerId, NEW lag \in Lags,
         Downloading(torrent, id, lag)
  PROVE  TrackerInv'
<1> DEFINE key == <<torrent, id>>
           now == (clock + lag) \div TicksPerMs
           q == clockQueue
           b == key \notin Known
           p == [k \in Known \cup {key} |->
                   IF k = key THEN [updated |-> now, pushedBack |-> b] ELSE peers[k]]
           rs == IF checkScheduled THEN <<>> ELSE Check(ExpireTime)
<1>0. /\ key \in Key /\ lag \in Nat /\ (~realtime => lag = 0) /\ clock \in Nat /\ realtime \in BOOLEAN
  BY LagsAre DEF TrackerInv, Key, SchedulerInv
<1>1. now \in Nat BY <1>0, MsBounds
<1>2. /\ q \in Seq(Key) /\ IsInjective(q) /\ peers \in [Range(q) -> Peer] /\ Known = Range(q)
      /\ checkScheduled = (q # <<>>) /\ OneCheck(q, events)
  BY DEF TrackerInv, PeersTyped, QueueTyped, Known
<1>3. /\ peers' = p /\ clockQueue' = (IF key \in Known THEN q ELSE Append(q, key))
      /\ checkScheduled' = TRUE /\ Register(lag, rs)
  BY DEF Downloading, Heard, Queued
<1>4. rs \in RequestsOf({Checker}) BY ChecksTyped, NoRequest, ExpireAssumption
<1>5. SchedulerInv({Checker})' BY <1>0, <1>3, <1>4, RegisterKeeps DEF TrackerInv
<1>6. /\ clock' = clock + lag /\ realtime' = realtime
      /\ events' = events \cup NewEvents(clock, lag, rs)
  BY <1>3 DEF Register
<1> HIDE DEF key, now, p, rs, b
<1>7. b \in BOOLEAN BY DEF b
<1>8. p \in [Range(q) \cup {key} -> Peer]
  <2>1. [updated |-> now, pushedBack |-> b] \in Peer BY <1>1, <1>7 DEF Peer
  <2> QED BY <1>2, <2>1 DEF p
<1>9. CASE key \in Known
  <2>1. q # <<>>
    <3>1. CASE q = <<>>
      <4>1. Range(q) = {} BY <3>1 DEF Range
      <4> QED BY <1>2, <1>9, <4>1
    <3> QED BY <3>1
  <2>2. clockQueue' = q /\ events' = events /\ Range(q) \cup {key} = Range(q)
    BY <1>2, <1>3, <1>6, <1>9, <2>1, NoNewEvent DEF rs
  <2>3. PeersTyped' BY <1>2, <1>3, <1>8, <2>2 DEF PeersTyped, QueueTyped
  <2>4. checkScheduled' = (clockQueue' # <<>>) BY <1>3, <2>1, <2>2
  <2>5. OneCheck(clockQueue', events') BY <1>2, <2>2
  <2>6. ASSUME ~realtime PROVE Timely(q, p, events, clock)
    <3>1. PICK c : /\ QueuedAt(c, q, peers, clock \div TicksPerMs)
                   /\ \A e \in events : clock <= e.due /\ e.due \div TicksPerMs <= c[Head(q)] + ExpireTime
      BY <2>6 DEF TrackerInv, Timely
    <3>2. now = clock \div TicksPerMs BY <1>0, <2>6 DEF now
    <3>3. b = FALSE BY <1>9 DEF b
    <3>4. p = [k \in Range(q) \cup {key} |->
                 IF k = key THEN [updated |-> now, pushedBack |-> FALSE] ELSE peers[k]]
      BY <1>2, <3>3 DEF p
    <3>5. key \in Range(q) /\ QueuedAt(c, q, peers, now) BY <1>2, <1>9, <3>1, <3>2
    <3>6. QueuedAt(c, q, p, now) BY <1>1, <1>2, <3>4, <3>5, HeardAgain
    <3> QED BY <3>1, <3>2, <3>6 DEF Timely
  <2>7. ~realtime' => Timely(clockQueue', peers', events', clock')
    <3>1. ~realtime => clock' = clock BY <1>0, <1>6
    <3>2. realtime' = realtime /\ peers' = p BY <1>3, <1>6
    <3> QED BY <2>2, <2>6, <3>1, <3>2
  <2> QED BY <1>5, <2>3, <2>4, <2>5, <2>7 DEF TrackerInv
<1>10. CASE key \notin Known
  <2> DEFINE a == Append(q, key)
  <2>1. a \in Seq(Key) /\ IsInjective(a) /\ Range(a) = Range(q) \cup {key}
    BY <1>0, <1>2, <1>10, AppendOnce
  <2>2. a # <<>> /\ (q # <<>> => Head(a) = Head(q)) /\ (q = <<>> => Head(a) = key)
    BY <1>2
  <2> HIDE DEF a
  <2>3. clockQueue' = a BY <1>3, <1>10 DEF a
  <2>4. PeersTyped' BY <1>3, <1>8, <2>1, <2>3 DEF PeersTyped, QueueTyped
  <2>5. checkScheduled' = (clockQueue' # <<>>) BY <1>3, <2>2, <2>3
  <2> DEFINE e1 == [due |-> Due(clock, lag, ExpireTime), no |-> registered + 1, who |-> Checker]
  <2>6. events' = IF q = <<>> THEN {e1} ELSE events
    <3>1. CASE q = <<>>
      <4>1. events = {} BY <1>2, <3>1 DEF OneCheck
      <4>2. NewEvents(clock, lag, rs) = {e1} BY <1>2, <3>1, NewCheck DEF rs
      <4> QED BY <1>6, <3>1, <4>1, <4>2
    <3>2. CASE q # <<>>
      <4>1. NewEvents(clock, lag, rs) = {} BY <1>2, <3>2, NoNewEvent DEF rs
      <4> QED BY <1>6, <3>2, <4>1
    <3> QED BY <3>1, <3>2
  <2> HIDE DEF e1
  <2>7. OneCheck(clockQueue', events')
    BY <1>2, <2>2, <2>3, <2>6 DEF OneCheck
  <2>8. ASSUME ~realtime PROVE Timely(a, p, events', clock)
    <3>1. PICK c : /\ QueuedAt(c, q, peers, clock \div TicksPerMs)
                   /\ \A e \in events : clock <= e.due /\ e.due \div TicksPerMs <= c[Head(q)] + ExpireTime
      BY <2>8 DEF TrackerInv, Timely
    <3> DEFINE d == [k \in Range(q) \cup {key} |-> IF k = key THEN now ELSE c[k]]
    <3>2. now = clock \div TicksPerMs BY <1>0, <2>8 DEF now
    <3>3. QueuedAt(d, a, p, now)
      BY <1>0, <1>1, <1>2, <1>10, <3>1, <3>2, JoinTimes DEF p, b, a
    <3>4. ASSUME NEW e \in events' PROVE clock <= e.due /\ e.due \div TicksPerMs <= d[Head(a)] + ExpireTime
      <4>1. CASE q # <<>>
        <5>1. e \in events BY <2>6, <4>1
        <5>2. Head(q) \in Range(q)
          <6>1. Head(q) = q[1] /\ 1 \in DOMAIN q BY <1>2, <4>1
          <6> QED BY <6>1 DEF Range
        <5>3. d[Head(a)] = c[Head(q)] BY <1>2, <1>10, <2>2, <4>1, <5>2
        <5> QED BY <3>1, <5>1, <5>3
      <4>2. CASE q = <<>>
        <5>1. e.due = ExpireTime * TicksPerMs + clock
          <6>1. e = e1 BY <2>6, <4>2
          <6>2. e.due = ExpireTime * TicksPerMs + clock + lag BY <6>1 DEF e1, Due
          <6>3. ExpireTime * TicksPerMs \in Nat BY ExpireAssumption, TicksAssumption
          <6> QED BY <1>0, <2>8, <6>2, <6>3
        <5>2. e.due \div TicksPerMs = ExpireTime + now
          BY <1>0, <3>2, <5>1, MsAfter, ExpireAssumption
        <5>3. d[Head(a)] = now BY <2>2, <4>2
        <5>4. ExpireTime * TicksPerMs \in Nat BY ExpireAssumption, TicksAssumption
        <5> HIDE DEF d
        <5>5. clock <= e.due BY <1>0, <5>1, <5>4
        <5>6. e.due \div TicksPerMs <= now + ExpireTime BY <1>1, <5>2, ExpireAssumption
        <5> QED BY <5>3, <5>5, <5>6
      <4> QED BY <4>1, <4>2
    <3> QED BY <3>2, <3>3, <3>4 DEF Timely
  <2>9. ~realtime' => Timely(clockQueue', peers', events', clock')
    <3>1. ~realtime => clock' = clock BY <1>0, <1>6
    <3>2. realtime' = realtime /\ peers' = p BY <1>3, <1>6
    <3> QED BY <2>3, <2>8, <3>1, <3>2
  <2> QED BY <1>5, <2>4, <2>5, <2>7, <2>9 DEF TrackerInv
<1> QED BY <1>9, <1>10

\* The check for expired peers keeps the tracker's invariant.
LEMMA CheckKeeps ==
  ASSUME TrackerInv, CheckForExpiredPeers
  PROVE  TrackerInv'
<1> DEFINE q == clockQueue
<1>1. PICK lag \in Lags :
        LET now == (HandlerClock + lag) \div TicksPerMs
        IN  /\ clockQueue' = Rotated(now)
            /\ peers' = [key \in Range(Rotated(now)) |->
                           [peers[key] EXCEPT !.pushedBack = @ \/ Contains(Moved(now), key)]]
            /\ checkScheduled' = (Rotated(now) # <<>>)
            /\ ProcessNext(lag, NextCheck(Rotated(now), now))
  BY DEF CheckForExpiredPeers
<1> DEFINE now == (HandlerClock + lag) \div TicksPerMs
           r == Rotated(now)
           rs == NextCheck(r, now)
           h == Head(r)
           left == Remaining(h, now)
<1>2. clockQueue' = r /\ peers' = AfterCheck(now) /\ checkScheduled' = (r # <<>>) /\ ProcessNext(lag, rs)
  BY <1>1 DEF AfterCheck
<1>3. /\ lag \in Nat /\ (~realtime => lag = 0) /\ clock \in Nat /\ registered \in Nat
      /\ realtime \in BOOLEAN
  BY LagsAre DEF TrackerInv, SchedulerInv
<1>4. TimerExpired /\ events # {} BY <1>2 DEF ProcessNext
<1>5. First.due <= HandlerClock /\ HandlerClock \in Nat /\ First \in events
  BY <1>4, NotEarly DEF TrackerInv
<1>6. First.due \in Nat /\ First.no <= registered /\ First.no \in Nat
  BY <1>3, <1>5 DEF TrackerInv, SchedulerInv, EventsTyped
<1>7. events = {First} BY <1>5 DEF TrackerInv, OneCheck
<1>8. now \in Nat BY <1>3, <1>5, MsBounds
<1>9. PeersTyped /\ QueueTyped BY DEF TrackerInv, PeersTyped
<1> HIDE DEF now
<1>10. /\ r \in Seq(Key) /\ IsInjective(r) /\ Range(r) \subseteq Range(q)
       /\ r # <<>> => ~Expired(h, now)
  BY <1>9, Rotation
<1>11. AfterCheck(now) \in [Range(r) -> Peer] BY <1>9, CheckedAre
<1>12. PeersTyped' BY <1>2, <1>10, <1>11 DEF PeersTyped, QueueTyped
<1>13. ASSUME r # <<>>
       PROVE  h \in Range(r) /\ peers[h].updated \in Nat /\ left \in Nat
              /\ left + now = peers[h].updated + ExpireTime
  <2> HIDE DEF r
  <2>1. h \in Range(r)
    <3>1. h = r[1] /\ 1 \in DOMAIN r BY <1>10, <1>13
    <3> QED BY <3>1 DEF Range
  <2>2. peers[h] \in Peer BY <1>9, <1>10, <2>1 DEF PeersTyped
  <2>3. peers[h].updated \in Nat BY <2>2 DEF Peer
  <2>4. ~(now - peers[h].updated >= ExpireTime) BY <1>10, <1>13 DEF Expired
  <2>5. left = ExpireTime - (now - peers[h].updated) BY DEF Remaining
  <2> HIDE DEF left, h
  <2> QED BY <1>8, <2>1, <2>3, <2>4, <2>5, ExpireAssumption
<1>14. rs \in RequestsOf({Checker})
  BY <1>13, ChecksTyped, NoRequest DEF NextCheck
<1>15. SchedulerInv({Checker})' BY <1>2, <1>3, <1>14, ProcessNextKeeps DEF TrackerInv
<1> DEFINE e1 == [due |-> Due(HandlerClock, lag, left), no |-> registered + 1, who |-> Checker]
<1>16. events' = IF r = <<>> THEN {} ELSE {e1}
  <2>1. events' = (events \cup NewEvents(HandlerClock, lag, rs)) \ {First}
        BY <1>2 DEF ProcessNext
  <2>2. CASE r = <<>>
    <3>1. NewEvents(HandlerClock, lag, rs) = {} BY <2>2, NoNewEvent DEF NextCheck
    <3> QED BY <1>7, <2>1, <2>2, <3>1
  <2>3. CASE r # <<>>
    <3>1. NewEvents(HandlerClock, lag, rs) = {e1} BY <2>3, NewCheck DEF NextCheck
    <3>2. e1.no = registered + 1 OBVIOUS
    <3> HIDE DEF e1, r
    <3>3. e1 # First BY <1>3, <1>6, <3>2
    <3> QED BY <1>7, <2>1, <2>3, <3>1, <3>3
  <2> QED BY <2>2, <2>3
<1>17. clock' = HandlerClock + lag /\ realtime' = realtime BY <1>2 DEF ProcessNext
<1>18. OneCheck(clockQueue', events') BY <1>2, <1>16 DEF OneCheck
<1>19. ASSUME ~realtime PROVE Timely(r, AfterCheck(now), events', clock')
  <2>1. lag = 0 /\ HandlerClock = First.due /\ clock' = HandlerClock
    BY <1>3, <1>5, <1>17, <1>19 DEF HandlerClock
  <2>2. now = clock' \div TicksPerMs BY <1>17 DEF now
  <2>3. PICK c : /\ QueuedAt(c, q, peers, clock \div TicksPerMs)
                 /\ \A e \in events : clock <= e.due /\ e.due \div TicksPerMs <= c[Head(q)] + ExpireTime
    BY <1>19 DEF TrackerInv, Timely
  <2>4. clock <= HandlerClock BY <1>5, <2>1, <2>3
  <2>5. clock \div TicksPerMs \in Nat /\ clock \div TicksPerMs <= now
    <3>1. clock \div TicksPerMs <= HandlerClock \div TicksPerMs BY <1>3, <1>5, <2>4, MsGrow
    <3> QED BY <1>3, <2>1, <2>2, <3>1, MsBounds
  <2>6. QueuedAt(c, q, peers, now) BY <1>8, <1>9, <2>3, <2>5, TimesLater DEF PeersTyped
  <2>7. PICK d : /\ QueuedAt(d, r, AfterCheck(now), now)
                 /\ r # <<>> => peers[h].updated <= d[h]
    BY <1>8, <1>9, <2>6, CheckTimes
  <2>8. ASSUME NEW e \in events'
        PROVE  clock' <= e.due /\ e.due \div TicksPerMs <= d[h] + ExpireTime
    <3>1. r # <<>> /\ e = e1 BY <1>16
    <3>2. e.due = left * TicksPerMs + HandlerClock + lag BY <3>1 DEF Due
    <3>3. left \in Nat /\ left * TicksPerMs \in Nat BY <1>13, <3>1, TicksGrow
    <3> HIDE DEF left, e1
    <3>4. e.due = left * TicksPerMs + HandlerClock BY <1>5, <2>1, <3>2, <3>3
    <3>5. e.due \div TicksPerMs = left + HandlerClock \div TicksPerMs
      BY <1>5, <3>3, <3>4, MsAfter
    <3>6. e.due \div TicksPerMs = left + now BY <2>1, <2>2, <3>5
    <3>7. d[h] \in Nat /\ peers[h].updated <= d[h]
      <4>1. h \in Range(r) BY <1>13, <3>1
      <4> QED BY <2>7, <3>1, <4>1 DEF QueuedAt
    <3>8. left + now = peers[h].updated + ExpireTime /\ peers[h].updated \in Nat BY <1>13, <3>1
    <3>9. clock' <= e.due BY <1>5, <2>1, <3>3, <3>4
    <3> HIDE DEF h
    <3> QED BY <3>6, <3>7, <3>8, <3>9, ExpireAssumption
  <2> HIDE DEF r
  <2> QED BY <2>2, <2>7, <2>8 DEF Timely
<1>20. ~realtime' => Timely(clockQueue', peers', events', clock')
  BY <1>2, <1>17, <1>19
<1>21. checkScheduled' = (clockQueue' # <<>>) BY <1>2
<1> QED BY <1>12, <1>15, <1>18, <1>20, <1>21 DEF TrackerInv

\* The compact clock moves on with other events of the map, up to the next check.
LEMMA OthersKeep ==
  ASSUME TrackerInv, OtherEvents, UNCHANGED trackerVars
  PROVE  TrackerInv'
<1>1. /\ UNCHANGED <<realtime, events, timers, registered, clockQueue, peers, checkScheduled>>
      /\ clock' = clock + 1 /\ (events # {} => clock < First.due)
  BY DEF OtherEvents, trackerVars
<1>2. clock \in Nat /\ clock' \in Nat /\ clock <= clock' BY <1>1 DEF TrackerInv, SchedulerInv
<1>3. SchedulerInv({Checker})'
  <2>1. EventsTyped({Checker})' /\ TimersTyped' /\ TimersMatchEvents'
    BY <1>1 DEF TrackerInv, SchedulerInv, EventsTyped, TimersTyped, TimersMatchEvents
  <2> QED BY <1>1, <1>2, <2>1 DEF TrackerInv, SchedulerInv
<1>4. PeersTyped' BY <1>1 DEF TrackerInv, PeersTyped, QueueTyped
<1>5. ASSUME ~realtime PROVE Timely(clockQueue, peers, events, clock')
  <2>1. PICK c : /\ QueuedAt(c, clockQueue, peers, clock \div TicksPerMs)
                 /\ \A e \in events : /\ clock <= e.due
                                      /\ e.due \div TicksPerMs <= c[Head(clockQueue)] + ExpireTime
    BY <1>5 DEF TrackerInv, Timely
  <2>2. clock \div TicksPerMs <= clock' \div TicksPerMs BY <1>2, MsGrow
  <2>3. clock \div TicksPerMs \in Nat /\ clock' \div TicksPerMs \in Nat BY <1>2, MsBounds
  <2>4. QueuedAt(c, clockQueue, peers, clock' \div TicksPerMs)
    BY <2>1, <2>2, <2>3, TimesLater DEF TrackerInv, PeersTyped
  <2>5. ASSUME NEW e \in events PROVE clock' <= e.due
    <3>1. First \in events /\ events # {} BY FirstExists DEF TrackerInv, SchedulerInv
    <3>2. \E d : events = {d}
      <4>1. clockQueue # <<>> BY <3>1 DEF TrackerInv, OneCheck
      <4> QED BY <4>1 DEF TrackerInv, OneCheck
    <3>3. e = First BY <3>1, <3>2
    <3>4. First.due \in Nat BY <3>1 DEF TrackerInv, SchedulerInv, EventsTyped
    <3> QED BY <1>1, <1>2, <3>1, <3>3, <3>4
  <2> QED BY <2>1, <2>4, <2>5 DEF Timely
<1>6. ~realtime' => Timely(clockQueue', peers', events', clock') BY <1>1, <1>5
<1>7. OneCheck(clockQueue', events') /\ checkScheduled' = (clockQueue' # <<>>)
  BY <1>1 DEF TrackerInv
<1> QED BY <1>3, <1>4, <1>6, <1>7 DEF TrackerInv

\* What neither changes the peers nor asks for a check
LEMMA PeersRest ==
  ASSUME TrackerInv, UNCHANGED <<clockQueue, peers, checkScheduled, events, realtime>>,
         SchedulerInv({Checker})', ~realtime => clock' = clock
  PROVE  TrackerInv'
<1>1. PeersTyped' BY DEF TrackerInv, PeersTyped, QueueTyped
<1>2. ~realtime' => Timely(clockQueue', peers', events', clock')
  <2>1. ~realtime => Timely(clockQueue, peers, events, clock) BY DEF TrackerInv
  <2> QED BY <2>1
<1>3. OneCheck(clockQueue', events') /\ checkScheduled' = (clockQueue' # <<>>) BY DEF TrackerInv
<1> QED BY <1>1, <1>2, <1>3 DEF TrackerInv

\* The tracker starts within its invariant.
LEMMA TrackerStarts == ASSUME SchedulerInit, TrackerInit PROVE TrackerInv
<1>1. /\ clock = 0 /\ events = {} /\ timers = {} /\ registered = 0 /\ realtime \in BOOLEAN
      /\ clockQueue = <<>> /\ peers = <<>> /\ checkScheduled = FALSE
  BY DEF SchedulerInit, TrackerInit
<1>2. SchedulerInv({Checker}) BY SchedulerStarts
<1>3. Range(clockQueue) = {} /\ IsInjective(clockQueue) BY <1>1 DEF Range, IsInjective
<1>4. PeersTyped BY <1>1, <1>3 DEF PeersTyped, QueueTyped
<1>5. Timely(clockQueue, peers, events, clock)
  <2> DEFINE c == [k \in {} |-> 0]
  <2>1. DOMAIN clockQueue = {} BY <1>1
  <2>2. QueuedAt(c, clockQueue, peers, clock \div TicksPerMs)
    BY <1>3, <2>1 DEF QueuedAt
  <2> QED BY <1>1, <2>2 DEF Timely
<1>6. OneCheck(clockQueue, events) /\ checkScheduled = (clockQueue # <<>>) BY <1>1 DEF OneCheck
<1> QED BY <1>2, <1>4, <1>5, <1>6 DEF TrackerInv

\* Every step keeps the tracker's invariant.
LEMMA TrackerSteps ==
  ASSUME TrackerInv, [TrackerNext]_<<schedulerVars, trackerVars>>
  PROVE  TrackerInv'
<1>1. ASSUME NEW torrent \in Torrent, NEW id \in PeerId, NEW wanted,
             RequestPeers(torrent, id, wanted)
      PROVE  TrackerInv'
  <2>1. /\ UNCHANGED <<clockQueue, peers, checkScheduled>> /\ Register(0, << >>)
    BY <1>1 DEF RequestPeers
  <2>2. clock' = clock /\ events' = events /\ realtime' = realtime
    BY <2>1, NoNewEvent DEF Register, TrackerInv, SchedulerInv
  <2>3. SchedulerInv({Checker})' BY <2>1, NoRequest, RegisterKeeps DEF TrackerInv
  <2> QED BY <2>1, <2>2, <2>3, PeersRest
<1>2. CASE MessageArrives BY <1>1, <1>2, DownloadingKeeps DEF MessageArrives
<1>3. CASE CheckForExpiredPeers BY <1>3, CheckKeeps
<1>4. CASE OtherEvents /\ UNCHANGED trackerVars BY <1>4, OthersKeep
<1>5. CASE Tick /\ UNCHANGED trackerVars
  <2>1. UNCHANGED <<clockQueue, peers, checkScheduled, events, realtime>> /\ realtime
    BY <1>5 DEF Tick, trackerVars
  <2>2. SchedulerInv({Checker})' BY <1>5, TickKeeps DEF TrackerInv
  <2> QED BY <2>1, <2>2, PeersRest
<1>6. CASE UNCHANGED <<schedulerVars, trackerVars>>
  <2>1. UNCHANGED <<clockQueue, peers, checkScheduled, events, realtime, clock>>
    BY <1>6 DEF schedulerVars, trackerVars
  <2>2. SchedulerInv({Checker})' BY <1>6, IdleKeeps DEF TrackerInv
  <2> QED BY <2>1, <2>2, PeersRest
<1> QED BY <1>2, <1>3, <1>4, <1>5, <1>6 DEF TrackerNext

\* A peer is known exactly while it is in the queue, once, and a check is scheduled while
\* there is one; in compact time nobody stays for more than two periods after it was last
\* heard of (checkForExpiredPeers, which looks at the head of the queue only).
THEOREM PeersAreKept == TrackerSpec => []PeersKept
<1>1. ASSUME TrackerInv PROVE PeersQueuedOnce
  <2>1. /\ clockQueue \in Seq(Key) /\ IsInjective(clockQueue) /\ Known = Range(clockQueue)
        /\ checkScheduled = (clockQueue # <<>>)
    BY <1>1 DEF TrackerInv, PeersTyped, QueueTyped, Known
  <2>2. Len(clockQueue) = Cardinality(Known) BY <2>1, SizeOfQueue
  <2>3. {e \in events : e.who = Checker} = events
    BY <1>1 DEF TrackerInv, SchedulerInv, EventsTyped
  <2>4. Cardinality(events) = IF checkScheduled THEN 1 ELSE 0
    <3>1. CASE clockQueue = <<>>
      <4>1. events = {} BY <1>1, <3>1 DEF TrackerInv, OneCheck
      <4> QED BY <2>1, <3>1, <4>1, FS_EmptySet
    <3>2. CASE clockQueue # <<>>
      <4>1. PICK e : events = {e} BY <1>1, <3>2 DEF TrackerInv, OneCheck
      <4> QED BY <2>1, <3>2, <4>1, FS_Singleton
    <3> QED BY <3>1, <3>2
  <2> QED BY <2>1, <2>2, <2>3, <2>4 DEF PeersQueuedOnce
<1>2. ASSUME TrackerInv PROVE PeersExpireInTime
  <2> SUFFICES ASSUME ~realtime, NEW key \in Known
               PROVE  CurrentMs - peers[key].updated <= 2 * ExpireTime
    BY DEF PeersExpireInTime
  <2> DEFINE q == clockQueue
  <2>1. q \in Seq(Key) /\ key \in Range(q) /\ peers \in [Range(q) -> Peer] /\ clock \in Nat
    BY <1>2 DEF TrackerInv, PeersTyped, QueueTyped, Known, SchedulerInv
  <2>2. PICK c : /\ QueuedAt(c, q, peers, clock \div TicksPerMs)
                 /\ \A e \in events : clock <= e.due /\ e.due \div TicksPerMs <= c[Head(q)] + ExpireTime
    BY <1>2 DEF TrackerInv, Timely
  <2>3. PICK k \in DOMAIN q : key = q[k] BY <2>1 DEF Range
  <2>4. 1 \in DOMAIN q /\ 1 <= k /\ Head(q) = q[1] /\ q # <<>> BY <2>1, <2>3
  <2>5. PICK e : events = {e} BY <1>2, <2>4 DEF TrackerInv, OneCheck
  <2>6. e.due \in Nat BY <1>2, <2>5 DEF TrackerInv, SchedulerInv, EventsTyped
  <2>7. CurrentMs \in Nat /\ e.due \div TicksPerMs \in Nat /\ CurrentMs <= e.due \div TicksPerMs
    BY <2>1, <2>2, <2>5, <2>6, MsGrow, MsBounds DEF CurrentMs
  <2>8. c[q[1]] <= c[q[k]] BY <2>2, <2>4 DEF QueuedAt
  <2>9. q[1] \in Range(q) BY <2>4 DEF Range
  <2>10. c[q[1]] \in Nat /\ c[key] \in Nat BY <2>1, <2>2, <2>9 DEF QueuedAt
  <2>11. peers[key].updated \in Nat BY <2>1 DEF Peer
  <2>12. c[key] <= peers[key].updated + ExpireTime BY <2>1, <2>2 DEF QueuedAt, PeerTimes
  <2>13. e.due \div TicksPerMs <= c[q[1]] + ExpireTime BY <2>2, <2>4, <2>5
  <2> HIDE DEF q
  <2>14. CurrentMs <= c[key] + ExpireTime BY <2>3, <2>7, <2>8, <2>10, <2>13, ExpireAssumption
  <2> QED BY <2>7, <2>10, <2>11, <2>12, <2>14, ExpireAssumption
<1>3. TrackerInv => PeersKept BY <1>1, <1>2 DEF PeersKept
<1>4. SchedulerInit /\ TrackerInit => TrackerInv BY TrackerStarts
<1>5. TrackerInv /\ [TrackerNext]_<<schedulerVars, trackerVars>> => TrackerInv' BY TrackerSteps
<1> QED BY <1>3, <1>4, <1>5, PTL DEF TrackerSpec

(***************************************************************************)
(* Fifth: no part of the server uses a part that is already deleted, or not *)
(* yet made, whatever is made, fails and is deleted.                       *)
(***************************************************************************)

-----------------------------------------------------------------------------
(* The orders, place by place. *)

\* The parts that start, place by place
LEMMA StartPlaces ==
  /\ Len(StartOrder) = 10 /\ DOMAIN StartOrder = 1..10
  /\ StartOrder[1] = "database" /\ StartOrder[2] = "frames" /\ StartOrder[3] = "plugins"
  /\ StartOrder[4] = "driver" /\ StartOrder[5] = "transceivers" /\ StartOrder[6] = "loggers"
  /\ StartOrder[7] = "maps" /\ StartOrder[8] = "routers" /\ StartOrder[9] = "signals"
  /\ StartOrder[10] = "server"
BY DEF StartOrder

\* The order in which the parts are deleted, by places.
LEMMA StopPlaces ==
  /\ Len(StopOrder) = 11 /\ DOMAIN StopOrder = 1..11
  /\ StopOrder[1] = "server" /\ StopOrder[2] = "signals" /\ StopOrder[3] = "user maps"
  /\ StopOrder[4] = "routers" /\ StopOrder[5] = "maps" /\ StopOrder[6] = "loggers"
  /\ StopOrder[7] = "transceivers" /\ StopOrder[8] = "driver" /\ StopOrder[9] = "plugins"
  /\ StopOrder[10] = "frames" /\ StopOrder[11] = "database"
BY DEF StopOrder

\* The ten places of the order of starting.
LEMMA TenPlaces == \A k \in 1..10 : k \in {1, 2, 3, 4, 5, 6, 7, 8, 9, 10}
OBVIOUS

\* The eleven places of the order of stopping.
LEMMA ElevenPlaces == \A k \in 1..11 : k \in {1, 2, 3, 4, 5, 6, 7, 8, 9, 10, 11}
OBVIOUS

\* No part is started twice.
LEMMA StartedOnce == \A j, k \in 1..10 : StartOrder[j] = StartOrder[k] => j = k
BY StartPlaces, TenPlaces

Rank(part) ==
  CASE part = "server" -> 1 [] part = "signals" -> 2 [] part = "user maps" -> 3 [] part = "routers" -> 4
    [] part = "maps" -> 5 [] part = "loggers" -> 6 [] part = "transceivers" -> 7 [] part = "driver" -> 8
    [] part = "plugins" -> 9 [] part = "frames" -> 10 [] part = "database" -> 11

\* No part is deleted twice.
LEMMA StoppedOnce == \A j, k \in 1..11 : StopOrder[j] = StopOrder[k] => j = k
<1>1. ASSUME NEW k \in {1, 2, 3, 4, 5, 6, 7, 8, 9, 10, 11} PROVE Rank(StopOrder[k]) = k
  <2>1. CASE k \in {1, 2, 3, 4} BY <2>1, StopPlaces DEF Rank
  <2>2. CASE k \in {5, 6, 7, 8} BY <2>2, StopPlaces DEF Rank
  <2>3. CASE k \in {9, 10, 11} BY <2>3, StopPlaces DEF Rank
  <2> QED BY <2>1, <2>2, <2>3
<1>2. \A k \in 1..11 : Rank(StopOrder[k]) = k BY <1>1, ElevenPlaces
<1> QED BY <1>2

\* The parts that are started.
LEMMA StartedParts ==
  Range(StartOrder) = {"database", "frames", "plugins", "driver", "transceivers", "loggers", "maps",
                       "routers", "signals", "server"}
<1>1. \A p \in Range(StartOrder) : \E k \in 1..10 : p = StartOrder[k] BY StartPlaces DEF Range
<1>2. \A k \in {1, 2, 3, 4, 5, 6, 7, 8, 9, 10} : StartOrder[k] \in Range(StartOrder)
  BY StartPlaces DEF Range
<1> QED BY <1>1, <1>2, StartPlaces, TenPlaces

\* The parts that are deleted: those started, and the maps of the users.
LEMMA StoppedParts == Range(StopOrder) = Range(StartOrder) \cup {"user maps"}
<1> DEFINE All == {"database", "frames", "plugins", "driver", "transceivers", "loggers", "maps",
                   "routers", "signals", "server", "user maps"}
<1>1. ASSUME NEW k \in {1, 2, 3, 4, 5, 6, 7, 8, 9, 10, 11} PROVE StopOrder[k] \in All
  <2>1. CASE k \in {1, 2, 3, 4, 5, 6} BY <2>1, StopPlaces
  <2>2. CASE k \in {7, 8, 9, 10, 11} BY <2>2, StopPlaces
  <2> QED BY <2>1, <2>2
<1>2. \A k \in 1..11 : StopOrder[k] \in All BY <1>1, ElevenPlaces
<1>3. Range(StopOrder) \subseteq All BY <1>2, StopPlaces DEF Range
<1>4. \A k \in 1..11 : StopOrder[k] \in Range(StopOrder) BY StopPlaces DEF Range
<1>5. 1 \in 1..11 /\ 2 \in 1..11 /\ 3 \in 1..11 /\ 4 \in 1..11 /\ 5 \in 1..11 /\ 6 \in 1..11
      /\ 7 \in 1..11 /\ 8 \in 1..11 /\ 9 \in 1..11 /\ 10 \in 1..11 /\ 11 \in 1..11
  OBVIOUS
<1>6. {"database", "frames", "plugins", "driver", "transceivers", "loggers"} \subseteq Range(StopOrder)
  BY <1>4, <1>5, StopPlaces
<1>7. {"maps", "routers", "signals", "server", "user maps"} \subseteq Range(StopOrder)
  BY <1>4, <1>5, StopPlaces
<1> QED BY <1>3, <1>6, <1>7, StartedParts

-----------------------------------------------------------------------------
(* Which parts exist, at every stage. *)

Closed(parts) == \A part \in parts : Uses(part) \subseteq parts

\* While the server starts: those that were made, and a driver that is being made.
Rising(n, parts) ==
  /\ n \in 0..9 /\ parts \subseteq Range(StartOrder)
  /\ \A k \in 1..10 : StartOrder[k] \in parts <=> (k <= n \/ (k = 4 /\ n = 3 /\ "driver" \in parts))

Whole(parts) == Range(StartOrder) \subseteq parts /\ parts \subseteq Range(StopOrder)

\* While it stops: those that are still to be deleted.
Falling(n, parts) ==
  /\ n \in 0..11 /\ parts \subseteq Range(StopOrder)
  /\ \A k \in 1..11 : StopOrder[k] # "user maps" => (StopOrder[k] \in parts <=> k > n)
  /\ "user maps" \in parts => n < 3

PartsInv ==
  /\ process = "starting" => Rising(made, alive)
  /\ process = "serving" => Whole(alive)
  /\ process \in {"stopping", "ended"} => Falling(made, alive)
  /\ Closed(alive)

\* Handles are opened and closed by the parts that exist.
Hand == IF "loggers" \in alive THEN 1 ELSE 0

HandlesInv ==
  /\ adapters \in Seq(Nat) /\ IsInjective(adapters)
  /\ relays \subseteq Range(adapters) /\ IsFiniteSet(relays)
  /\ handles = Len(adapters) + Cardinality(relays) + Hand
  /\ process = "starting" =>
       /\ \A k \in DOMAIN adapters : adapters[k] = k
       /\ made < 7 => relays = {}
       /\ "driver" \notin alive => adapters = << >>

ProcessInv == process \in {"starting", "serving", "stopping", "ended", "failed"} /\ PartsInv /\ HandlesInv

\* What is made later uses only what was made before,
LEMMA RisingClosed == ASSUME NEW n, NEW parts, Rising(n, parts) PROVE Closed(parts)
<1> SUFFICES ASSUME NEW part \in parts PROVE Uses(part) \subseteq parts
  BY DEF Closed
<1>1. part \in Range(StartOrder) /\ n \in 0..9 BY DEF Rising
<1>2. /\ "frames" \in parts <=> 2 <= n
      /\ "plugins" \in parts <=> 3 <= n
      /\ "transceivers" \in parts <=> 5 <= n
      /\ "loggers" \in parts <=> 6 <= n
      /\ "maps" \in parts <=> 7 <= n
      /\ "routers" \in parts <=> 8 <= n
      /\ "database" \in parts <=> 1 <= n
      /\ ~("server" \in parts)
  BY StartPlaces DEF Rising
<1>3. /\ "driver" \in parts => 3 <= n
      /\ 4 <= n => "driver" \in parts
  BY StartPlaces DEF Rising
<1>4. CASE part = "routers" BY <1>1, <1>2, <1>3, <1>4 DEF Uses, MapUses
<1>5. CASE part = "loggers" BY <1>1, <1>2, <1>3, <1>5 DEF Uses
<1>6. CASE part = "driver" BY <1>1, <1>2, <1>3, <1>6 DEF Uses
<1>7. CASE part \notin {"routers", "loggers", "driver"}
  <2>1. part # "user maps" /\ part # "server" BY <1>1, <1>2, StartedParts
  <2> QED BY <1>7, <2>1 DEF Uses
<1> QED BY <1>4, <1>5, <1>6, <1>7

\* The whole process has, with each part, those that the part uses.
LEMMA WholeClosed == ASSUME NEW parts, Whole(parts) PROVE Closed(parts)
<1>1. \A part \in Range(StopOrder) : Uses(part) \subseteq Range(StartOrder)
  BY StartedParts, StoppedParts DEF Uses, MapUses
<1> QED BY <1>1 DEF Whole, Closed

\* and what is deleted first is used by nothing that is left.
LEMMA FallingClosed == ASSUME NEW n, NEW parts, Falling(n, parts) PROVE Closed(parts)
<1> SUFFICES ASSUME NEW part \in parts PROVE Uses(part) \subseteq parts
  BY DEF Closed
<1>1. part \in Range(StopOrder) /\ n \in 0..11 BY DEF Falling
<1>2. ASSUME NEW k \in 1..11, StopOrder[k] # "user maps" PROVE StopOrder[k] \in parts <=> k > n
  BY <1>2 DEF Falling
<1>3. /\ ("server" \in parts <=> 1 > n)
      /\ ("routers" \in parts <=> 4 > n)
      /\ ("maps" \in parts <=> 5 > n)
      /\ ("loggers" \in parts <=> 6 > n)
  <2>1. "server" \in parts <=> 1 > n
    <3>1. 1 \in 1..11 OBVIOUS
    <3>2. StopOrder[1] = "server" BY StopPlaces
    <3>3. "server" # "user maps" OBVIOUS
    <3> QED BY <1>2, <3>1, <3>2, <3>3
  <2>2. "routers" \in parts <=> 4 > n
    <3>1. 4 \in 1..11 OBVIOUS
    <3>2. StopOrder[4] = "routers" BY StopPlaces
    <3>3. "routers" # "user maps" OBVIOUS
    <3> QED BY <1>2, <3>1, <3>2, <3>3
  <2>3. "maps" \in parts <=> 5 > n
    <3>1. 5 \in 1..11 OBVIOUS
    <3>2. StopOrder[5] = "maps" BY StopPlaces
    <3>3. "maps" # "user maps" OBVIOUS
    <3> QED BY <1>2, <3>1, <3>2, <3>3
  <2>4. "loggers" \in parts <=> 6 > n
    <3>1. 6 \in 1..11 OBVIOUS
    <3>2. StopOrder[6] = "loggers" BY StopPlaces
    <3>3. "loggers" # "user maps" OBVIOUS
    <3> QED BY <1>2, <3>1, <3>2, <3>3
  <2> QED BY <2>1, <2>2, <2>3, <2>4
<1>4. /\ ("transceivers" \in parts <=> 7 > n)
      /\ ("driver" \in parts <=> 8 > n)
      /\ ("plugins" \in parts <=> 9 > n)
      /\ ("frames" \in parts <=> 10 > n)
      /\ ("database" \in parts <=> 11 > n)
  <2>1. "transceivers" \in parts <=> 7 > n
    <3>1. 7 \in 1..11 OBVIOUS
    <3>2. StopOrder[7] = "transceivers" BY StopPlaces
    <3>3. "transceivers" # "user maps" OBVIOUS
    <3> QED BY <1>2, <3>1, <3>2, <3>3
  <2>2. "driver" \in parts <=> 8 > n
    <3>1. 8 \in 1..11 OBVIOUS
    <3>2. StopOrder[8] = "driver" BY StopPlaces
    <3>3. "driver" # "user maps" OBVIOUS
    <3> QED BY <1>2, <3>1, <3>2, <3>3
  <2>3. "plugins" \in parts <=> 9 > n
    <3>1. 9 \in 1..11 OBVIOUS
    <3>2. StopOrder[9] = "plugins" BY StopPlaces
    <3>3. "plugins" # "user maps" OBVIOUS
    <3> QED BY <1>2, <3>1, <3>2, <3>3
  <2>4. "frames" \in parts <=> 10 > n
    <3>1. 10 \in 1..11 OBVIOUS
    <3>2. StopOrder[10] = "frames" BY StopPlaces
    <3>3. "frames" # "user maps" OBVIOUS
    <3> QED BY <1>2, <3>1, <3>2, <3>3
  <2>5. "database" \in parts <=> 11 > n
    <3>1. 11 \in 1..11 OBVIOUS
    <3>2. StopOrder[11] = "database" BY StopPlaces
    <3>3. "database" # "user maps" OBVIOUS
    <3> QED BY <1>2, <3>1, <3>2, <3>3
  <2> QED BY <2>1, <2>2, <2>3, <2>4, <2>5
<1>5. "user maps" \in parts => 3 > n BY DEF Falling
<1>6. CASE part = "server" BY <1>1, <1>3, <1>4, <1>6 DEF Uses
<1>7. CASE part = "user maps"
  <2>0. "user maps" \in parts BY <1>7
  <2>1. 3 > n /\ n \in 0..11 BY <1>1, <1>5, <2>0
  <2>2. "routers" \in parts /\ "maps" \in parts /\ "loggers" \in parts BY <1>3, <2>1
  <2>3. "transceivers" \in parts /\ "driver" \in parts /\ "plugins" \in parts /\ "frames" \in parts
    BY <1>4, <2>1
  <2> QED BY <1>7, <2>2, <2>3 DEF Uses, MapUses
<1>8. CASE part = "routers" BY <1>1, <1>3, <1>4, <1>8 DEF Uses, MapUses
<1>9. CASE part = "loggers" BY <1>1, <1>3, <1>4, <1>9 DEF Uses
<1>10. CASE part = "driver" BY <1>1, <1>3, <1>4, <1>10 DEF Uses
<1>11. CASE part \notin {"server", "user maps", "routers", "loggers", "driver"} BY <1>11 DEF Uses
<1> QED BY <1>6, <1>7, <1>8, <1>9, <1>10, <1>11

-----------------------------------------------------------------------------
(* The steps. *)

\* Where a part that is next stands.
LEMMA NextStarted ==
  ASSUME NEW part, NextPart(StartOrder, part), NEW k \in 1..10, StartOrder[k] = part, made \in Nat
  PROVE  made + 1 = k
<1>1. made + 1 \in 1..10 /\ StartOrder[made + 1] = part
  <2>1. Len(StartOrder) = 10 BY StartPlaces
  <2> QED BY <2>1 DEF NextPart
<1> QED BY <1>1, StartedOnce

\* The part to delete next is the one after those that are deleted.
LEMMA NextStopped ==
  ASSUME NEW part, NextPart(StopOrder, part), NEW k \in 1..11, StopOrder[k] = part, made \in Nat
  PROVE  made + 1 = k
<1>1. made + 1 \in 1..11 /\ StopOrder[made + 1] = part
  <2>1. Len(StopOrder) = 11 BY StopPlaces
  <2> QED BY <2>1 DEF NextPart
<1> QED BY <1>1, StoppedOnce

\* While the process rises, the parts alive are the first ones of the order of starting.
LEMMA OneMorePart ==
  ASSUME Rising(made, alive), NEW part, NextPart(StartOrder, part),
         made' = made + 1, alive' = alive \cup {part}
  PROVE  /\ made' \in 1..10 /\ alive' \subseteq Range(StartOrder) /\ part \in Range(StartOrder)
         /\ \A k \in 1..10 : StartOrder[k] \in alive' <=> k <= made'
<1>1. made \in 0..9 /\ made + 1 \in 1..10 /\ StartOrder[made + 1] = part BY DEF Rising, NextPart
<1>2. part \in Range(StartOrder)
  <2>1. DOMAIN StartOrder = 1..10 BY StartPlaces
  <2> QED BY <1>1, <2>1 DEF Range
<1>3. ASSUME NEW k \in 1..10 PROVE StartOrder[k] \in alive' <=> k <= made + 1
  <2>1. StartOrder[k] = part <=> k = made + 1 BY <1>1, StartedOnce
  <2>2. CASE k = made + 1 BY <1>1, <2>1, <2>2
  <2>3. CASE k # made + 1
    <3>1. StartOrder[k] \in alive' <=> StartOrder[k] \in alive BY <2>1, <2>3
    <3>2. StartOrder[k] \in alive <=> k <= made BY <1>1, <2>3 DEF Rising
    <3>3. k <= made <=> k <= made + 1 BY <1>1, <2>3
    <3> QED BY <3>1, <3>2, <3>3
  <2> QED BY <2>2, <2>3
<1> QED BY <1>1, <1>2, <1>3 DEF Rising

\* A part is made: the server still starts, or has all its parts.
LEMMA PartMadeKeeps ==
  ASSUME PartsInv, process = "starting", NEW part, NextPart(StartOrder, part), PartMade(part)
  PROVE  PartsInv' /\ process' \in {"starting", "serving"} /\ part \in Range(StartOrder)
<1>1. Rising(made, alive) BY DEF PartsInv
<1>2. made' = made + 1 /\ alive' = alive \cup {part} BY DEF PartMade
<1>3. /\ made' \in 1..10 /\ alive' \subseteq Range(StartOrder) /\ part \in Range(StartOrder)
      /\ \A k \in 1..10 : StartOrder[k] \in alive' <=> k <= made'
  BY <1>1, <1>2, OneMorePart
<1>4. CASE part = "server"
  <2>1. process' = "serving" BY <1>4 DEF PartMade
  <2>2. made + 1 = 10
    <3>1. 10 \in 1..10 /\ made \in Nat BY <1>1 DEF Rising
    <3>2. StartOrder[10] = "server" BY StartPlaces
    <3> QED BY <1>4, <3>1, <3>2, NextStarted
  <2>3. \A k \in 1..10 : StartOrder[k] \in alive' BY <1>2, <1>3, <2>2
  <2>4. DOMAIN StartOrder = 1..10 BY StartPlaces
  <2>5. Range(StartOrder) \subseteq alive' BY <2>3, <2>4 DEF Range
  <2>6. Whole(alive') BY <1>3, <2>5, StoppedParts DEF Whole
  <2>7. Closed(alive') BY <2>6, WholeClosed
  <2> QED BY <1>3, <2>1, <2>6, <2>7 DEF PartsInv
<1>5. CASE part # "server"
  <2>1. process' = "starting" BY <1>5 DEF PartMade
  <2>2. made' # 10
    <3>1. made + 1 \in 1..10 /\ StartOrder[made + 1] = part BY <1>1 DEF Rising, NextPart
    <3>2. StartOrder[10] = "server" BY StartPlaces
    <3> QED BY <1>2, <1>5, <3>1, <3>2
  <2>3. Rising(made', alive')
    <3>1. made' \in 0..9 BY <1>3, <2>2
    <3>3. ASSUME NEW k \in 1..10, k = 4 /\ made' = 3 /\ "driver" \in alive' PROVE FALSE
      <4>1. StartOrder[4] = "driver" BY StartPlaces
      <4>2. 4 <= made' BY <1>3, <3>3, <4>1
      <4> QED BY <3>3, <4>2
    <3> QED BY <1>3, <3>1, <3>3 DEF Rising
  <2>4. Closed(alive') BY <2>3, RisingClosed
  <2> QED BY <1>3, <2>1, <2>3, <2>4 DEF PartsInv
<1> QED BY <1>4, <1>5

\* main returns: what exists is closed already.
LEMMA FailedKeeps ==
  ASSUME PartsInv, process' = "failed", alive' = alive \/ Closed(alive')
  PROVE  PartsInv'
BY DEF PartsInv, Closed

\* While the process falls, the parts alive are the last ones of the order of stopping.
LEMMA OneLessPart ==
  ASSUME Falling(made, alive), NEW part, NextPart(StopOrder, part), made' = made + 1, alive' = alive \ {part}
  PROVE  Falling(made', alive')
<1>1. made \in 0..11 /\ made + 1 \in 1..11 /\ StopOrder[made + 1] = part
  <2>1. Len(StopOrder) = 11 BY StopPlaces
  <2>2. made < 11 /\ StopOrder[made + 1] = part BY <2>1 DEF NextPart
  <2>3. made \in 0..11 BY DEF Falling
  <2>4. made + 1 \in 1..11 BY <2>2, <2>3
  <2> QED BY <2>2, <2>3, <2>4
<1>2. alive' \subseteq Range(StopOrder) BY DEF Falling
<1>3. ASSUME NEW k \in 1..11, StopOrder[k] # "user maps" PROVE StopOrder[k] \in alive' <=> k > made + 1
  <2>1. StopOrder[k] = part <=> k = made + 1 BY <1>1, StoppedOnce
  <2>2. CASE k = made + 1 BY <1>1, <2>1, <2>2
  <2>3. CASE k # made + 1
    <3>1. StopOrder[k] \in alive' <=> StopOrder[k] \in alive BY <2>1, <2>3
    <3>2. StopOrder[k] \in alive <=> k > made BY <1>3 DEF Falling
    <3>3. k > made <=> k > made + 1 BY <1>1, <2>3
    <3> QED BY <3>1, <3>2, <3>3
  <2> QED BY <2>2, <2>3
<1>4. ASSUME "user maps" \in alive' PROVE made + 1 < 3
  <2>1. "user maps" \in alive /\ part # "user maps" BY <1>4
  <2>2. made < 3 BY <2>1 DEF Falling
  <2>3. StopOrder[3] = "user maps" BY StopPlaces
  <2>4. made + 1 # 3 BY <1>1, <2>1, <2>3
  <2> QED BY <1>1, <2>2, <2>4
<1> DEFINE left == alive \ {part}
           n == made + 1
<1>5. left = alive' /\ n = made' OBVIOUS
<1>6. \A k \in 1..11 : StopOrder[k] # "user maps" => (StopOrder[k] \in left <=> k > n) BY <1>3
<1>7. left \subseteq Range(StopOrder) /\ ("user maps" \in left => n < 3) BY <1>2, <1>4
<1>8. n \in 0..11 BY <1>1
<1> HIDE DEF left, n
<1>9. Falling(n, left) BY <1>6, <1>7, <1>8 DEF Falling
<1> QED BY <1>5, <1>9

\* Deleting the next part keeps the account of the parts.
LEMMA PartDeletedKeeps ==
  ASSUME PartsInv, process = "stopping", NEW part, NextPart(StopOrder, part), PartDeleted(part)
  PROVE  PartsInv' /\ process' \in {"stopping", "ended"}
<1>1. made' = made + 1 /\ alive' = alive \ {part} /\ process' \in {"stopping", "ended"}
  BY DEF PartDeleted
<1>2. Falling(made', alive') BY <1>1, OneLessPart DEF PartsInv
<1>3. Closed(alive') BY <1>2, FallingClosed
<1> QED BY <1>1, <1>2, <1>3 DEF PartsInv

\* The event loop is left with all the parts.
LEMMA LoopLeftKeeps ==
  ASSUME PartsInv, process = "serving", LoopLeft, UNCHANGED alive
  PROVE  PartsInv'
<1>1. Whole(alive) /\ made' = 0 /\ process' = "stopping" BY DEF PartsInv, LoopLeft
<1>2. ASSUME NEW k \in 1..11, StopOrder[k] # "user maps" PROVE StopOrder[k] \in alive
  <2>1. DOMAIN StopOrder = 1..11 BY StopPlaces
  <2>2. StopOrder[k] \in Range(StopOrder) BY <2>1 DEF Range
  <2> QED BY <1>1, <1>2, <2>2, StoppedParts DEF Whole
<1>3. Falling(made', alive')
  <2>1. Falling(0, alive)
    <3>1. \A k \in 1..11 : k > 0 OBVIOUS
    <3>2. 0 \in 0..11 /\ 0 < 3 OBVIOUS
    <3>3. alive \subseteq Range(StopOrder) BY <1>1 DEF Whole
    <3>4. \A k \in 1..11 : StopOrder[k] # "user maps" => (StopOrder[k] \in alive <=> k > 0)
      BY <1>2, <3>1
    <3> QED BY <3>2, <3>3, <3>4 DEF Falling
  <2> QED BY <1>1, <2>1
<1>4. Closed(alive') BY <1>3, FallingClosed
<1> QED BY <1>1, <1>3, <1>4 DEF PartsInv

\* Handles are untouched where the adapters, the relays and the loggers are.
LEMMA HandlesSame ==
  ASSUME HandlesInv, UNCHANGED <<adapters, relays, handles>>, "loggers" \in alive' <=> "loggers" \in alive,
         process' = "starting" =>
           /\ process = "starting"
           /\ made <= made' /\ made \in Nat /\ made' \in Nat
           /\ "driver" \in alive => "driver" \in alive'
  PROVE  HandlesInv'
<1>1. Hand' = Hand BY DEF Hand
<1>2. ASSUME process' = "starting"
      PROVE  /\ \A k \in DOMAIN adapters : adapters[k] = k
             /\ made' < 7 => relays = {}
             /\ "driver" \notin alive' => adapters = << >>
  <2>1. made' < 7 => made < 7 BY <1>2
  <2> QED BY <1>2, <2>1 DEF HandlesInv
<1> QED BY <1>1, <1>2 DEF HandlesInv

\* Making a part that has no steps of its own keeps the process invariant.
LEMMA MakeKeeps ==
  ASSUME ProcessInv, NEW part, part \notin {"driver", "loggers"}, Make(part)
  PROVE  ProcessInv'
<1>1. /\ process = "starting" /\ NextPart(StartOrder, part)
      /\ UNCHANGED <<config, adapters, relays, handles, listening, interrupts, interrupted>>
  BY DEF Make, Making
<1>2. CASE part \in config.failing
  <2>1. process' = "failed" /\ UNCHANGED <<made, alive>> BY <1>2 DEF Make, PartFailed
  <2>2. PartsInv' BY <2>1, FailedKeeps DEF ProcessInv
  <2>3. HandlesInv' BY <1>1, <2>1, HandlesSame DEF ProcessInv
  <2> QED BY <2>1, <2>2, <2>3 DEF ProcessInv
<1>3. CASE part \notin config.failing
  <2>1. PartMade(part) BY <1>3 DEF Make
  <2>2. PartsInv' /\ process' \in {"starting", "serving"} BY <1>1, <2>1, PartMadeKeeps DEF ProcessInv
  <2>3. made' = made + 1 /\ alive' = alive \cup {part} BY <2>1 DEF PartMade
  <2>4. made \in Nat BY <1>1 DEF ProcessInv, PartsInv, Rising
  <2>5. HandlesInv' BY <1>1, <2>3, <2>4, HandlesSame DEF ProcessInv
  <2> QED BY <2>2, <2>5 DEF ProcessInv
<1> QED BY <1>2, <1>3

\* The parts that exist while a part is next
LEMMA StartedSoFar ==
  ASSUME ProcessInv, process = "starting"
  PROVE  /\ made \in 0..9
         /\ NextPart(StartOrder, "loggers") => made = 5 /\ "loggers" \notin alive /\ "driver" \in alive
         /\ NextPart(StartOrder, "driver") => made = 3 /\ "loggers" \notin alive
         /\ NextPart(StartOrder, "routers") => made = 7 /\ "driver" \in alive
<1>1. Rising(made, alive) BY DEF ProcessInv, PartsInv
<1>2. made \in 0..9 /\ made \in Nat BY <1>1 DEF Rising
<1>3. ASSUME NEW k \in 1..10, k # 4 PROVE StartOrder[k] \in alive <=> k <= made BY <1>1, <1>3 DEF Rising
<1>4. "loggers" \in alive <=> 6 <= made
  <2>1. 6 \in 1..10 /\ 6 # 4 OBVIOUS
  <2>2. StartOrder[6] = "loggers" BY StartPlaces
  <2> QED BY <1>3, <2>1, <2>2
<1>5. 4 <= made => "driver" \in alive
  <2>1. 4 \in 1..10 OBVIOUS
  <2>2. StartOrder[4] = "driver" BY StartPlaces
  <2> QED BY <1>1, <2>1, <2>2 DEF Rising
<1>6. ASSUME NextPart(StartOrder, "loggers") PROVE made + 1 = 6
  <2>1. 6 \in 1..10 OBVIOUS
  <2>2. StartOrder[6] = "loggers" BY StartPlaces
  <2> QED BY <1>2, <1>6, <2>1, <2>2, NextStarted
<1>7. ASSUME NextPart(StartOrder, "driver") PROVE made + 1 = 4
  <2>1. 4 \in 1..10 OBVIOUS
  <2>2. StartOrder[4] = "driver" BY StartPlaces
  <2> QED BY <1>2, <1>7, <2>1, <2>2, NextStarted
<1>8. ASSUME NextPart(StartOrder, "routers") PROVE made + 1 = 8
  <2>1. 8 \in 1..10 OBVIOUS
  <2>2. StartOrder[8] = "routers" BY StartPlaces
  <2> QED BY <1>2, <1>8, <2>1, <2>2, NextStarted
<1>9. NextPart(StartOrder, "loggers") => made = 5 BY <1>2, <1>6
<1>10. NextPart(StartOrder, "driver") => made = 3 BY <1>2, <1>7
<1>11. NextPart(StartOrder, "routers") => made = 7 BY <1>2, <1>8
<1> QED BY <1>2, <1>4, <1>5, <1>9, <1>10, <1>11

\* Making the loggers keeps the process invariant.
LEMMA MakeLoggersKeeps == ASSUME ProcessInv, MakeLoggers PROVE ProcessInv'
<1>1. /\ process = "starting" /\ NextPart(StartOrder, "loggers")
      /\ UNCHANGED <<config, adapters, relays, listening, interrupts, interrupted>>
  BY DEF MakeLoggers, Making
<1>2. CASE "loggers" \in config.failing
  <2>1. process' = "failed" /\ UNCHANGED <<made, alive, handles>> BY <1>2 DEF MakeLoggers, PartFailed
  <2>2. PartsInv' BY <2>1, FailedKeeps DEF ProcessInv
  <2>3. HandlesInv' BY <1>1, <2>1, HandlesSame DEF ProcessInv
  <2> QED BY <2>1, <2>2, <2>3 DEF ProcessInv
<1>3. CASE "loggers" \notin config.failing
  <2>1. PartMade("loggers") /\ handles' = handles + 1 BY <1>3 DEF MakeLoggers, HandleOpened
  <2>2. PartsInv' /\ process' \in {"starting", "serving"} BY <1>1, <2>1, PartMadeKeeps DEF ProcessInv
  <2>3. made' = made + 1 /\ alive' = alive \cup {"loggers"} BY <2>1 DEF PartMade
  <2>4. made = 5 /\ "loggers" \notin alive BY <1>1, StartedSoFar
  <2>5. Hand = 0 /\ Hand' = 1 BY <2>3, <2>4 DEF Hand
  <2>6. handles' = Len(adapters) + Cardinality(relays) + Hand'
    <3>1. Len(adapters) \in Nat /\ Cardinality(relays) \in Nat /\ handles = Len(adapters) + Cardinality(relays)
      <4>1. Cardinality(relays) \in Nat BY FS_CardinalityType DEF ProcessInv, HandlesInv
      <4>2. Len(adapters) \in Nat BY DEF ProcessInv, HandlesInv
      <4> QED BY <2>5, <4>1, <4>2 DEF ProcessInv, HandlesInv
    <3> QED BY <2>1, <2>5, <3>1
  <2>7. made' < 7 /\ made < 7 BY <2>3, <2>4
  <2>8. HandlesInv' BY <1>1, <2>3, <2>6, <2>7 DEF ProcessInv, HandlesInv
  <2> QED BY <2>2, <2>8 DEF ProcessInv
<1> QED BY <1>2, <1>3

\* Starting to make the driver keeps the process invariant.
LEMMA StartDriverKeeps == ASSUME ProcessInv, StartDriver PROVE ProcessInv'
<1>1. /\ process = "starting" /\ NextPart(StartOrder, "driver")
      /\ UNCHANGED <<config, made, adapters, relays, handles, listening, interrupts, interrupted>>
      /\ \/ process' = "failed" /\ UNCHANGED alive
         \/ alive' = alive \cup {"driver"} /\ UNCHANGED process
  BY DEF StartDriver, Making, PartFailed
<1>2. CASE process' = "failed" /\ UNCHANGED alive
  <2>1. PartsInv' BY <1>2, FailedKeeps DEF ProcessInv
  <2>2. HandlesInv' BY <1>1, <1>2, HandlesSame DEF ProcessInv
  <2> QED BY <1>2, <2>1, <2>2 DEF ProcessInv
<1>3. CASE alive' = alive \cup {"driver"} /\ UNCHANGED process
  <2>1. Rising(made, alive) /\ made = 3 BY <1>1, StartedSoFar DEF ProcessInv, PartsInv
  <2>2. Rising(made', alive')
    <3>1. ASSUME NEW k \in 1..10
          PROVE  StartOrder[k] \in alive' <=> (k <= made \/ (k = 4 /\ made = 3 /\ "driver" \in alive'))
      <4>1. StartOrder[4] = "driver" /\ 4 \in 1..10 BY StartPlaces
      <4>2. CASE k = 4 BY <1>3, <2>1, <4>1, <4>2
      <4>3. CASE k # 4
        <5>1. StartOrder[k] # "driver" BY <4>1, <4>3, StartedOnce
        <5>2. StartOrder[k] \in alive' <=> StartOrder[k] \in alive BY <1>3, <5>1
        <5>3. StartOrder[k] \in alive <=> k <= made BY <2>1, <4>3 DEF Rising
        <5> QED BY <4>3, <5>2, <5>3
      <4> QED BY <4>2, <4>3
    <3>2. "driver" \in Range(StartOrder) BY StartedParts
    <3>3. alive' \subseteq Range(StartOrder) /\ made \in 0..9 BY <1>3, <2>1, <3>2 DEF Rising
    <3> QED BY <1>1, <3>1, <3>3 DEF Rising
  <2>3. Closed(alive') BY <2>2, RisingClosed
  <2>4. PartsInv' BY <1>1, <1>3, <2>2, <2>3 DEF PartsInv
  <2>5. HandlesInv' BY <1>1, <1>3, <2>1, HandlesSame DEF ProcessInv
  <2> QED BY <1>1, <1>3, <2>4, <2>5 DEF ProcessInv
<1> QED BY <1>1, <1>2, <1>3

\* Adapters are numbered as they are added.
LEMMA NewAdapter ==
  ASSUME NEW s \in Seq(Nat), \A k \in DOMAIN s : s[k] = k
  PROVE  /\ Append(s, Len(s) + 1) \in Seq(Nat) /\ IsInjective(Append(s, Len(s) + 1))
         /\ Len(Append(s, Len(s) + 1)) = Len(s) + 1
         /\ \A k \in DOMAIN Append(s, Len(s) + 1) : Append(s, Len(s) + 1)[k] = k
<1> DEFINE t == Append(s, Len(s) + 1)
<1>1. /\ Len(s) \in Nat /\ DOMAIN s = 1..Len(s) /\ t \in Seq(Nat) /\ Len(t) = Len(s) + 1
      /\ DOMAIN t = 1..Len(s) + 1 /\ t[Len(s) + 1] = Len(s) + 1
      /\ \A k \in 1..Len(s) : t[k] = s[k]
  OBVIOUS
<1> HIDE DEF t
<1>2. ASSUME NEW k \in DOMAIN t PROVE t[k] = k
  <2>1. CASE k = Len(s) + 1 BY <1>1, <2>1
  <2>2. CASE k # Len(s) + 1
    <3>1. k \in 1..Len(s) BY <1>1, <2>2
    <3> QED BY <1>1, <3>1
  <2> QED BY <2>1, <2>2
<1>3. IsInjective(t) BY <1>2 DEF IsInjective
<1> QED BY <1>1, <1>2, <1>3 DEF t

\* Adding an adapter keeps the process invariant.
LEMMA AddAdapterKeeps == ASSUME ProcessInv, AddAdapter PROVE ProcessInv'
<1>1. /\ process = "starting" /\ NextPart(StartOrder, "driver") /\ "driver" \in alive
      /\ UNCHANGED <<config, relays, listening, interrupts, interrupted>>
      /\ \/ /\ adapters' = Append(adapters, Len(adapters) + 1) /\ handles' = handles + 1
            /\ UNCHANGED <<process, made, alive>>
         \/ /\ process' = "failed" /\ UNCHANGED made
            /\ adapters' = << >> /\ handles' = handles - Len(adapters) /\ alive' = alive \ {"driver"}
         \/ process' = "failed" /\ UNCHANGED <<made, adapters, handles, alive>>
  BY DEF AddAdapter, Making, PartFailed, HandleOpened, HandlesClosed
<1>2. made = 3 /\ "loggers" \notin alive BY <1>1, StartedSoFar
<1>3. /\ adapters \in Seq(Nat) /\ relays = {} /\ Hand = 0
      /\ \A k \in DOMAIN adapters : adapters[k] = k
  BY <1>1, <1>2 DEF ProcessInv, HandlesInv, Hand
<1>4. Cardinality(relays) = 0 /\ IsFiniteSet(relays) BY <1>3, FS_EmptySet
<1>5. handles = Len(adapters) /\ Len(adapters) \in Nat BY <1>3, <1>4 DEF ProcessInv, HandlesInv
<1>6. CASE adapters' = Append(adapters, Len(adapters) + 1) /\ handles' = handles + 1
           /\ UNCHANGED <<process, made, alive>>
  <2>1. /\ Append(adapters, Len(adapters) + 1) \in Seq(Nat) /\ IsInjective(Append(adapters, Len(adapters) + 1))
        /\ Len(Append(adapters, Len(adapters) + 1)) = Len(adapters) + 1
        /\ \A k \in DOMAIN Append(adapters, Len(adapters) + 1) : Append(adapters, Len(adapters) + 1)[k] = k
    BY <1>3, NewAdapter
  <2>2. PartsInv' BY <1>6 DEF ProcessInv, PartsInv
  <2>3. Hand' = 0 BY <1>2, <1>6 DEF Hand
  <2>4. relays' = {} BY <1>1, <1>3
  <2>5. handles' = Len(adapters') + Cardinality(relays') + Hand' BY <1>1, <1>4, <1>5, <1>6, <2>1, <2>3
  <2>6. HandlesInv' BY <1>1, <1>2, <1>4, <1>6, <2>1, <2>4, <2>5 DEF HandlesInv
  <2> QED BY <1>1, <1>6, <2>2, <2>6 DEF ProcessInv
<1>7. CASE process' = "failed" /\ UNCHANGED made
           /\ adapters' = << >> /\ handles' = handles - Len(adapters) /\ alive' = alive \ {"driver"}
  <2>1. Rising(made, alive) BY <1>1 DEF ProcessInv, PartsInv
  <2>2. alive \subseteq {"database", "frames", "plugins", "driver"}
    <3>1. ASSUME NEW k \in 1..10, k # 4 PROVE StartOrder[k] \in alive <=> k <= 3 BY <1>2, <2>1, <3>1 DEF Rising
    <3>2. ASSUME NEW k \in {5, 6, 7, 8, 9, 10} PROVE StartOrder[k] \notin alive
      <4>1. k \in 1..10 /\ k # 4 /\ ~(k <= 3) OBVIOUS
      <4> QED BY <3>1, <4>1
    <3>3. /\ "transceivers" \notin alive /\ "loggers" \notin alive /\ "maps" \notin alive
          /\ "routers" \notin alive /\ "signals" \notin alive /\ "server" \notin alive
      BY <3>2, StartPlaces
    <3> QED BY <2>1, <3>3, StartedParts DEF Rising
  <2>3. Closed(alive') BY <1>7, <2>2 DEF Closed, Uses
  <2>4. PartsInv' BY <1>7, <2>3, FailedKeeps DEF ProcessInv
  <2>5. Hand' = 0 BY <1>2, <1>7 DEF Hand
  <2>6. Len(<< >>) = 0 /\ << >> \in Seq(Nat) /\ IsInjective(<< >>) BY DEF IsInjective
  <2>7. handles' = 0 BY <1>5, <1>7
  <2>8. HandlesInv' BY <1>1, <1>3, <1>4, <1>7, <2>5, <2>6, <2>7 DEF HandlesInv
  <2> QED BY <1>7, <2>4, <2>8 DEF ProcessInv
<1>8. CASE process' = "failed" /\ UNCHANGED <<made, adapters, handles, alive>>
  <2>1. PartsInv' BY <1>8, FailedKeeps DEF ProcessInv
  <2>2. HandlesInv' BY <1>1, <1>8, HandlesSame DEF ProcessInv
  <2> QED BY <1>8, <2>1, <2>2 DEF ProcessInv
<1> QED BY <1>1, <1>6, <1>7, <1>8

\* The driver that is made keeps the process invariant.
LEMMA DriverMadeKeeps == ASSUME ProcessInv, DriverMade PROVE ProcessInv'
<1>1. /\ process = "starting" /\ NextPart(StartOrder, "driver") /\ PartMade("driver")
      /\ UNCHANGED <<config, adapters, relays, handles, listening, interrupts, interrupted>>
  BY DEF DriverMade, Making
<1>2. PartsInv' /\ process' \in {"starting", "serving"} BY <1>1, PartMadeKeeps DEF ProcessInv
<1>3. made' = made + 1 /\ alive' = alive \cup {"driver"} /\ made \in Nat
  BY <1>1, StartedSoFar DEF PartMade
<1>4. HandlesInv' BY <1>1, <1>3, HandlesSame DEF ProcessInv
<1> QED BY <1>2, <1>4 DEF ProcessInv

\* Starting the relay keeps the process invariant.
LEMMA StartRelayKeeps == ASSUME ProcessInv, StartRelay PROVE ProcessInv'
<1>1. /\ process = "starting" /\ NextPart(StartOrder, "routers") /\ handles' = handles + 1
      /\ UNCHANGED <<config, process, made, alive, adapters, listening, interrupts, interrupted>>
  BY DEF StartRelay, Making, HandleOpened
<1>2. PICK a \in Range(adapters) \ relays : relays' = relays \cup {a} BY DEF StartRelay
<1>3. made = 7 /\ "driver" \in alive BY <1>1, StartedSoFar
<1>4. IsFiniteSet(relays) /\ Cardinality(relays) \in Nat
  <2>1. IsFiniteSet(relays) BY DEF ProcessInv, HandlesInv
  <2> QED BY <2>1, FS_CardinalityType
<1>5. IsFiniteSet(relays') /\ Cardinality(relays') = Cardinality(relays) + 1
  BY <1>2, <1>4, FS_AddElement
<1>6. PartsInv' BY <1>1 DEF ProcessInv, PartsInv
<1>7. Hand' = Hand /\ Hand \in Nat BY <1>1 DEF Hand
<1>8. Len(adapters) \in Nat /\ handles = Len(adapters) + Cardinality(relays) + Hand BY DEF ProcessInv, HandlesInv
<1>9. handles' = Len(adapters') + Cardinality(relays') + Hand' BY <1>1, <1>4, <1>5, <1>7, <1>8
<1>10. HandlesInv' BY <1>1, <1>2, <1>3, <1>5, <1>9 DEF ProcessInv, HandlesInv
<1> QED BY <1>1, <1>6, <1>10 DEF ProcessInv

\* Reading the routers keeps the process invariant.
LEMMA RoutersReadKeeps == ASSUME ProcessInv, RoutersRead PROVE ProcessInv'
<1>1. "routers" \notin {"driver", "loggers"} OBVIOUS
<1>2. Make("routers") BY DEF RoutersRead, Make
<1> QED BY <1>1, <1>2, MakeKeeps

\* While the server serves
LEMMA ServingKeeps ==
  ASSUME ProcessInv, ListenForConnections \/ UserMap \/ TimedOut \/ HandleInterruptSignal
  PROVE  ProcessInv'
<1>1. CASE UserMap
  <2>1. /\ process = "serving" /\ alive' = alive \cup {"user maps"}
        /\ UNCHANGED <<process, made, adapters, relays, handles>>
    BY <1>1 DEF UserMap
  <2>2. Whole(alive) BY <2>1 DEF ProcessInv, PartsInv
  <2>3. "user maps" \in Range(StopOrder) BY StoppedParts
  <2>4. Whole(alive') BY <2>1, <2>2, <2>3 DEF Whole
  <2>5. Closed(alive') BY <2>4, WholeClosed
  <2>6. PartsInv' BY <2>1, <2>4, <2>5 DEF PartsInv
  <2>7. HandlesInv' BY <2>1, HandlesSame DEF ProcessInv
  <2> QED BY <2>1, <2>6, <2>7 DEF ProcessInv
<1>2. CASE ListenForConnections \/ TimedOut \/ HandleInterruptSignal
  <2>1. /\ process = "serving" /\ UNCHANGED <<alive, adapters, relays, handles>>
        /\ LoopLeft \/ UNCHANGED <<process, made>>
    BY <1>2 DEF ListenForConnections, TimedOut, HandleInterruptSignal
  <2>2. CASE LoopLeft
    <3>1. PartsInv' BY <2>1, <2>2, LoopLeftKeeps DEF ProcessInv
    <3>2. process' = "stopping" BY <2>2 DEF LoopLeft
    <3>3. HandlesInv' BY <2>1, <3>2, HandlesSame DEF ProcessInv
    <3> QED BY <3>1, <3>2, <3>3 DEF ProcessInv
  <2>3. CASE UNCHANGED <<process, made>>
    <3>1. PartsInv' BY <2>1, <2>3 DEF ProcessInv, PartsInv
    <3>2. HandlesInv' BY <2>1, <2>3, HandlesSame DEF ProcessInv
    <3> QED BY <2>3, <3>1, <3>2 DEF ProcessInv
  <2> QED BY <2>1, <2>2, <2>3
<1> QED BY <1>1, <1>2

\* An interrupt keeps the process invariant.
LEMMA InterruptKeeps == ASSUME ProcessInv, Interrupt PROVE ProcessInv'
<1>1. /\ UNCHANGED <<made, alive, adapters, relays, handles>>
      /\ process' = "failed" \/ UNCHANGED process
  BY DEF Interrupt
<1>2. CASE process' = "failed"
  <2>1. PartsInv' BY <1>1, <1>2, FailedKeeps DEF ProcessInv
  <2>2. HandlesInv' BY <1>1, <1>2, HandlesSame DEF ProcessInv
  <2> QED BY <1>2, <2>1, <2>2 DEF ProcessInv
<1>3. CASE UNCHANGED process BY <1>1, <1>3 DEF ProcessInv, PartsInv, HandlesInv, Hand
<1> QED BY <1>1, <1>2, <1>3

\* The parts that exist while a part is next to be deleted
LEMMA LeftSoFar ==
  ASSUME ProcessInv, process = "stopping"
  PROVE  /\ NextPart(StopOrder, "loggers") => "loggers" \in alive
         /\ NextPart(StopOrder, "driver") => "loggers" \notin alive
<1>1. Falling(made, alive) BY DEF ProcessInv, PartsInv
<1>2. made \in 0..11 /\ made \in Nat
  <2>1. made \in 0..11 BY <1>1 DEF Falling
  <2> QED BY <2>1
<1>3. "loggers" \in alive <=> 6 > made
  <2>1. 6 \in 1..11 OBVIOUS
  <2>2. StopOrder[6] = "loggers" BY StopPlaces
  <2>3. "loggers" # "user maps" OBVIOUS
  <2> QED BY <1>1, <2>1, <2>2, <2>3 DEF Falling
<1>4. ASSUME NextPart(StopOrder, "loggers") PROVE made + 1 = 6
  <2>1. 6 \in 1..11 OBVIOUS
  <2>2. StopOrder[6] = "loggers" BY StopPlaces
  <2> QED BY <1>2, <1>4, <2>1, <2>2, NextStopped
<1>5. ASSUME NextPart(StopOrder, "driver") PROVE made + 1 = 8
  <2>1. 8 \in 1..11 OBVIOUS
  <2>2. StopOrder[8] = "driver" BY StopPlaces
  <2> QED BY <1>2, <1>5, <2>1, <2>2, NextStopped
<1>6. NextPart(StopOrder, "loggers") => 6 > made BY <1>2, <1>4
<1>7. NextPart(StopOrder, "driver") => ~(6 > made) BY <1>2, <1>5
<1> QED BY <1>3, <1>6, <1>7

\* Deleting a part that has no steps of its own keeps the process invariant.
LEMMA DeletePartKeeps == ASSUME ProcessInv, DeletePart PROVE ProcessInv'
<1>1. PICK part \in Range(StopOrder) \ {"driver", "loggers"} : Deleting(part) /\ PartDeleted(part)
  BY DEF DeletePart
<1>2. /\ process = "stopping" /\ NextPart(StopOrder, part)
      /\ UNCHANGED <<config, adapters, relays, handles, listening, interrupts, interrupted>>
  BY <1>1 DEF DeletePart, Deleting
<1>3. PartsInv' /\ process' \in {"stopping", "ended"} BY <1>1, <1>2, PartDeletedKeeps DEF ProcessInv
<1>4. alive' = alive \ {part} BY <1>1 DEF PartDeleted
<1>5. HandlesInv' BY <1>1, <1>2, <1>3, <1>4, HandlesSame DEF ProcessInv
<1> QED BY <1>3, <1>5 DEF ProcessInv

\* Destroying the driver keeps the process invariant.
LEMMA DestroyDriverKeeps == ASSUME ProcessInv, DestroyDriver PROVE ProcessInv'
<1>2. /\ process = "stopping" /\ NextPart(StopOrder, "driver") /\ PartDeleted("driver")
      /\ UNCHANGED <<config, adapters, relays, handles, listening, interrupts, interrupted>>
  BY DEF DestroyDriver, Deleting
<1>3. PartsInv' /\ process' \in {"stopping", "ended"} BY <1>2, PartDeletedKeeps DEF ProcessInv
<1>4. alive' = alive \ {"driver"} BY <1>2 DEF PartDeleted
<1>5. HandlesInv' BY <1>2, <1>3, <1>4, HandlesSame DEF ProcessInv
<1> QED BY <1>3, <1>5 DEF ProcessInv

\* Deleting the loggers keeps the process invariant.
LEMMA DeleteLoggersKeeps == ASSUME ProcessInv, DeleteLoggers PROVE ProcessInv'
<1>1. /\ process = "stopping" /\ NextPart(StopOrder, "loggers") /\ PartDeleted("loggers")
      /\ handles' = handles - 1
      /\ UNCHANGED <<config, adapters, relays, listening, interrupts, interrupted>>
  BY DEF DeleteLoggers, Deleting, HandlesClosed
<1>2. PartsInv' /\ process' \in {"stopping", "ended"} BY <1>1, PartDeletedKeeps DEF ProcessInv
<1>3. alive' = alive \ {"loggers"} BY <1>1 DEF PartDeleted
<1>4. Hand = 1 /\ Hand' = 0 BY <1>1, <1>3, LeftSoFar DEF Hand
<1>5. Cardinality(relays) \in Nat /\ Len(adapters) \in Nat BY FS_CardinalityType DEF ProcessInv, HandlesInv
<1>6. handles = Len(adapters) + Cardinality(relays) + Hand BY DEF ProcessInv, HandlesInv
<1>7. handles' = Len(adapters') + Cardinality(relays') + Hand' BY <1>1, <1>4, <1>5, <1>6
<1>8. HandlesInv' BY <1>1, <1>2, <1>7 DEF ProcessInv, HandlesInv
<1> QED BY <1>2, <1>8 DEF ProcessInv

\* A list without repeats that loses its head loses that element.
LEMMA TailOnce ==
  ASSUME NEW s \in Seq(Nat), s # << >>, IsInjective(s)
  PROVE  /\ Tail(s) \in Seq(Nat) /\ IsInjective(Tail(s)) /\ Len(Tail(s)) = Len(s) - 1
         /\ Len(s) \in Nat /\ Range(Tail(s)) = Range(s) \ {Head(s)}
<1>1. /\ Len(s) \in Nat /\ Len(s) > 0 /\ DOMAIN s = 1..Len(s) /\ Head(s) = s[1]
      /\ Tail(s) \in Seq(Nat) /\ Len(Tail(s)) = Len(s) - 1 /\ DOMAIN Tail(s) = 1..Len(s) - 1
      /\ \A k \in 1..Len(s) - 1 : Tail(s)[k] = s[k + 1]
  OBVIOUS
<1> DEFINE t == Tail(s)
           m == Len(s)
<1> HIDE DEF t, m
<1>2. /\ m \in Nat /\ m > 0 /\ DOMAIN s = 1..m /\ Head(s) = s[1] /\ DOMAIN t = 1..m - 1
      /\ \A k \in 1..m - 1 : t[k] = s[k + 1] /\ k + 1 \in 1..m /\ k + 1 # 1
  BY <1>1 DEF t, m
<1>3. \A j, k \in 1..m : s[j] = s[k] => j = k BY <1>2 DEF IsInjective
<1>4. IsInjective(t)
  <2>1. ASSUME NEW j \in 1..m - 1, NEW k \in 1..m - 1, t[j] = t[k] PROVE j = k
    <3>1. j + 1 = k + 1 BY <1>2, <1>3, <2>1
    <3> QED BY <1>2, <3>1
  <2> QED BY <1>2, <2>1 DEF IsInjective
<1>5. Range(t) = Range(s) \ {s[1]}
  <2>1. 1 \in 1..m BY <1>2
  <2>2. ASSUME NEW k \in 1..m - 1 PROVE t[k] \in Range(s) \ {s[1]}
    <3>1. k + 1 \in 1..m /\ t[k] = s[k + 1] /\ k + 1 # 1 BY <1>2
    <3> QED BY <1>2, <1>3, <2>1, <3>1 DEF Range
  <2>3. ASSUME NEW k \in 1..m, s[k] # s[1] PROVE s[k] \in Range(t)
    <3>1. k - 1 \in 1..m - 1 /\ (k - 1) + 1 = k BY <1>2, <2>3
    <3>2. t[k - 1] = s[k] BY <1>2, <3>1
    <3> QED BY <1>2, <3>1, <3>2 DEF Range
  <2>4. Range(t) \subseteq Range(s) \ {s[1]} BY <1>2, <2>2 DEF Range
  <2>5. Range(s) \ {s[1]} \subseteq Range(t) BY <1>2, <2>3 DEF Range
  <2> QED BY <2>4, <2>5
<1> QED BY <1>1, <1>4, <1>5 DEF t

\* Deleting an adapter keeps the process invariant.
LEMMA DeleteAdapterKeeps == ASSUME ProcessInv, DeleteAdapter PROVE ProcessInv'
<1> DEFINE a == Head(adapters)
<1>1. /\ process = "stopping" /\ adapters # << >> /\ adapters' = Tail(adapters)
      /\ relays' = relays \ {a} /\ handles' = handles - (IF a \in relays THEN 2 ELSE 1)
      /\ UNCHANGED <<config, process, made, alive, listening, interrupts, interrupted>>
  BY DEF DeleteAdapter, Deleting, HandlesClosed
<1> HIDE DEF a
<1>2. adapters \in Seq(Nat) /\ IsInjective(adapters) /\ relays \subseteq Range(adapters) /\ IsFiniteSet(relays)
  BY DEF ProcessInv, HandlesInv
<1>3. /\ adapters' \in Seq(Nat) /\ IsInjective(adapters') /\ Len(adapters') = Len(adapters) - 1
      /\ Len(adapters) \in Nat /\ Range(adapters') = Range(adapters) \ {a}
  BY <1>1, <1>2, TailOnce DEF a
<1>4. /\ IsFiniteSet(relays')
      /\ Cardinality(relays') = IF a \in relays THEN Cardinality(relays) - 1 ELSE Cardinality(relays)
  BY <1>1, <1>2, FS_RemoveElement
<1>5. Cardinality(relays) \in Nat BY <1>2, FS_CardinalityType
<1>6. Hand' = Hand /\ Hand \in Nat BY <1>1 DEF Hand
<1>7. handles = Len(adapters) + Cardinality(relays) + Hand BY DEF ProcessInv, HandlesInv
<1>8. handles' = Len(adapters') + Cardinality(relays') + Hand'
  <2>1. CASE a \in relays BY <1>1, <1>3, <1>4, <1>5, <1>6, <1>7, <2>1
  <2>2. CASE a \notin relays BY <1>1, <1>3, <1>4, <1>5, <1>6, <1>7, <2>2
  <2> QED BY <2>1, <2>2
<1>9. relays' \subseteq Range(adapters') BY <1>1, <1>2, <1>3
<1>10. HandlesInv' BY <1>1, <1>3, <1>4, <1>8, <1>9 DEF HandlesInv
<1>11. PartsInv' BY <1>1 DEF ProcessInv, PartsInv
<1> QED BY <1>1, <1>10, <1>11 DEF ProcessInv

\* The process starts within its invariant.
LEMMA ProcessInitial == ProcessInit => ProcessInv
<1> SUFFICES ASSUME NEW c \in Configurations, ProcessStarts(c) PROVE ProcessInv
  BY DEF ProcessInit
<1>1. process = "starting" /\ made = 0 /\ alive = {} /\ adapters = << >> /\ relays = {} /\ handles = 0
  BY DEF ProcessStarts
<1>2. Rising(made, alive)
  <2>1. \A k \in 1..10 : ~(k <= 0) OBVIOUS
  <2> QED BY <1>1, <2>1 DEF Rising
<1>3. Closed(alive) BY <1>1 DEF Closed
<1>4. Cardinality(relays) = 0 /\ IsFiniteSet(relays) BY <1>1, FS_EmptySet
<1>5. Len(adapters) = 0 /\ adapters \in Seq(Nat) /\ IsInjective(adapters) /\ DOMAIN adapters = {}
  BY <1>1 DEF IsInjective
<1>6. Hand = 0 BY <1>1 DEF Hand
<1>7. HandlesInv BY <1>1, <1>4, <1>5, <1>6 DEF HandlesInv
<1>8. PartsInv BY <1>1, <1>2, <1>3 DEF PartsInv
<1> QED BY <1>1, <1>7, <1>8 DEF ProcessInv

\* Every step keeps the process invariant.
LEMMA ProcessSteps == ProcessInv /\ [ServerNext]_processVars => ProcessInv'
<1> SUFFICES ASSUME ProcessInv, [ServerNext]_processVars PROVE ProcessInv'
  OBVIOUS
<1>1. CASE UNCHANGED processVars BY <1>1 DEF processVars, ProcessInv, PartsInv, HandlesInv, Hand
<1>2. ASSUME NEW part \in {"database", "frames", "plugins", "transceivers", "maps", "signals", "server"},
             Make(part)
      PROVE  ProcessInv'
  BY <1>2, MakeKeeps
<1>3. CASE MakeDatabase \/ MakeFrames \/ MakePlugins \/ MakeTransceivers \/ MakeMaps \/ MakeSignals \/ MakeServer
  BY <1>2, <1>3 DEF MakeDatabase, MakeFrames, MakePlugins, MakeTransceivers, MakeMaps, MakeSignals, MakeServer
<1>4. CASE StartDriver \/ AddAdapter \/ DriverMade \/ MakeLoggers \/ StartRelay \/ RoutersRead
  BY <1>4, StartDriverKeeps, AddAdapterKeeps, DriverMadeKeeps, MakeLoggersKeeps, StartRelayKeeps, RoutersReadKeeps
<1>5. CASE ListenForConnections \/ UserMap \/ TimedOut \/ HandleInterruptSignal BY <1>5, ServingKeeps
<1>6. CASE Interrupt BY <1>6, InterruptKeeps
<1>7. CASE DeletePart \/ DeleteLoggers \/ DeleteAdapter \/ DestroyDriver
  BY <1>7, DeletePartKeeps, DeleteLoggersKeeps, DeleteAdapterKeeps, DestroyDriverKeeps
<1> QED BY <1>1, <1>3, <1>4, <1>5, <1>6, <1>7 DEF ServerNext

\* Within the invariant no part outlives one that it uses.
LEMMA PartsStay == ASSUME ProcessInv PROVE PartsOutlived
<1>1. \A part \in alive : Uses(part) \subseteq alive BY DEF ProcessInv, PartsInv, Closed
<1>2. handles = Len(adapters) + Cardinality(relays) + (IF "loggers" \in alive THEN 1 ELSE 0)
  BY DEF ProcessInv, HandlesInv, Hand
<1>3. ASSUME Deleting("driver"), adapters = << >> PROVE handles = 0
  <2>1. process = "stopping" /\ NextPart(StopOrder, "driver") BY <1>3 DEF Deleting
  <2>2. "loggers" \notin alive BY <2>1, LeftSoFar
  <2>3. relays = {} BY <1>3 DEF ProcessInv, HandlesInv, Range
  <2>4. Cardinality(relays) = 0 BY <2>3, FS_EmptySet
  <2> QED BY <1>2, <1>3, <2>2, <2>4
<1> QED BY <1>1, <1>2, <1>3 DEF PartsOutlived

\* Whatever is configured, whatever cannot be made and whenever the server ends, no part is
\* left without one that it uses, and the driver waits for no handle that nobody closes.
THEOREM PartsAreOutlived == ProcessSpec => []PartsOutlived
<1>1. ProcessInv => PartsOutlived BY PartsStay
<1> QED BY <1>1, ProcessInitial, ProcessSteps, PTL DEF ProcessSpec

(***************************************************************************)
(* Sixth: signing in. The verdict, and the bytes that are left, depend on what *)
(* the client sent and not on the pieces in which it arrived.              *)
(***************************************************************************)

Word == 0 .. MaxNumber
Wire == Seq(Word)

\* A word is a number of 16 bits.
LEMMA Words == ASSUME NEW n \in Word PROVE n \in Nat /\ n <= 65535
<1>1. MaxNumber = 65535 BY DEF MaxNumber
<1> QED BY <1>1 DEF Word

\* A number of 16 bits is a word.
LEMMA SmallWords == ASSUME NEW n \in Nat, n <= 65535 PROVE n \in Word
<1>1. MaxNumber = 65535 BY DEF MaxNumber
<1>2. n <= MaxNumber /\ MaxNumber \in Nat BY <1>1
<1> QED BY <1>2 DEF Word

\* What is left of a sequence, and a piece of it
LEMMA RestOf ==
  ASSUME NEW s \in Wire, NEW n \in 0..Len(s)
  PROVE  /\ Rest(s, n) \in Wire /\ Len(Rest(s, n)) = Len(s) - n
         /\ \A k \in 1..Len(s) - n : Rest(s, n)[k] = s[n + k]
<1>1. Len(s) \in Nat /\ n + 1 \in Int BY DEF Wire
<1>2. \A i \in n + 1..Len(s) : s[i] \in Word BY <1>1 DEF Wire
<1>3. /\ SubSeq(s, n + 1, Len(s)) \in Wire
      /\ Len(SubSeq(s, n + 1, Len(s))) = IF n + 1 <= Len(s) THEN Len(s) - (n + 1) + 1 ELSE 0
      /\ \A i \in 1 .. Len(s) - (n + 1) + 1 : SubSeq(s, n + 1, Len(s))[i] = s[n + 1 + i - 1]
  BY <1>1, <1>2, SubSeqProperties, SMTT(30) DEF Wire
<1> QED BY <1>1, <1>3, SMTT(30) DEF Rest

\* A piece of a stream, and what is at its places.
LEMMA PieceOf ==
  ASSUME NEW s \in Wire, NEW m \in Nat \ {0}, NEW n \in Nat, m <= n + 1, n <= Len(s)
  PROVE  /\ SubSeq(s, m, n) \in Wire /\ Len(SubSeq(s, m, n)) = n + 1 - m
         /\ \A k \in 1..n + 1 - m : SubSeq(s, m, n)[k] = s[m + k - 1]
<1>1. Len(s) \in Nat /\ m \in Int /\ n \in Int BY DEF Wire
<1>2. \A i \in m..n : s[i] \in Word BY <1>1 DEF Wire
<1>3. /\ SubSeq(s, m, n) \in Wire
      /\ Len(SubSeq(s, m, n)) = IF m <= n THEN n - m + 1 ELSE 0
      /\ \A i \in 1 .. n - m + 1 : SubSeq(s, m, n)[i] = s[m + i - 1]
  BY <1>1, <1>2, SubSeqProperties, SMTT(30) DEF Wire
<1> QED BY <1>1, <1>3, SMTT(30)

\* Two streams in a row, and what is at their places.
LEMMA Joined ==
  ASSUME NEW s \in Wire, NEW t \in Wire
  PROVE  /\ s \o t \in Wire /\ Len(s \o t) = Len(s) + Len(t)
         /\ \A k \in 1..Len(s) : (s \o t)[k] = s[k]
         /\ \A k \in 1..Len(t) : (s \o t)[Len(s) + k] = t[k]
<1>1. Len(s) \in Nat /\ Len(t) \in Nat BY DEF Wire
<1>2. /\ s \o t \in Wire /\ Len(s \o t) = Len(s) + Len(t)
      /\ \A i \in 1 .. Len(s) + Len(t) : (s \o t)[i] = IF i <= Len(s) THEN s[i] ELSE t[i - Len(s)]
  BY ConcatProperties DEF Wire
<1> QED BY <1>1, <1>2, SMTT(30)

\* Two sequences that agree everywhere
LEMMA SameWire ==
  ASSUME NEW s \in Wire, NEW t \in Wire, Len(s) = Len(t), \A k \in 1..Len(s) : s[k] = t[k]
  PROVE  s = t
BY SeqEqual DEF Wire

\* What arrives together with what is yet to come is what was to come.
LEMMA PieceAndRest ==
  ASSUME NEW s \in Wire, NEW t \in Wire, NEW n \in 0..Len(t)
  PROVE  /\ s \o SubSeq(t, 1, n) \in Wire /\ Rest(t, n) \in Wire
         /\ (s \o SubSeq(t, 1, n)) \o Rest(t, n) = s \o t
<1> DEFINE p == SubSeq(t, 1, n)  r == Rest(t, n)
<1>0. Len(s) \in Nat /\ Len(t) \in Nat BY DEF Wire
<1>1. p \in Wire /\ Len(p) = n /\ \A k \in 1..n : p[k] = t[k]
  <2>1. 1 \in Nat \ {0} /\ n \in Nat /\ 1 <= n + 1 /\ n <= Len(t) BY <1>0
  <2>2. /\ p \in Wire /\ Len(p) = n + 1 - 1 /\ \A k \in 1..n + 1 - 1 : p[k] = t[1 + k - 1]
    BY <2>1, PieceOf
  <2>3. n + 1 - 1 = n /\ \A k \in 1..n : 1 + k - 1 = k BY <2>1
  <2> QED BY <2>2, <2>3
<1>2. r \in Wire /\ Len(r) = Len(t) - n /\ \A k \in 1..Len(t) - n : r[k] = t[n + k] BY RestOf
<1> HIDE DEF p, r
<1> DEFINE a == s \o p
<1>3. /\ a \in Wire /\ Len(a) = Len(s) + n
      /\ \A k \in 1..Len(s) : a[k] = s[k]
      /\ \A k \in 1..n : a[Len(s) + k] = p[k]
  BY <1>1, Joined
<1> HIDE DEF a
<1> DEFINE b == a \o r  c == s \o t
<1>4. /\ b \in Wire /\ Len(b) = Len(s) + Len(t)
      /\ \A k \in 1..Len(s) + n : b[k] = a[k]
      /\ \A k \in 1..Len(t) - n : b[Len(s) + n + k] = r[k]
  <2>1. /\ b \in Wire /\ Len(b) = Len(a) + Len(r)
        /\ \A k \in 1..Len(a) : b[k] = a[k]
        /\ \A k \in 1..Len(r) : b[Len(a) + k] = r[k]
    BY <1>2, <1>3, Joined
  <2>2. Len(s) + n + (Len(t) - n) = Len(s) + Len(t) BY <1>0
  <2> QED BY <1>2, <1>3, <2>1, <2>2
<1>5. /\ c \in Wire /\ Len(c) = Len(s) + Len(t)
      /\ \A k \in 1..Len(s) : c[k] = s[k]
      /\ \A k \in 1..Len(t) : c[Len(s) + k] = t[k]
  BY Joined
<1> HIDE DEF b, c
<1>6. ASSUME NEW k \in 1..Len(b) PROVE b[k] = c[k]
  <2>1. CASE k <= Len(s) BY <1>0, <1>3, <1>4, <1>5, <2>1
  <2>2. CASE k > Len(s) /\ k <= Len(s) + n
    <3> DEFINE j == k - Len(s)
    <3>1. j \in 1..n /\ k = Len(s) + j /\ j \in 1..Len(t) BY <1>0, <1>4, <2>2
    <3> HIDE DEF j
    <3>2. b[k] = a[k] BY <1>0, <1>4, <2>2
    <3> QED BY <1>1, <1>3, <1>5, <3>1, <3>2
  <2>3. CASE k > Len(s) + n
    <3> DEFINE j == k - (Len(s) + n)
    <3>1. j \in 1..Len(t) - n /\ k = Len(s) + n + j /\ n + j \in 1..Len(t) /\ k = Len(s) + (n + j)
      BY <1>0, <1>4, <2>3
    <3> HIDE DEF j
    <3>2. b[k] = t[n + j] BY <1>2, <1>4, <3>1
    <3>3. c[k] = t[n + j] BY <1>5, <3>1
    <3> QED BY <3>2, <3>3
  <2> QED BY <1>0, <1>4, <2>1, <2>2, <2>3
<1>7. b = c BY <1>4, <1>5, <1>6, SameWire
<1> QED BY <1>1, <1>2, <1>3, <1>7 DEF a, b, c, p, r
-----------------------------------------------------------------------------
(* One text of a block. *)

\* The number that a stream starts with is a word.
LEMMA Numbers == ASSUME NEW b \in Wire PROVE NumberAt(b) \in Word
<1>1. CASE Len(b) < 2 BY <1>1, SmallWords DEF NumberAt
<1>2. CASE ~(Len(b) < 2)
  <2>1. 1 \in 1..Len(b) BY <1>2 DEF Wire
  <2>2. b[1] \in Word BY <2>1 DEF Wire
  <2> QED BY <1>2, <2>2 DEF NumberAt
<1> QED BY <1>1, <1>2

\* Its characters, and the bytes after it
Text(b, r) ==
  LET s == NumberAt(b)
  IN /\ r.size = s /\ s >= 1 /\ s <= Len(b) - 2
     /\ r.text \in Wire /\ Len(r.text) = s - 1 /\ \A k \in 1..s - 1 : r.text[k] = b[2 + k]
     /\ r.rest \in Wire /\ Len(r.rest) = Len(b) - 2 - s
     /\ \A k \in 1..Len(b) - 2 - s : r.rest[k] = b[2 + s + k]

\* A text that is empty, does not fit or has not arrived is not read.
LEMMA NoText ==
  ASSUME NEW b \in Wire, NEW fits, NumberAt(b) < 1 \/ ~fits \/ Len(b) - 2 < NumberAt(b)
  PROVE  ReadText(b, fits) = {}
<1>1. CASE Len(b) < 2
  <2>1. NumberAt(b) = 0 BY <1>1 DEF NumberAt
  <2> QED BY <2>1 DEF ReadText
<1>2. CASE ~(Len(b) < 2)
  <2>1. Len(b) \in Nat BY DEF Wire
  <2>2. Len(Rest(b, 2)) = Len(b) - 2
    <3>1. 2 \in 0..Len(b) BY <1>2, <2>1
    <3> QED BY <3>1, RestOf
  <2> QED BY <2>2 DEF ReadText
<1> QED BY <1>1, <1>2

HasText(b, fits) == \E r : ReadText(b, fits) = {r} /\ Text(b, r)

\* A text that fits and has arrived is read, and the rest is left.
LEMMA TextRead ==
  ASSUME NEW b \in Wire, NEW fits \in BOOLEAN, NumberAt(b) >= 1, fits = TRUE, NumberAt(b) <= Len(b) - 2
  PROVE  HasText(b, fits)
<1> DEFINE s == NumberAt(b)
           c == Rest(b, 2)
           t == SubSeq(c, 1, s - 1)
           d == Rest(c, s)
           r == [text |-> t, rest |-> d, size |-> s]
<1>1. s \in Nat /\ s >= 1 /\ Len(b) \in Nat /\ s <= Len(b) - 2
  <2>0. NumberAt(b) \in Word BY Numbers
  <2>1. s \in Nat BY <2>0, Words
  <2>2. Len(b) \in Nat BY DEF Wire
  <2> QED BY <2>1, <2>2
<1>2. c \in Wire /\ Len(c) = Len(b) - 2 /\ \A k \in 1..Len(b) - 2 : c[k] = b[2 + k]
  <2>1. 2 \in 0..Len(b) BY <1>1
  <2> QED BY <2>1, RestOf
<1>3. ReadText(b, fits) = {r}
  <2>1. ~(s < 1 \/ ~fits \/ Len(c) < s) BY <1>1, <1>2
  <2> QED BY <2>1 DEF ReadText
<1> HIDE DEF s, c
<1>4. t \in Wire /\ Len(t) = s - 1 /\ \A k \in 1..s - 1 : t[k] = c[k]
  <2>1. 1 \in Nat \ {0} /\ s - 1 \in Nat /\ 1 <= (s - 1) + 1 /\ s - 1 <= Len(c) BY <1>1, <1>2
  <2>2. t \in Wire /\ Len(t) = (s - 1) + 1 - 1 /\ \A k \in 1..(s - 1) + 1 - 1 : t[k] = c[1 + k - 1]
    BY <1>2, <2>1, PieceOf
  <2>3. (s - 1) + 1 - 1 = s - 1 /\ \A k \in 1..s - 1 : 1 + k - 1 = k BY <1>1
  <2> QED BY <2>2, <2>3
<1>5. d \in Wire /\ Len(d) = Len(c) - s /\ \A k \in 1..Len(c) - s : d[k] = c[s + k]
  <2>1. s \in 0..Len(c) BY <1>1, <1>2
  <2> QED BY <1>2, <2>1, RestOf
<1>6. r.size = s /\ r.text = t /\ r.rest = d OBVIOUS
<1> HIDE DEF t, d, r
<1>7. \A k \in 1..s - 1 : t[k] = b[2 + k]
  <2>1. \A k \in 1..s - 1 : k \in 1..Len(b) - 2 BY <1>1
  <2> QED BY <1>2, <1>4, <2>1
<1>8. Len(d) = Len(b) - 2 - s /\ \A k \in 1..Len(b) - 2 - s : d[k] = b[2 + s + k]
  <2>1. \A k \in 1..Len(b) - 2 - s : s + k \in 1..Len(b) - 2 /\ 2 + (s + k) = 2 + s + k BY <1>1
  <2> QED BY <1>1, <1>2, <1>5, <2>1
<1>9. Text(b, r) BY <1>1, <1>4, <1>5, <1>6, <1>7, <1>8 DEF Text, s
<1> QED BY <1>3, <1>9 DEF HasText

\* The answer to a block, of which both texts can be read, or one cannot
Named(b, block) == ReadText(b, NameFits(NumberAt(b), block))
Proved(r, block) == ReadText(r.rest, PasswordFits(NumberAt(r.rest), AfterName(r.size, block)))

\* A block with both texts is answered by the check of name and password.
LEMMA CheckedTexts ==
  ASSUME NEW b, NEW block, NEW r, NEW w, Named(b, block) = {r}, Proved(r, block) = {w}
  PROVE  Checked(b, block) = IF AuthenticateUser(r.text, w.text) THEN [answer |-> "in", rest |-> w.rest]
                             ELSE [answer |-> "failed", rest |-> << >>]
<1> DEFINE both == {[name |-> r.text, password |-> w.text, rest |-> w.rest]}
<1>1. Checked(b, block) =
        IF \E x \in both : AuthenticateUser(x.name, x.password)
        THEN [answer |-> "in", rest |-> (CHOOSE x \in both : TRUE).rest]
        ELSE [answer |-> "failed", rest |-> << >>]
  <2>1. {[name |-> r.text, password |-> v.text, rest |-> v.rest] : v \in Proved(r, block)} = both OBVIOUS
  <2>2. UNION {{[name |-> q.text, password |-> v.text, rest |-> v.rest] : v \in Proved(q, block)} :
                 q \in Named(b, block)} = both
    BY <2>1
  <2> QED BY <2>2 DEF Checked, Named, Proved
<1>2. (CHOOSE x \in both : TRUE).rest = w.rest
  <2>1. \E x : x \in both OBVIOUS
  <2>2. (CHOOSE x \in both : TRUE) \in both BY <2>1
  <2> QED BY <2>2
<1>3. (\E x \in both : AuthenticateUser(x.name, x.password)) <=> AuthenticateUser(r.text, w.text) OBVIOUS
<1> QED BY <1>1, <1>2, <1>3

\* A block that lacks one of the texts is answered by a failure.
LEMMA CheckedNothing ==
  ASSUME NEW b, NEW block, \A r \in Named(b, block) : Proved(r, block) = {}
  PROVE  Checked(b, block) = [answer |-> "failed", rest |-> << >>]
<1>1. \A r \in Named(b, block) :
        {[name |-> r.text, password |-> w.text, rest |-> w.rest] : w \in Proved(r, block)} = {}
  OBVIOUS
<1>2. UNION {{[name |-> r.text, password |-> w.text, rest |-> w.rest] : w \in Proved(r, block)} :
               r \in Named(b, block)} = {}
  BY <1>1
<1> QED BY <1>2 DEF Checked, Named, Proved
-----------------------------------------------------------------------------
(* The answer to a block that has arrived as a whole. *)

\* The streams that are promised to be signed in, and what is left of them
Right(x) ==
  WellFormed(x) /\ AuthenticateUser(SubSeq(x, 5, 3 + x[3]), SubSeq(x, 7 + x[3], 1 + x[1]))

\* b is what has arrived of the block that starts x, and perhaps more.
Arrived(x, b, more) ==
  /\ Len(x) \in Nat /\ Len(x) >= 2 /\ x[1] \in Word /\ more \in Wire /\ b \in Wire
  /\ b \o more = Rest(x, 2)
  /\ Len(b) \in Nat /\ x[1] <= Len(b) /\ Len(b) <= Len(x) - 2
  /\ \A k \in 1..Len(b) : b[k] = x[2 + k]

\* A block has arrived when as many words as its size says are there.
LEMMA HasArrived ==
  ASSUME NEW x \in Wire, NEW b \in Wire, NEW more \in Wire, Len(x) >= 2, b \o more = Rest(x, 2),
         x[1] <= Len(b)
  PROVE  Arrived(x, b, more)
<1>1. Len(x) \in Nat /\ Len(b) \in Nat /\ Len(more) \in Nat BY DEF Wire
<1>2. Len(Rest(x, 2)) = Len(x) - 2 /\ \A k \in 1..Len(x) - 2 : Rest(x, 2)[k] = x[2 + k]
  <2>1. 2 \in 0..Len(x) BY <1>1
  <2> QED BY <2>1, RestOf
<1>3. Len(b \o more) = Len(b) + Len(more) /\ \A k \in 1..Len(b) : (b \o more)[k] = b[k] BY Joined
<1>4. Len(b) <= Len(x) - 2 BY <1>1, <1>2, <1>3
<1>5. \A k \in 1..Len(b) : k \in 1..Len(x) - 2 BY <1>1, <1>4
<1>6. \A k \in 1..Len(b) : b[k] = x[2 + k] BY <1>2, <1>3, <1>5
<1>7. x[1] \in Word
  <2>1. 1 \in 1..Len(x) BY <1>1
  <2> QED BY <2>1 DEF Wire
<1> QED BY <1>1, <1>4, <1>6, <1>7 DEF Arrived

\* The sizes that a well-formed block has are those with which its texts can be read.
Readable(n, u, v, m) ==
  /\ u >= 1 /\ NameFits(u, n) /\ u <= m - 2
  /\ v >= 1 /\ PasswordFits(v, AfterName(u, n)) /\ v <= m - 2 - u - 2

\* Both texts are readable exactly when their sizes fill the block.
LEMMA SizesFit ==
  ASSUME NEW n \in Word, NEW u \in Word, NEW v \in Word, NEW m \in Nat, n <= m, m < 65536
  PROVE  Readable(n, u, v, m) <=> n >= 6 /\ u \in 1..n - 5 /\ v = n - 4 - u
<1> DEFINE a == n - 2 - u
<1>1. n \in Nat /\ u \in Nat /\ v \in Nat /\ n <= 65535 /\ u <= 65535 BY Words
<1>2. a \in Int BY <1>1
<1>3. AfterName(u, n) = a % 65536 BY DEF AfterName
<1>4. 0 <= a => a % 65536 = a BY <1>1
<1>5. a < 0 /\ a >= -65536 => a % 65536 = a + 65536 BY <1>1
<1>6. a < -65536 => u > m - 2 BY <1>1
<1>7. PasswordFits(v, a % 65536) <=> v = (a % 65536) - 2 BY DEF PasswordFits
<1>8. ASSUME n >= 6, u \in 1..n - 5, v = n - 4 - u
      PROVE  Readable(n, u, v, m)
  <2>1. 0 <= a /\ v = a - 2 BY <1>1, <1>8
  <2>2. PasswordFits(v, AfterName(u, n)) BY <1>3, <1>4, <1>7, <2>1
  <2> QED BY <1>1, <1>8, <2>2 DEF NameFits, Readable
<1>9. ASSUME Readable(n, u, v, m)
      PROVE  n >= 6 /\ u \in 1..n - 5 /\ v = n - 4 - u
  <2>0. u >= 1 /\ u <= m - 2 /\ v >= 1 /\ v <= m - 2 - u - 2 BY <1>9 DEF Readable
  <2>1. v = (a % 65536) - 2 BY <1>3, <1>7, <1>9 DEF Readable
  <2>2. CASE a >= 0
    <3>1. v = a - 2 BY <1>4, <2>1, <2>2
    <3> QED BY <1>1, <2>0, <3>1
  <2>3. CASE a < 0
    <3>1. a >= -65536 BY <1>1, <1>2, <1>6, <2>0
    <3>2. v = a + 65536 - 2 BY <1>5, <2>1, <2>3, <3>1
    <3>3. FALSE BY <1>1, <2>0, <3>2
    <3> QED BY <3>3
  <2> QED BY <1>2, <2>2, <2>3
<1> QED BY <1>8, <1>9
\* What is left of what arrived, with what is yet to come
LEMMA RestOfJoined ==
  ASSUME NEW x \in Wire, NEW b \in Wire, NEW more \in Wire, Len(x) >= 2, b \o more = Rest(x, 2),
         NEW n \in Nat, n <= Len(b)
  PROVE  Rest(b, n) \o more = Rest(x, 2 + n)
<1>0. Len(x) \in Nat /\ Len(b) \in Nat /\ Len(more) \in Nat BY DEF Wire
<1> DEFINE r == Rest(x, 2)
<1>1. r \in Wire /\ Len(r) = Len(x) - 2 /\ \A k \in 1..Len(x) - 2 : r[k] = x[2 + k]
  <2>1. 2 \in 0..Len(x) BY <1>0
  <2> QED BY <2>1, RestOf
<1> HIDE DEF r
<1>2. Len(r) = Len(b) + Len(more) /\ (\A k \in 1..Len(b) : r[k] = b[k])
      /\ \A k \in 1..Len(more) : r[Len(b) + k] = more[k]
  BY Joined DEF r
<1> DEFINE p == Rest(b, n)
<1>3. p \in Wire /\ Len(p) = Len(b) - n /\ \A k \in 1..Len(b) - n : p[k] = b[n + k]
  <2>1. n \in 0..Len(b) BY <1>0
  <2> QED BY <2>1, RestOf
<1> HIDE DEF p
<1> DEFINE q == p \o more  t == Rest(x, 2 + n)
<1>4. /\ q \in Wire /\ Len(q) = Len(p) + Len(more) /\ \A k \in 1..Len(p) : q[k] = p[k]
      /\ \A k \in 1..Len(more) : q[Len(p) + k] = more[k]
  BY <1>3, Joined
<1>5. t \in Wire /\ Len(t) = Len(x) - (2 + n) /\ \A k \in 1..Len(x) - (2 + n) : t[k] = x[2 + n + k]
  <2>1. 2 + n \in 0..Len(x) BY <1>0, <1>1, <1>2
  <2> QED BY <2>1, RestOf
<1> HIDE DEF q, t
<1>6. Len(q) = Len(t) BY <1>0, <1>1, <1>2, <1>3, <1>4, <1>5
<1>7. ASSUME NEW k \in 1..Len(q) PROVE q[k] = t[k]
  <2>1. n + k \in 1..Len(x) - 2 /\ k \in 1..Len(x) - (2 + n) /\ 2 + (n + k) = 2 + n + k
    BY <1>0, <1>5, <1>6
  <2>2. t[k] = r[n + k] BY <1>1, <1>5, <2>1
  <2>3. CASE k <= Len(b) - n
    <3>1. k \in 1..Len(b) - n /\ k \in 1..Len(p) /\ n + k \in 1..Len(b) BY <1>0, <1>3, <1>4, <2>3
    <3> QED BY <1>2, <1>3, <1>4, <2>2, <3>1
  <2>4. CASE k > Len(b) - n
    <3> DEFINE j == k - (Len(b) - n)
    <3>1. j \in 1..Len(more) /\ k = Len(p) + j /\ n + k = Len(b) + j
      BY <1>0, <1>3, <1>4, <2>4
    <3> HIDE DEF j
    <3>2. q[k] = more[j] BY <1>4, <3>1
    <3>3. r[n + k] = more[j] BY <1>2, <3>1
    <3> QED BY <2>2, <3>2, <3>3
  <2> QED BY <1>0, <1>3, <1>4, <2>3, <2>4
<1>8. q = t BY <1>4, <1>5, <1>6, <1>7, SameWire
<1> QED BY <1>8 DEF p, q, t
\* The answer to a block is the one that what was sent deserves, and nothing after it is read.
LEMMA CheckedAsSent ==
  ASSUME NEW x \in Wire, NEW b, NEW more, Arrived(x, b, more), Len(x) <= MaxNumber
  PROVE  LET c == Checked(b, x[1])
         IN /\ c.rest \in Wire
            /\ \/ c.answer = "in" /\ Right(x) /\ c.rest \o more = Rest(x, 2 + x[1])
               \/ c.answer = "failed" /\ ~Right(x)
<1> DEFINE n == x[1]  u == NumberAt(b)  c == Checked(b, x[1])
<1>1. /\ Len(x) \in Nat /\ Len(x) >= 2 /\ n \in Word /\ more \in Wire /\ b \in Wire
      /\ b \o more = Rest(x, 2)
      /\ Len(b) \in Nat /\ n <= Len(b) /\ Len(b) <= Len(x) - 2
      /\ \A k \in 1..Len(b) : b[k] = x[2 + k]
  BY DEF Arrived
<1>2. n \in Nat BY <1>1, Words
<1>3. u \in Word /\ u \in Nat
  <2>1. b \in Wire BY <1>1
  <2>2. NumberAt(b) \in Word BY <2>1, Numbers
  <2> QED BY <2>2, Words
<1>4. Len(b) >= 2 => u = x[3]
  <2>1. Len(b) >= 2 => 1 \in 1..Len(b) /\ 2 + 1 = 3 /\ ~(Len(b) < 2) BY <1>1
  <2> QED BY <1>1, <2>1 DEF NumberAt
<1>5. WellFormed(x) <=>
        n >= 6 /\ Len(x) >= n + 2 /\ x[3] \in 1..n - 5 /\ x[5 + x[3]] = n - 4 - x[3]
  BY <1>1 DEF WellFormed
<1> HIDE DEF n, u
<1>6. Len(x) >= n + 2 BY <1>1, <1>2
<1>7. Len(b) < 65536
  <2>1. MaxNumber = 65535 BY DEF MaxNumber
  <2> QED BY <1>1, <2>1
<1>8. << >> \in Wire BY DEF Wire
<1>9. CASE \A r \in Named(b, n) : Proved(r, n) = {}
  <2>1. c = [answer |-> "failed", rest |-> << >>] BY <1>9, CheckedNothing DEF n
  <2>2. SUFFICES ASSUME WellFormed(x) PROVE FALSE BY <1>8, <2>1 DEF Right, n
  <2>3. /\ n >= 6 /\ u = x[3] /\ u \in 1..n - 5 /\ x[5 + u] = n - 4 - u
    BY <1>1, <1>2, <1>4, <1>5, <2>2
  <2> DEFINE v == n - 4 - u
  <2>4. v \in Word /\ v \in Nat
    <3>1. n \in Word /\ n <= 65535 BY <1>1, Words
    <3>2. v \in Nat /\ v <= 65535 BY <1>2, <1>3, <2>3, <3>1
    <3> HIDE DEF v
    <3> QED BY <3>2, SmallWords
  <2>5. /\ u >= 1 /\ NameFits(u, n) /\ u <= Len(b) - 2 /\ v >= 1 /\ PasswordFits(v, AfterName(u, n))
        /\ v <= Len(b) - 2 - u - 2
    <3>1. Readable(n, u, v, Len(b)) BY <1>1, <1>3, <1>7, <2>3, <2>4, SizesFit
    <3> QED BY <3>1 DEF Readable
  <2>6. PICK r : Named(b, n) = {r} /\ Text(b, r) 
    <3>1. b \in Wire /\ NumberAt(b) >= 1 /\ NameFits(NumberAt(b), n) /\ NumberAt(b) <= Len(b) - 2
      BY <1>1, <2>5 DEF u
    <3> DEFINE right == NameFits(NumberAt(b), n)
    <3>2. right \in BOOLEAN /\ right = TRUE BY <3>1 DEF NameFits
    <3> HIDE DEF right
    <3>3. HasText(b, right) BY <3>1, <3>2, TextRead, Zenon
    <3> QED BY <3>3 DEF Named, HasText, right
  <2>7. r.size = u /\ r.rest \in Wire /\ Len(r.rest) = Len(b) - 2 - u BY <2>6 DEF Text, u
  <2>8. NumberAt(r.rest) = v
    <3>1. 1 \in 1..Len(b) - 2 - u /\ 2 + u + 1 \in 1..Len(b) /\ ~(Len(r.rest) < 2)
      BY <1>1, <1>3, <2>4, <2>5, <2>7
    <3>2. r.rest[1] = b[2 + u + 1] BY <2>6, <3>1 DEF Text, u
    <3>3. b[2 + u + 1] = x[2 + (2 + u + 1)] BY <1>1, <3>1
    <3>4. 2 + (2 + u + 1) = 5 + u BY <1>3
    <3>5. r.rest[1] = v BY <2>3, <3>2, <3>3, <3>4
    <3> QED BY <3>1, <3>5 DEF NumberAt
  <2>9. \E w : Proved(r, n) = {w}
    <3> HIDE DEF v
    <3>1. NumberAt(r.rest) >= 1 /\ NumberAt(r.rest) <= Len(r.rest) - 2 BY <2>5, <2>7, <2>8
    <3>2. PasswordFits(NumberAt(r.rest), AfterName(r.size, n)) BY <2>5, <2>7, <2>8
    <3> DEFINE right == PasswordFits(NumberAt(r.rest), AfterName(r.size, n))
    <3>3. right \in BOOLEAN /\ right = TRUE BY <3>2 DEF PasswordFits
    <3> HIDE DEF right
    <3>4. HasText(r.rest, right) BY <2>7, <3>1, <3>3, TextRead, Zenon
    <3> QED BY <3>4 DEF Proved, HasText, right
  <2> QED BY <1>9, <2>6, <2>9
<1>10. CASE \E r \in Named(b, n) : Proved(r, n) # {}
  <2>1. PICK r \in Named(b, n) : Proved(r, n) # {} BY <1>10
  <2>2. u >= 1 /\ NameFits(u, n) /\ u <= Len(b) - 2
    <3>1. Named(b, n) # {} BY <2>1
    <3>2. ~(u < 1 \/ ~NameFits(u, n) \/ Len(b) - 2 < u) BY <1>1, <3>1, NoText DEF Named, u
    <3> QED BY <1>1, <1>3, <3>2
  <2>3. Named(b, n) = {r} /\ Text(b, r)
    <3>1. PICK q : Named(b, n) = {q} /\ Text(b, q) 
      <4>1. b \in Wire /\ NumberAt(b) >= 1 /\ NameFits(NumberAt(b), n) /\ NumberAt(b) <= Len(b) - 2
        BY <1>1, <2>2 DEF u
      <4> DEFINE right == NameFits(NumberAt(b), n)
      <4>2. right \in BOOLEAN /\ right = TRUE BY <4>1 DEF NameFits
      <4> HIDE DEF right
      <4>3. HasText(b, right) BY <4>1, <4>2, TextRead, Zenon
      <4> QED BY <4>3 DEF Named, HasText, right
    <3> QED BY <2>1, <3>1
  <2>4. /\ r.size = u /\ r.text \in Wire /\ Len(r.text) = u - 1 /\ \A k \in 1..u - 1 : r.text[k] = b[2 + k]
        /\ r.rest \in Wire /\ Len(r.rest) = Len(b) - 2 - u
        /\ \A k \in 1..Len(b) - 2 - u : r.rest[k] = b[2 + u + k]
    BY <2>3 DEF Text, u
  <2> DEFINE d == r.rest  v == NumberAt(d)
  <2>5. v \in Word /\ v \in Nat
    <3>1. d \in Wire BY <2>4
    <3>2. NumberAt(d) \in Word BY <3>1, Numbers
    <3> QED BY <3>2, Words
  <2>6. v >= 1 /\ PasswordFits(v, AfterName(u, n)) /\ v <= Len(d) - 2
    <3>1. ~(v < 1 \/ ~PasswordFits(v, AfterName(u, n)) \/ Len(d) - 2 < v)
      BY <2>1, <2>4, NoText DEF Proved
    <3> QED BY <1>1, <1>3, <2>4, <2>5, <3>1
  <2>7. PICK w : Proved(r, n) = {w} /\ Text(d, w)
    <3> DEFINE right == PasswordFits(v, AfterName(u, n))
    <3>1. right \in BOOLEAN /\ right = TRUE BY <2>6 DEF PasswordFits
    <3> HIDE DEF right
    <3>2. HasText(d, right) BY <2>4, <2>6, <3>1, TextRead, Zenon
    <3> QED BY <2>4, <3>2 DEF Proved, HasText, right
  <2>8. /\ w.text \in Wire /\ Len(w.text) = v - 1 /\ \A k \in 1..v - 1 : w.text[k] = d[2 + k]
        /\ w.rest \in Wire /\ Len(w.rest) = Len(d) - 2 - v
        /\ \A k \in 1..Len(d) - 2 - v : w.rest[k] = d[2 + v + k]
    BY <2>7 DEF Text
  <2>9. n >= 6 /\ u \in 1..n - 5 /\ v = n - 4 - u
    <3>1. Readable(n, u, v, Len(b)) BY <2>2, <2>4, <2>6 DEF Readable
    <3> QED BY <1>1, <1>3, <1>7, <2>5, <3>1, SizesFit
  <2>10. u = x[3] BY <1>1, <1>4, <1>2, <2>9
  <2>11. v = x[5 + u]
    <3>1. 1 \in 1..Len(b) - 2 - u /\ 2 + u + 1 \in 1..Len(b) /\ ~(Len(d) < 2)
      BY <1>1, <1>3, <2>4, <2>5, <2>6
    <3>2. d[1] = b[2 + u + 1] BY <2>4, <3>1
    <3>3. b[2 + u + 1] = x[2 + (2 + u + 1)] BY <1>1, <3>1
    <3>4. 2 + (2 + u + 1) = 5 + u BY <1>3
    <3> QED BY <3>1, <3>2, <3>3, <3>4 DEF NumberAt
  <2>12. WellFormed(x) BY <1>5, <1>6, <2>9, <2>10, <2>11
  <2> HIDE DEF v, d
  <2>13. Len(b) - 2 - u = Len(d) BY <2>4 DEF d
  <2>14. r.text = SubSeq(x, 5, 3 + u)
    <3> DEFINE t == SubSeq(x, 5, 3 + u)
    <3>1. 5 \in Nat \ {0} /\ 3 + u \in Nat /\ 5 <= 3 + u + 1 /\ 3 + u <= Len(x)
      BY <1>1, <1>2, <1>3, <2>2, <2>9
    <3>2. t \in Wire /\ Len(t) = 3 + u + 1 - 5 /\ \A k \in 1..3 + u + 1 - 5 : t[k] = x[5 + k - 1]
      BY <3>1, PieceOf
    <3>3. 3 + u + 1 - 5 = u - 1 BY <1>3
    <3> HIDE DEF t
    <3>4. ASSUME NEW k \in 1..u - 1 PROVE r.text[k] = t[k]
      <4>1. k \in 1..3 + u + 1 - 5 /\ 2 + k \in 1..Len(b) /\ 2 + (2 + k) = 5 + k - 1 BY <1>1, <1>3, <2>2
      <4>2. r.text[k] = b[2 + k] BY <2>4
      <4>3. b[2 + k] = x[2 + (2 + k)] BY <1>1, <4>1
      <4> QED BY <3>2, <4>1, <4>2, <4>3
    <3>5. r.text = t BY <2>4, <3>2, <3>3, <3>4, SameWire
    <3> QED BY <3>5 DEF t
  <2>15. ASSUME NEW k \in 1..Len(d) PROVE d[k] = x[4 + u + k] /\ d[k] = b[2 + u + k] /\ 2 + u + k \in 1..Len(b)
    <3>1. 2 + u + k \in 1..Len(b) /\ 2 + (2 + u + k) = 4 + u + k BY <1>1, <1>3, <2>2, <2>13
    <3>2. d[k] = b[2 + u + k] BY <2>4, <2>13 DEF d
    <3>3. b[2 + u + k] = x[2 + (2 + u + k)] BY <1>1, <3>1
    <3> QED BY <3>1, <3>2, <3>3
  <2>16. w.text = SubSeq(x, 7 + u, 1 + n)
    <3> DEFINE t == SubSeq(x, 7 + u, 1 + n)
    <3>1. 7 + u \in Nat \ {0} /\ 1 + n \in Nat /\ 7 + u <= 1 + n + 1 /\ 1 + n <= Len(x)
      <4>1. u <= n - 5 BY <2>9
      <4> QED BY <1>1, <1>2, <1>3, <1>6, <4>1
    <3>2. t \in Wire /\ Len(t) = 1 + n + 1 - (7 + u)
          /\ \A k \in 1..1 + n + 1 - (7 + u) : t[k] = x[7 + u + k - 1]
      BY <3>1, PieceOf
    <3>3. 1 + n + 1 - (7 + u) = v - 1 BY <1>2, <1>3, <2>9
    <3> HIDE DEF t
    <3>4. ASSUME NEW k \in 1..v - 1 PROVE w.text[k] = t[k]
      <4>1. /\ 2 + k \in 1..Len(d) /\ 4 + u + (2 + k) = 7 + u + k - 1
        BY <1>1, <1>3, <2>5, <2>6, <2>13
      <4>2. k \in 1..1 + n + 1 - (7 + u) BY <3>3
      <4>3. w.text[k] = d[2 + k] BY <2>8
      <4>4. d[2 + k] = x[4 + u + (2 + k)] BY <2>15, <4>1
      <4> QED BY <3>2, <4>1, <4>2, <4>3, <4>4
    <3>5. w.text = t BY <2>8, <3>2, <3>3, <3>4, SameWire
    <3> QED BY <3>5 DEF t
  <2>17. w.rest = Rest(b, n)
    <3> DEFINE t == Rest(b, n)
    <3>1. t \in Wire /\ Len(t) = Len(b) - n /\ \A k \in 1..Len(b) - n : t[k] = b[n + k]
      <4>1. n \in 0..Len(b) BY <1>1, <1>2
      <4>2. b \in Wire BY <1>1
      <4> HIDE DEF t
      <4> QED BY <4>1, <4>2, RestOf DEF t
    <3>2. Len(d) - 2 - v = Len(b) - n
      <4>1. Len(d) = Len(b) - 2 - u /\ v = n - 4 - u BY <2>9, <2>13
      <4> QED BY <1>1, <1>2, <1>3, <4>1
    <3> HIDE DEF t
    <3>3. ASSUME NEW k \in 1..Len(d) - 2 - v PROVE w.rest[k] = t[k]
      <4>1. 2 + v + k \in 1..Len(d) /\ 2 + u + (2 + v + k) = n + k BY <1>1, <1>2, <1>3, <2>5, <2>6, <2>9, <2>13
      <4>2. w.rest[k] = d[2 + v + k] BY <2>8
      <4>3. d[2 + v + k] = b[2 + u + (2 + v + k)] BY <2>15, <4>1
      <4>4. k \in 1..Len(b) - n BY <3>2
      <4> QED BY <3>1, <4>1, <4>2, <4>3, <4>4
    <3>4. w.rest = t BY <2>8, <3>1, <3>2, <3>3, SameWire
    <3> QED BY <3>4 DEF t
  <2>18. Rest(b, n) \o more = Rest(x, 2 + n)
    <3>1. b \in Wire /\ more \in Wire /\ Len(x) >= 2 /\ b \o more = Rest(x, 2) /\ n <= Len(b) BY <1>1
    <3> HIDE DEF c
    <3> QED BY <1>2, <3>1, RestOfJoined, Zenon
  <2>19. c = IF AuthenticateUser(r.text, w.text) THEN [answer |-> "in", rest |-> w.rest]
             ELSE [answer |-> "failed", rest |-> << >>]
    BY <2>3, <2>7, CheckedTexts DEF n
  <2>20. Right(x) <=> AuthenticateUser(r.text, w.text) BY <2>10, <2>12, <2>14, <2>16 DEF Right, n
  <2>21. w.rest \in Wire BY <2>8
  <2>22. CASE AuthenticateUser(r.text, w.text)
    <3>1. c.answer = "in" /\ c.rest = w.rest BY <2>19, <2>22
    <3> QED BY <2>17, <2>18, <2>20, <2>21, <2>22, <3>1 DEF n
  <2>23. CASE ~AuthenticateUser(r.text, w.text)
    <3>1. c.answer = "failed" /\ c.rest = << >> BY <2>19, <2>23
    <3> QED BY <1>8, <2>20, <2>23, <3>1 DEF n
  <2> QED BY <2>22, <2>23
<1> QED BY <1>9, <1>10
-----------------------------------------------------------------------------
(* The invariant of a client that signs in. *)

\* No client sends 64 kB at once while it signs in: what is left of a block whose size is
\* less than 4 wraps around, and would be taken for a password of that length.
ShortStreams == \A s \in Streams : Len(s) <= MaxNumber

SignInv ==
  /\ stream \in Streams /\ stream \in Wire /\ wire \in Wire /\ socket \in Wire /\ blockSize \in Word
  /\ signedIn \in {"waiting", "failed", "in", "gone"}
  /\ signedIn = "waiting" =>
       \/ blockSize = 0 /\ socket \o wire = stream
       \/ /\ blockSize # 0 /\ Len(stream) >= 2 /\ blockSize = stream[1]
          /\ socket \o wire = Rest(stream, 2)
  /\ signedIn = "in" => Right(stream) /\ socket \o wire = Rest(stream, 2 + stream[1])
  /\ signedIn = "failed" => ~Right(stream)

\* Signing in starts within its invariant.
LEMMA SignInitially == ASSUME SignInInit PROVE SignInv
<1>1. stream \in Wire
  <2>1. stream \in Seq(0 .. MaxNumber) BY StreamsAssumption DEF SignInInit
  <2> QED BY <2>1 DEF Wire, Word
<1>2. << >> \in Wire /\ << >> \o wire = wire
  <2>1. wire \in Seq(Word) BY <1>1 DEF SignInInit, Wire
  <2> QED BY <2>1, ConcatEmptySeq DEF Wire
<1>3. 0 \in Word BY SmallWords
<1> QED BY <1>1, <1>2, <1>3 DEF SignInInit, SignInv

\* The first two elements of a stream, when they have arrived
LEMMA BlockStarts ==
  ASSUME NEW x \in Wire, NEW b \in Wire, NEW more \in Wire, b \o more = x, ~(Len(b) < 2)
  PROVE  /\ Len(x) >= 2 /\ NumberAt(b) = x[1] /\ x[1] \in Word
         /\ Rest(b, 2) \in Wire /\ Rest(b, 2) \o more = Rest(x, 2)
<1>0. Len(b) \in Nat /\ Len(more) \in Nat /\ Len(x) \in Nat /\ Len(b) >= 2 BY DEF Wire
<1>1. Len(x) = Len(b) + Len(more) /\ (\A k \in 1..Len(b) : x[k] = b[k])
      /\ \A k \in 1..Len(more) : x[Len(b) + k] = more[k]
  BY Joined
<1>2. NumberAt(b) = x[1]
  <2>1. 1 \in 1..Len(b) BY <1>0
  <2> QED BY <1>1, <2>1 DEF NumberAt
<1>3. NumberAt(b) \in Word BY Numbers
<1> DEFINE r == Rest(b, 2)  t == Rest(x, 2)
<1>4. r \in Wire /\ Len(r) = Len(b) - 2 /\ \A k \in 1..Len(b) - 2 : r[k] = b[2 + k]
  <2>1. 2 \in 0..Len(b) BY <1>0
  <2> QED BY <2>1, RestOf
<1>5. t \in Wire /\ Len(t) = Len(x) - 2 /\ \A k \in 1..Len(x) - 2 : t[k] = x[2 + k]
  <2>1. 2 \in 0..Len(x) BY <1>0, <1>1
  <2> QED BY <2>1, RestOf
<1> HIDE DEF r, t
<1> DEFINE q == r \o more
<1>6. /\ q \in Wire /\ Len(q) = Len(r) + Len(more) /\ \A k \in 1..Len(r) : q[k] = r[k]
      /\ \A k \in 1..Len(more) : q[Len(r) + k] = more[k]
  BY <1>4, Joined
<1> HIDE DEF q
<1>7. Len(q) = Len(t) BY <1>0, <1>1, <1>4, <1>5, <1>6
<1>8. ASSUME NEW k \in 1..Len(q) PROVE q[k] = t[k]
  <2>1. k \in 1..Len(x) - 2 /\ 2 + k \in 1..Len(x) BY <1>0, <1>1, <1>5, <1>7
  <2>2. t[k] = x[2 + k] BY <1>5, <2>1
  <2>3. CASE k <= Len(b) - 2
    <3>1. k \in 1..Len(b) - 2 /\ k \in 1..Len(r) /\ 2 + k \in 1..Len(b) BY <1>0, <1>4, <2>1, <2>3
    <3> QED BY <1>1, <1>4, <1>6, <2>2, <3>1
  <2>4. CASE k > Len(b) - 2
    <3> DEFINE j == k - (Len(b) - 2)
    <3>1. j \in 1..Len(more) /\ k = Len(r) + j /\ 2 + k = Len(b) + j
      BY <1>0, <1>1, <1>4, <2>1, <2>4
    <3> HIDE DEF j
    <3>2. q[k] = more[j] BY <1>6, <3>1
    <3>3. x[2 + k] = more[j] BY <1>1, <3>1
    <3> QED BY <2>2, <3>2, <3>3
  <2> QED BY <1>0, <2>1, <2>3, <2>4
<1>9. q = t BY <1>5, <1>6, <1>7, <1>8, SameWire
<1> QED BY <1>0, <1>1, <1>2, <1>3, <1>4, <1>9 DEF q, r, t

\* Answering a block that has arrived keeps the invariant of signing in.
LEMMA Answering ==
  ASSUME SignInv, ShortStreams, NEW b \in Wire, wire' \in Wire, stream' = stream,
         Len(stream) >= 2, b \o wire' = Rest(stream, 2), ~(Len(b) < stream[1]), stream[1] \in Word,
         AnswerGiven(Checked(b, stream[1]))
  PROVE  SignInv'
<1> DEFINE c == Checked(b, stream[1])
<1>1. stream \in Wire /\ stream \in Streams /\ Len(stream) <= MaxNumber BY DEF SignInv, ShortStreams
<1>2. stream[1] <= Len(b)
  <2>1. stream[1] \in Nat /\ Len(b) \in Nat BY Words DEF Wire
  <2> QED BY <2>1
<1>3. Arrived(stream, b, wire') BY <1>1, <1>2, HasArrived
<1>4. /\ c.rest \in Wire
      /\ \/ c.answer = "in" /\ Right(stream) /\ c.rest \o wire' = Rest(stream, 2 + stream[1])
         \/ c.answer = "failed" /\ ~Right(stream)
  BY <1>1, <1>3, CheckedAsSent
<1> HIDE DEF c
<1>5. signedIn' = c.answer /\ socket' = c.rest /\ blockSize' = 0 BY DEF AnswerGiven, c
<1>6. 0 \in Word BY SmallWords
<1> QED BY <1>1, <1>4, <1>5, <1>6 DEF SignInv

\* Reading on, whether the block is complete or not, keeps the invariant of signing in.
LEMMA AuthenticatingKeeps ==
  ASSUME SignInv, ShortStreams, signedIn = "waiting", NEW b \in Wire, wire' \in Wire, stream' = stream,
         b \o wire' = socket \o wire, Authenticating(b)
  PROVE  SignInv'
<1>0. stream \in Wire /\ stream \in Streams BY DEF SignInv
<1>1. CASE blockSize = 0
  <2>0. b \o wire' = stream BY <1>1 DEF SignInv
  <2>1. CASE Len(b) < 2
    <3>1. blockSize' = 0 /\ socket' = b /\ signedIn' = signedIn
      BY <1>1, <2>1 DEF Authenticating, BlockAwaited
    <3> QED BY <1>0, <2>0, <3>1, SmallWords DEF SignInv
  <2>2. CASE ~(Len(b) < 2)
    <3>1. /\ Len(stream) >= 2 /\ NumberAt(b) = stream[1] /\ stream[1] \in Word
          /\ Rest(b, 2) \in Wire /\ Rest(b, 2) \o wire' = Rest(stream, 2)
      BY <1>0, <2>0, <2>2, BlockStarts
    <3>2. IF Len(Rest(b, 2)) < stream[1] THEN BlockAwaited(Rest(b, 2), stream[1]) /\ UNCHANGED signedIn
          ELSE AnswerGiven(Checked(Rest(b, 2), stream[1]))
      BY <1>1, <2>2, <3>1 DEF Authenticating
    <3>3. CASE Len(Rest(b, 2)) < stream[1]
      <4>1. blockSize' = stream[1] /\ socket' = Rest(b, 2) /\ signedIn' = signedIn
        BY <3>2, <3>3 DEF BlockAwaited
      <4>2. stream[1] # 0
        <5>1. Len(Rest(b, 2)) \in Nat /\ stream[1] \in Nat BY <3>1, Words DEF Wire
        <5> QED BY <3>3, <5>1
      <4> QED BY <1>0, <3>1, <4>1, <4>2 DEF SignInv
    <3>4. CASE ~(Len(Rest(b, 2)) < stream[1])
      <4>1. AnswerGiven(Checked(Rest(b, 2), stream[1])) BY <3>2, <3>4
      <4> QED BY <3>1, <3>4, <4>1, Answering
    <3> QED BY <3>3, <3>4
  <2> QED BY <2>1, <2>2
<1>2. CASE blockSize # 0
  <2>1. /\ Len(stream) >= 2 /\ blockSize = stream[1] /\ stream[1] \in Word
        /\ b \o wire' = Rest(stream, 2)
    BY <1>2 DEF SignInv
  <2>2. IF Len(b) < stream[1] THEN BlockAwaited(b, stream[1]) /\ UNCHANGED signedIn
        ELSE AnswerGiven(Checked(b, stream[1]))
    BY <1>2, <2>1 DEF Authenticating
  <2>3. CASE Len(b) < stream[1]
    <3>1. blockSize' = blockSize /\ socket' = b /\ signedIn' = signedIn
      BY <2>1, <2>2, <2>3 DEF BlockAwaited
    <3> QED BY <1>0, <1>2, <2>1, <3>1 DEF SignInv
  <2>4. CASE ~(Len(b) < stream[1])
    <3>1. AnswerGiven(Checked(b, stream[1])) BY <2>2, <2>4
    <3> QED BY <2>1, <2>4, <3>1, Answering
  <2> QED BY <2>3, <2>4
<1> QED BY <1>1, <1>2

\* Every step keeps the invariant of signing in.
LEMMA SignInKeeps == ASSUME SignInv, ShortStreams, [SignInNext]_signInVars PROVE SignInv'
<1>1. CASE PieceArrives
  <2>1. PICK n \in 1..Len(wire) :
          Authenticating(socket \o SubSeq(wire, 1, n)) /\ wire' = Rest(wire, n)
    BY <1>1 DEF PieceArrives
  <2>2. signedIn = "waiting" /\ stream' = stream /\ socket \in Wire /\ wire \in Wire
    BY <1>1 DEF PieceArrives, SignInv
  <2>3. n \in 0..Len(wire)
    <3>1. Len(wire) \in Nat BY <2>2 DEF Wire
    <3> QED BY <3>1
  <2>4. /\ socket \o SubSeq(wire, 1, n) \in Wire /\ Rest(wire, n) \in Wire
        /\ (socket \o SubSeq(wire, 1, n)) \o Rest(wire, n) = socket \o wire
    BY <2>2, <2>3, PieceAndRest
  <2> QED BY <2>1, <2>2, <2>4, AuthenticatingKeeps
<1>2. CASE MoreArrives
  <2>1. /\ signedIn = "in" /\ socket' = socket \o wire /\ wire' = << >>
        /\ stream' = stream /\ blockSize' = blockSize /\ signedIn' = signedIn
    BY <1>2 DEF MoreArrives
  <2>2. socket' \in Wire /\ wire' \in Wire /\ socket' \o wire' = socket \o wire
    <3>1. socket \o wire \in Wire BY Joined DEF SignInv
    <3>2. << >> \in Wire /\ (socket \o wire) \o << >> = socket \o wire
      BY <3>1, ConcatEmptySeq DEF Wire
    <3> QED BY <2>1, <3>1, <3>2
  <2> QED BY <2>1, <2>2 DEF SignInv
<1>3. CASE Disconnected
  <2>1. << >> \in Wire BY DEF Wire
  <2> QED BY <1>3, <2>1, SmallWords DEF Disconnected, SignInv
<1>4. CASE UNCHANGED signInVars BY <1>4 DEF signInVars, SignInv
<1> QED BY <1>1, <1>2, <1>3, <1>4 DEF SignInNext

\* Whether a client is signed in, and what its Simulator then reads, is decided by what the
\* client sent and not by the pieces in which that arrived (UserAuthenticator).
THEOREM SignedInAsTheySent == ASSUME ShortStreams PROVE SignInSpec => []SignedInAsSent
<1>1. SignInv => SignedInAsSent BY DEF SignInv, SignedInAsSent, Right
<1> QED BY <1>1, SignInitially, SignInKeeps, PTL DEF SignInSpec

(***************************************************************************)
(* Seventh: each reply that a pinger counts measures a ping of its own.    *)
(***************************************************************************)

-----------------------------------------------------------------------------
(* The stamps of a pinger's packets, in the order of the packets. *)

Stamps(s) == s \in Seq({s[k] : k \in DOMAIN s})

\* One more time stamp leaves the earlier ones in their places.
LEMMA StampAppended ==
  ASSUME NEW s, Stamps(s), NEW c
  PROVE  /\ Stamps(Append(s, c)) /\ Len(s) \in Nat /\ Len(Append(s, c)) = Len(s) + 1
         /\ DOMAIN s = 1..Len(s) /\ DOMAIN Append(s, c) = 1..Len(s) + 1
         /\ \A k \in 1..Len(s) : Append(s, c)[k] = s[k]
         /\ Append(s, c)[Len(s) + 1] = c
<1> DEFINE R == {s[k] : k \in DOMAIN s}
           S == R \cup {c}
           t == Append(s, c)
<1>1. s \in Seq(R) BY DEF Stamps
<1> HIDE DEF R
<1>2. s \in Seq(S) /\ Len(s) \in Nat /\ DOMAIN s = 1..Len(s) BY <1>1
<1>3. /\ t \in Seq(S) /\ Len(t) = Len(s) + 1 /\ DOMAIN t = 1..Len(s) + 1
      /\ \A k \in 1..Len(s) : t[k] = s[k]
      /\ t[Len(s) + 1] = c
  BY <1>2
<1>4. S \subseteq {t[k] : k \in DOMAIN t}
  <2>1. ASSUME NEW x \in R PROVE \E k \in DOMAIN t : t[k] = x
    <3>1. PICK k \in DOMAIN s : s[k] = x BY DEF R
    <3>2. k \in 1..Len(s) /\ k \in 1..Len(s) + 1 BY <1>2
    <3> QED BY <1>3, <3>1, <3>2
  <2>2. Len(s) + 1 \in DOMAIN t BY <1>2, <1>3
  <2> QED BY <1>3, <2>1, <2>2
<1> HIDE DEF t
<1>5. t \in Seq({t[k] : k \in DOMAIN t})
  <2> DEFINE U == {t[k] : k \in DOMAIN t}
  <2>1. S \subseteq U BY <1>4
  <2> HIDE DEF U, S
  <2>2. t \in Seq(U) BY <1>3, <2>1
  <2> QED BY <2>2 DEF U
<1> QED BY <1>2, <1>3, <1>5 DEF Stamps, t

\* Sequence numbers wrap the same way one by one as all at once.
LEMMA WrapsOn == ASSUME NEW n \in Nat PROVE Wrapped(Wrapped(n) + 1) = Wrapped(n + 1)
BY DEF Wrapped

-----------------------------------------------------------------------------
(* What is on its way. *)

\* The k-th ping of p, wherever the proxy has sent it
Icmp(p, k, type, w) ==
  [proto |-> "icmp", type |-> type, src |-> w[1], dst |-> w[2], id |-> Identifier[p],
   seq |-> Wrapped(k), at |-> sentAt[p][k]]
UdpOf(p, k, w, sport, dport) ==
  [proto |-> "udp", src |-> w[1], dst |-> w[2], sport |-> sport, dport |-> dport,
   seq |-> Wrapped(k), at |-> sentAt[p][k]]

There(p) == <<OwnAddress[p], Target[p]>>
Back(p) == <<Target[p], OwnAddress[p]>>

RequestWays(p) ==
  {There(p)} \cup {w \in {<<Proxy.out, Proxy.second>>} : OwnAddress[p] = Proxy.first}
             \cup {w \in {<<Proxy.in, Proxy.first>>} : OwnAddress[p] = Proxy.second}
ReplyWays(p) ==
  {Back(p)} \cup {w \in {<<Proxy.second, Proxy.out>>, <<Proxy.in, Proxy.first>>} : OwnAddress[p] = Proxy.first}
            \cup {w \in {<<Proxy.first, Proxy.in>>, <<Proxy.out, Proxy.second>>} : OwnAddress[p] = Proxy.second}

OnItsWay(p, k, m) ==
  IF p \in Udp
  THEN \/ m = UdpOf(p, k, There(p), Identifier[p], EchoPort)
       \/ m = UdpOf(p, k, Back(p), EchoPort, Identifier[p])
  ELSE \/ \E w \in RequestWays(p) : m = Icmp(p, k, "echo", w)
       \/ \E w \in ReplyWays(p) : m = Icmp(p, k, "echo-reply", w)

\* The template of a pinger is a copy of its last ping.
Template(p) ==
  LET n == Len(sentAt[p])
  IN IF n = 0 THEN {} ELSE {[seq |-> Wrapped(n), at |-> sentAt[p][n]]}

PingInv ==
  /\ sentAt = [p \in Plugin |-> sentAt[p]] /\ \A p \in Plugin : Stamps(sentAt[p])
  /\ template = [p \in Plugin |-> Template(p)]
  /\ \A m \in net : \E p \in Plugin : \E k \in DOMAIN sentAt[p] : OnItsWay(p, k, m)
  /\ PingsMeasured /\ \A r \in measured : r.pinger \in Plugin

\* The pingers start within their invariant.
LEMMA PingStarts == ASSUME PingInit PROVE PingInv
<1>1. Stamps(<< >>) /\ Len(<< >>) = 0 BY DEF Stamps
<1>2. \A p \in Plugin : sentAt[p] = << >> BY DEF PingInit
<1>3. \A p \in Plugin : Template(p) = {} BY <1>1, <1>2 DEF Template
<1>4. template = [p \in Plugin |-> Template(p)] BY <1>3 DEF PingInit
<1>5. sentAt = [p \in Plugin |-> sentAt[p]] BY DEF PingInit
<1> QED BY <1>1, <1>2, <1>4, <1>5 DEF PingInit, PingInv, PingsMeasured

\* A ping carries the number of the pings before it plus one, and the time.
LEMMA Stamping ==
  ASSUME PingInv, NEW p \in Plugin, NEW now
  PROVE  Stamped(p, now) = [seq |-> Wrapped(Len(sentAt[p]) + 1), at |-> now]
<1> DEFINE n == Len(sentAt[p])
<1>1. n \in Nat BY StampAppended DEF PingInv
<1>2. template[p] = Template(p) BY DEF PingInv
<1> HIDE DEF n
<1>3. CASE n = 0
  <2>1. LastSeq(p) = 0 BY <1>2, <1>3 DEF LastSeq, Template, n
  <2>2. LastSeq(p) + 1 = n + 1 BY <1>3, <2>1
  <2> QED BY <2>2 DEF Stamped, n
<1>4. CASE n # 0
  <2> DEFINE t == [seq |-> Wrapped(n), at |-> sentAt[p][n]]
  <2>1. template[p] = {t} BY <1>2, <1>4 DEF Template, n
  <2>2. (CHOOSE x \in template[p] : TRUE) = t
    <3>1. \E x : x \in template[p] BY <2>1
    <3>2. (CHOOSE x \in template[p] : TRUE) \in template[p] BY <3>1
    <3> QED BY <2>1, <3>2
  <2>3. LastSeq(p) = Wrapped(n) BY <2>1, <2>2 DEF LastSeq
  <2>4. Wrapped(LastSeq(p) + 1) = Wrapped(n + 1) BY <1>1, <2>3, WrapsOn
  <2> QED BY <2>4 DEF Stamped, n
<1> QED BY <1>3, <1>4

\* Sending pings keeps the pingers' invariant.
LEMMA PingsSent ==
  ASSUME PingInv, NEW T \in SUBSET Plugin, NEW now, SendPings(T, now), measured' = measured
  PROVE  PingInv'
<1> DEFINE new == [p \in Pinging(T) |-> Stamped(p, now)]
           ping(p) == IF p \in Udp THEN UdpPacket(p, new[p]) ELSE EchoRequest(p, new[p])
<1>1. Pinging(T) \subseteq Plugin /\ DOMAIN new = Pinging(T) BY DEF Pinging
<1>2. /\ template' = [p \in Plugin |-> IF p \in Pinging(T) THEN {new[p]} ELSE template[p]]
      /\ net' = net \cup {ping(p) : p \in Pinging(T)}
      /\ sentAt' = [p \in Plugin |-> IF p \in Pinging(T) THEN Append(sentAt[p], now) ELSE sentAt[p]]
  BY <1>1 DEF SendPings
<1>3. ASSUME NEW p \in Plugin
      PROVE  /\ Len(sentAt[p]) \in Nat /\ DOMAIN sentAt[p] = 1..Len(sentAt[p])
             /\ p \in Pinging(T) =>
                  /\ sentAt'[p] = Append(sentAt[p], now) /\ Stamps(sentAt'[p])
                  /\ Len(sentAt'[p]) = Len(sentAt[p]) + 1 /\ DOMAIN sentAt'[p] = 1..Len(sentAt[p]) + 1
                  /\ \A k \in 1..Len(sentAt[p]) : sentAt'[p][k] = sentAt[p][k]
                  /\ sentAt'[p][Len(sentAt[p]) + 1] = now
                  /\ new[p] = [seq |-> Wrapped(Len(sentAt[p]) + 1), at |-> now]
             /\ p \notin Pinging(T) => sentAt'[p] = sentAt[p]
  <2>1. Stamps(sentAt[p]) BY DEF PingInv
  <2>2. Stamped(p, now) = [seq |-> Wrapped(Len(sentAt[p]) + 1), at |-> now] BY Stamping
  <2>3. Len(sentAt[p]) \in Nat /\ DOMAIN sentAt[p] = 1..Len(sentAt[p]) BY <2>1, StampAppended
  <2>4. CASE p \in Pinging(T)
    <3>1. sentAt'[p] = Append(sentAt[p], now) /\ new[p] = Stamped(p, now) BY <1>2, <2>4
    <3> HIDE DEF new
    <3> QED BY <2>1, <2>2, <2>3, <2>4, <3>1, StampAppended
  <2>5. CASE p \notin Pinging(T) BY <1>2, <2>3, <2>5
  <2> QED BY <2>4, <2>5
<1> HIDE DEF new
\* No stamp is changed.
<1>4. ASSUME NEW p \in Plugin, NEW k \in DOMAIN sentAt[p]
      PROVE  k \in DOMAIN sentAt'[p] /\ sentAt'[p][k] = sentAt[p][k]
  <2>1. k \in 1..Len(sentAt[p]) + 1 BY <1>3
  <2> QED BY <1>3, <2>1
<1>5. \A p \in Plugin : Stamps(sentAt'[p]) BY <1>3 DEF PingInv
<1>6. template' = [p \in Plugin |-> Template(p)']
  <2>1. ASSUME NEW p \in Plugin PROVE (IF p \in Pinging(T) THEN {new[p]} ELSE template[p]) = Template(p)'
    <3>1. CASE p \in Pinging(T)
      <4>0. Len(sentAt[p]) \in Nat /\ Len(sentAt'[p]) = Len(sentAt[p]) + 1 BY <1>3, <3>1
      <4>1. Len(sentAt'[p]) # 0 BY <4>0
      <4>2. new[p] = [seq |-> Wrapped(Len(sentAt'[p])), at |-> sentAt'[p][Len(sentAt'[p])]] BY <1>3, <3>1
      <4> QED BY <3>1, <4>1, <4>2 DEF Template
    <3>2. CASE p \notin Pinging(T)
      <4>1. template[p] = Template(p) BY DEF PingInv
      <4> QED BY <1>3, <3>2, <4>1 DEF Template
    <3> QED BY <3>1, <3>2
  <2> QED BY <1>2, <2>1
<1>7. ASSUME NEW m \in net' PROVE \E p \in Plugin : \E k \in DOMAIN sentAt'[p] : OnItsWay(p, k, m)'
  <2>1. CASE m \in net
    <3>1. PICK p \in Plugin : \E k \in DOMAIN sentAt[p] : OnItsWay(p, k, m) BY <2>1 DEF PingInv
    <3>2. PICK k \in DOMAIN sentAt[p] : OnItsWay(p, k, m) BY <3>1
    <3>3. k \in DOMAIN sentAt'[p] /\ sentAt'[p][k] = sentAt[p][k] BY <1>4
    <3>4. OnItsWay(p, k, m)' BY <3>2, <3>3 DEF OnItsWay, Icmp, UdpOf
    <3> QED BY <3>3, <3>4
  <2>2. CASE m \notin net
    <3>1. PICK p \in Pinging(T) : m = ping(p) BY <1>2, <2>2
    <3>k. PICK k : k = Len(sentAt[p]) + 1 OBVIOUS
    <3>0. p \in Plugin BY <1>1
    <3>1a. /\ Len(sentAt[p]) \in Nat /\ DOMAIN sentAt'[p] = 1..Len(sentAt[p]) + 1
           /\ sentAt'[p][k] = now /\ new[p] = [seq |-> Wrapped(k), at |-> now]
      BY <1>3, <3>0, <3>k
    <3>2. p \in Plugin /\ k \in DOMAIN sentAt'[p] /\ sentAt'[p][k] = now /\ new[p] = [seq |-> Wrapped(k), at |-> now]
      BY <3>0, <3>1a, <3>k
    <3>3. new[p].seq = Wrapped(k) /\ new[p].at = sentAt'[p][k] BY <3>2
    <3>4. CASE p \in Udp
      <4>1. m = UdpOf(p, k, There(p), Identifier[p], EchoPort)'
        <5>1. m = UdpPacket(p, new[p]) BY <3>1, <3>4
        <5> QED BY <3>3, <5>1 DEF UdpPacket, UdpOf, There
      <4>2. OnItsWay(p, k, m)' BY <3>4, <4>1 DEF OnItsWay
      <4> QED BY <3>2, <4>2
    <3>5. CASE p \notin Udp
      <4>1. m = Icmp(p, k, "echo", There(p))'
        <5>1. m = EchoRequest(p, new[p]) BY <3>1, <3>5
        <5> QED BY <3>3, <5>1 DEF EchoRequest, Icmp, There
      <4>2. There(p) \in RequestWays(p) BY DEF RequestWays
      <4>3. OnItsWay(p, k, m)' BY <3>5, <4>1, <4>2 DEF OnItsWay
      <4> QED BY <3>2, <4>3
    <3> QED BY <3>4, <3>5
  <2> QED BY <2>1, <2>2
<1>8. PingsMeasured'
  <2> SUFFICES ASSUME NEW r \in measured
               PROVE  \E k \in DOMAIN sentAt'[r.pinger] :
                        r.seq = Wrapped(k) /\ r.rtt = r.now - sentAt'[r.pinger][k]
    BY DEF PingsMeasured
  <2>1. r.pinger \in Plugin BY DEF PingInv
  <2>2. PICK k \in DOMAIN sentAt[r.pinger] : r.seq = Wrapped(k) /\ r.rtt = r.now - sentAt[r.pinger][k]
    BY DEF PingInv, PingsMeasured
  <2>3. k \in DOMAIN sentAt'[r.pinger] /\ sentAt'[r.pinger][k] = sentAt[r.pinger][k] BY <1>4, <2>1
  <2> QED BY <2>2, <2>3
<1>9. sentAt' = [p \in Plugin |-> sentAt'[p]] BY <1>2
<1> QED BY <1>5, <1>6, <1>7, <1>8, <1>9 DEF PingInv

\* The ways that a request takes, or a reply, are closed under the proxy,
Ways(p, type) == IF type = "echo" THEN RequestWays(p) ELSE ReplyWays(p)

\* What comes to the proxy by one side goes on by the other.
LEMMA ProxiedWay ==
  ASSUME PingersApart, NEW p \in Plugin, NEW type, NEW w \in Ways(p, type),
         w[2] \in {Proxy.in, Proxy.out}, w[1] \in {Proxy.first, Proxy.second}
  PROVE  /\ w[1] = Proxy.first => <<Proxy.out, Proxy.second>> \in Ways(p, type)
         /\ w[1] # Proxy.first => <<Proxy.in, Proxy.first>> \in Ways(p, type)
<1>1. /\ Proxy.first \notin {Proxy.in, Proxy.out} /\ Proxy.second \notin {Proxy.in, Proxy.out}
      /\ OwnAddress[p] \notin {Proxy.in, Proxy.out}
  BY DEF PingersApart
<1>2. CASE type = "echo"
  <2>1. w \in RequestWays(p) BY <1>2 DEF Ways
  <2>2. w = There(p) BY <1>1, <2>1 DEF RequestWays
  <2>3. w[1] = OwnAddress[p] BY <2>2 DEF There
  <2> QED BY <1>2, <2>3 DEF Ways, RequestWays
<1>3. CASE type # "echo"
  <2>1. w \in ReplyWays(p) BY <1>3 DEF Ways
  <2>2. w # Back(p) BY <1>1 DEF Back
  <2>3. \/ w = <<Proxy.second, Proxy.out>> /\ OwnAddress[p] = Proxy.first
        \/ w = <<Proxy.first, Proxy.in>> /\ OwnAddress[p] = Proxy.second
    BY <1>1, <2>1, <2>2 DEF ReplyWays

  <2>4. w[1] # Proxy.first => OwnAddress[p] = Proxy.first BY <2>3
  <2>5. w[1] = Proxy.first => OwnAddress[p] = Proxy.second BY <2>3
  <2> QED BY <1>3, <2>4, <2>5 DEF Ways, ReplyWays
<1> QED BY <1>2, <1>3

\* and the way back is one that replies take.
LEMMA EchoedWay ==
  ASSUME NEW p \in Plugin, NEW w \in RequestWays(p)
  PROVE  <<w[2], w[1]>> \in ReplyWays(p)
BY DEF RequestWays, ReplyWays, There, Back

\* So whatever a node makes of a ping is still that ping.
LEMMA AnsweredOnItsWay ==
  ASSUME PingersApart, NEW p \in Plugin, NEW k, NEW m, OnItsWay(p, k, m), NEW a \in Responds(m)
  PROVE  OnItsWay(p, k, a)
<1>1. CASE p \in Udp
  <2>1. m.proto = "udp" BY <1>1 DEF OnItsWay, UdpOf
  <2>2. m.proto # "icmp" /\ ~IsEcho(m) BY <2>1 DEF IsEcho
  <2>3. a = UdpReply(m) BY <2>2 DEF Responds
  <2>4. CASE m = UdpOf(p, k, There(p), Identifier[p], EchoPort)
    <3>1. a = UdpOf(p, k, Back(p), EchoPort, Identifier[p])
      BY <2>3, <2>4 DEF UdpReply, UdpOf, There, Back
    <3> QED BY <1>1, <3>1 DEF OnItsWay
  <2>5. CASE m = UdpOf(p, k, Back(p), EchoPort, Identifier[p])
    <3>1. a = UdpOf(p, k, There(p), Identifier[p], EchoPort)
      BY <2>3, <2>5 DEF UdpReply, UdpOf, There, Back
    <3> QED BY <1>1, <3>1 DEF OnItsWay
  <2> QED BY <1>1, <2>4, <2>5 DEF OnItsWay
<1>2. CASE p \notin Udp
  <2>1. PICK type \in {"echo", "echo-reply"} : \E w \in Ways(p, type) : m = Icmp(p, k, type, w)
    BY <1>2 DEF OnItsWay, Ways
  <2>2. PICK w \in Ways(p, type) : m = Icmp(p, k, type, w) BY <2>1
  <2>3. m.proto = "icmp" /\ m.type = type /\ m.src = w[1] /\ m.dst = w[2] BY <2>2 DEF Icmp
  <2>4. \A v \in Ways(p, type) : OnItsWay(p, k, Icmp(p, k, type, v)) BY <1>2 DEF OnItsWay, Ways
  <2>5. CASE m.dst \in {Proxy.in, Proxy.out}
    <3>1. m.src \in {Proxy.first, Proxy.second} /\ a = Proxied(m)
      <4>1. Responds(m) = IF m.proto = "icmp" /\ m.src \in {Proxy.first, Proxy.second} THEN {Proxied(m)} ELSE {}
        BY <2>5 DEF Responds
      <4> QED BY <4>1
    <3>2. CASE m.src = Proxy.first
      <4>1. <<Proxy.out, Proxy.second>> \in Ways(p, type) BY <2>2, <2>3, <2>5, <3>1, <3>2, ProxiedWay
      <4>2. a = Icmp(p, k, type, <<Proxy.out, Proxy.second>>) BY <2>2, <3>1, <3>2 DEF Proxied, Icmp
      <4> QED BY <2>4, <4>1, <4>2
    <3>3. CASE m.src # Proxy.first
      <4>1. <<Proxy.in, Proxy.first>> \in Ways(p, type) BY <2>2, <2>3, <2>5, <3>1, <3>3, ProxiedWay
      <4>2. a = Icmp(p, k, type, <<Proxy.in, Proxy.first>>) BY <2>2, <3>1, <3>3 DEF Proxied, Icmp
      <4> QED BY <2>4, <4>1, <4>2
    <3> QED BY <3>2, <3>3
  <2>6. CASE m.dst \notin {Proxy.in, Proxy.out}
    <3>1. IsEcho(m) /\ a = EchoReply(m) BY <2>3, <2>6 DEF Responds
    <3>2. type = "echo" BY <2>3, <3>1 DEF IsEcho
    <3>3. w \in RequestWays(p) BY <2>2, <3>2 DEF Ways
    <3>4. <<w[2], w[1]>> \in ReplyWays(p) BY <3>3, EchoedWay
    <3>5. a = Icmp(p, k, "echo-reply", <<w[2], w[1]>>) BY <2>2, <3>1 DEF EchoReply, Icmp
    <3> QED BY <1>2, <3>4, <3>5 DEF OnItsWay
  <2> QED BY <2>5, <2>6
<1> QED BY <1>1, <1>2

\* A packet that a pinger counts is a ping of its own.
LEMMA CountedIsOwn ==
  ASSUME PingersApart, NEW p \in Plugin, NEW q \in Plugin, NEW k, NEW m, OnItsWay(p, k, m),
         m.dst = OwnAddress[q], Counts(q, m)
  PROVE  p = q /\ m.seq = Wrapped(k) /\ m.at = sentAt[p][k]
<1>1. m.seq = Wrapped(k) /\ m.at = sentAt[p][k] /\ m.proto = IF p \in Udp THEN "udp" ELSE "icmp"
  BY DEF OnItsWay, Icmp, UdpOf
<1>2. p \in Udp <=> q \in Udp BY <1>1 DEF Counts
<1>3. OwnAddress[p] = OwnAddress[q] /\ Identifier[p] = Identifier[q]
  <2>1. CASE p \in Udp
    <3>1. m.dport = Identifier[q] /\ Identifier[q] # EchoPort BY <1>2, <2>1 DEF Counts, PingersApart
    <3>2. m = UdpOf(p, k, Back(p), EchoPort, Identifier[p])
      BY <2>1, <3>1 DEF OnItsWay, UdpOf
    <3> QED BY <3>1, <3>2 DEF UdpOf, Back
  <2>2. CASE p \notin Udp
    <3>1. m.type = "echo-reply" /\ m.id = Identifier[q] BY <1>2, <2>2 DEF Counts
    <3>2. PICK w \in ReplyWays(p) : m = Icmp(p, k, "echo-reply", w) BY <2>2, <3>1 DEF OnItsWay, Icmp
    <3>3. m.id = Identifier[p] /\ w[2] = OwnAddress[q] BY <3>2 DEF Icmp
    <3>4. OwnAddress[q] \notin {Proxy.in, Proxy.out} BY DEF PingersApart
    <3>5. w[2] = OwnAddress[p] BY <3>3, <3>4 DEF ReplyWays, Back
    <3> QED BY <3>1, <3>3, <3>5
  <2> QED BY <2>1, <2>2
<1> QED BY <1>1, <1>2, <1>3 DEF PingersApart

\* A step that leaves pings and stamps alone keeps the pingers' invariant.
LEMMA PingsUntouched ==
  ASSUME PingInv, UNCHANGED <<template, net, sentAt, measured>>
  PROVE  PingInv'
BY DEF PingInv, PingsMeasured, Template, OnItsWay, Icmp, UdpOf

\* Every step keeps the pingers' invariant.
LEMMA PingKeeps ==
  ASSUME PingersApart, PingInv, [PingNext]_<<schedulerVars, ticksVars, pingVars>>
  PROVE  PingInv'
<1>1. CASE DispatchPings
  <2>1. CASE fault' BY <1>1, <2>1, PingsUntouched DEF DispatchPings
  <2>2. CASE ~fault'
    <3>1. SendPings(Ticked, clock') /\ measured' = measured BY <1>1, <2>2 DEF DispatchPings
    <3>2. Ticked \subseteq Plugin BY DEF Ticked
    <3> QED BY <3>1, <3>2, PingsSent
  <2> QED BY <2>1, <2>2
<1>2. CASE Answered
  <2>1. PICK m \in net : net' = net \cup Responds(m) BY <1>2 DEF Answered
  <2>2. UNCHANGED <<template, sentAt, measured>> BY <1>2 DEF Answered
  <2>3. \A p, k, a : OnItsWay(p, k, a)' <=> OnItsWay(p, k, a) BY <2>2 DEF OnItsWay, Icmp, UdpOf
  <2>4. PICK p \in Plugin : \E k \in DOMAIN sentAt[p] : OnItsWay(p, k, m) BY DEF PingInv
  <2>5. PICK k \in DOMAIN sentAt[p] : OnItsWay(p, k, m) BY <2>4
  <2>6. \A a \in Responds(m) : OnItsWay(p, k, a) BY <2>5, AnsweredOnItsWay
  <2>7. ASSUME NEW a \in net' PROVE \E q \in Plugin : \E j \in DOMAIN sentAt[q] : OnItsWay(q, j, a)
    <3>1. CASE a \in net BY <3>1 DEF PingInv
    <3>2. CASE a \in Responds(m) BY <2>5, <2>6, <3>2
    <3> QED BY <2>1, <3>1, <3>2
  <2>8. ASSUME NEW a \in net' PROVE \E q \in Plugin : \E j \in DOMAIN sentAt'[q] : OnItsWay(q, j, a)'
    BY <2>2, <2>3, <2>7
  <2> QED BY <2>2, <2>8 DEF PingInv, PingsMeasured, Template
<1>3. CASE ReplyArrives
  <2>1. PICK q \in Plugin, m \in net :
          /\ m.dst = OwnAddress[q] /\ Counts(q, m)
          /\ measured' = measured \cup {[pinger |-> q, seq |-> m.seq, now |-> clock, rtt |-> clock - m.at]}
    BY <1>3 DEF ReplyArrives
  <2>2. UNCHANGED <<template, net, sentAt>> BY <1>3 DEF ReplyArrives
  <2>3. PICK p \in Plugin : \E k \in DOMAIN sentAt[p] : OnItsWay(p, k, m) BY DEF PingInv
  <2>4. PICK k \in DOMAIN sentAt[p] : OnItsWay(p, k, m) BY <2>3
  <2>5. p = q /\ m.seq = Wrapped(k) /\ m.at = sentAt[p][k] BY <2>1, <2>4, CountedIsOwn
  <2> DEFINE r == [pinger |-> q, seq |-> m.seq, now |-> clock, rtt |-> clock - m.at]
  <2>6. /\ r.pinger = q /\ r.seq = Wrapped(k) /\ r.rtt = r.now - sentAt[r.pinger][k]
        /\ k \in DOMAIN sentAt[r.pinger]
    BY <2>4, <2>5
  <2>7. measured' = measured \cup {r} BY <2>1
  <2> HIDE DEF r
  <2>8. \A s \in measured' : s.pinger \in Plugin BY <2>6, <2>7 DEF PingInv
  <2>9. PingsMeasured'
    <3> SUFFICES ASSUME NEW s \in measured'
                 PROVE  \E j \in DOMAIN sentAt[s.pinger] :
                          s.seq = Wrapped(j) /\ s.rtt = s.now - sentAt[s.pinger][j]
      BY <2>2 DEF PingsMeasured
    <3>1. CASE s = r BY <2>6, <3>1
    <3>2. CASE s \in measured BY <3>2 DEF PingInv, PingsMeasured
    <3> QED BY <2>7, <3>1, <3>2
  <2> QED BY <2>2, <2>8, <2>9 DEF PingInv, Template, OnItsWay, Icmp, UdpOf
<1>4. CASE Tick /\ UNCHANGED <<ticksVars, pingVars>> BY <1>4, PingsUntouched DEF pingVars
<1>5. CASE UNCHANGED <<schedulerVars, ticksVars, pingVars>> BY <1>5, PingsUntouched DEF pingVars
<1> QED BY <1>1, <1>2, <1>3, <1>4, <1>5 DEF PingNext

\* Whatever overtakes, doubles or gets lost: each reply that a pinger counts measures a ping
\* of its own, from the moment that ping was sent, although all pings are changed copies of
\* one packet (Pinger, UDPPinger, OneToOneIcmpProxy).
THEOREM PingsAreMeasured == ASSUME PingersApart PROVE PingSpec => []PingsMeasured
<1>1. PingInv => PingsMeasured BY DEF PingInv
<1> QED BY <1>1, PingStarts, PingKeeps, PTL DEF PingSpec
=============================================================================
