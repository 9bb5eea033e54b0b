---------------------------- MODULE MapInstances ----------------------------
(***************************************************************************)
(* The instances of map files (map/MapFactory, map/MapInstantiator): which *)
(* user may create, join or delete one, the allocation table that bounds   *)
(* the instances of a file and numbers them, and the stack of instances    *)
(* that each creator has, of which only the top can be joined or deleted.  *)
(***************************************************************************)
EXTENDS Integers, Sequences, SequencesExt, FiniteSets, FiniteSetsExt

CONSTANTS
  User, Host, MapFile,
  GroupOf,        \* the group of each user (usermanagement/User)
  Root,           \* by file: [named, version, count, authorization] of its root tag
  MaxInstances    \* bound: instances created

\* What an authorization tag says is optional: a set with one member or none.  Its fields
\* are resumableBy, maxIpu, groups (of an instantiator tag), hosts (of a
\* connection-restriction tag) and others (attributes and tags with other names).
ASSUME AuthorizationAssumption ==
  \A f \in MapFile :
    /\ \A a, b \in Root[f].authorization : a = b
    /\ \A a \in Root[f].authorization : a.maxIpu \subseteq Int /\ \A m, n \in a.maxIpu : m = n

VARIABLES
  mapAllocationTable,  \* the files that have a MapInstantiator
  allocationTable,     \* by file: the handles that are taken
  maps,                \* by file and creator: the stack of instances, its top last
  instance,            \* all instances so far, by number: [file, creator, index]
  settingUp,           \* the instance the factory waits for, with its mutex locked: at most one
  ending,              \* instances told to quit whose threads have not ended
  down                 \* MapFactory::destroy has begun

instanceVars ==
  <<mapAllocationTable, allocationTable, maps, instance, settingUp, ending, down>>

InstancesInit ==
  /\ mapAllocationTable = {}
  /\ allocationTable = [f \in MapFile |-> {}]
  /\ maps = [f \in MapFile |-> [u \in User |-> <<>>]]
  /\ instance = <<>> /\ settingUp = {} /\ ending = {} /\ down = FALSE

\* MapInstantiator::initializeAuthorizationConfiguration
ParametersGood(a) ==
  a.resumableBy \subseteq {"instantiator", "anyone"} /\ \A n \in a.maxIpu : n > 0
GroupsGood(a) == \A groups \in a.groups : groups # {}
HostsGood(a) == \A hosts \in a.hosts : hosts # {} /\ "null" \notin hosts
AuthorizationGood(a) == ParametersGood(a) /\ GroupsGood(a) /\ HostsGood(a) /\ a.others = {}

Versions == {"3.0", "3.1", "3.2", "3.3", "3.4"}
FileGood(f) ==
  /\ Root[f].named /\ Root[f].version \in Versions /\ Root[f].count > 0
  /\ \A a \in Root[f].authorization : AuthorizationGood(a)

\* The values of one part of the authorization, if the file has that part.
Said(f, part) == UNION {a[part] : a \in Root[f].authorization}
MaxIpu(f) == IF Said(f, "maxIpu") = {} THEN 1 ELSE Max(Said(f, "maxIpu"))

HostAuthorized(f, host) == \A hosts \in Said(f, "hosts") : host \in hosts
MayInstantiate(f, user) == \A groups \in Said(f, "groups") : GroupOf[user] \in groups
MayResume(f, user, creator) == Said(f, "resumableBy") = {"anyone"} \/ user = creator

\* Fault: the limit is off by one.
OneMore(f, user) == Len(maps[f][user]) <= MaxIpu(f)
CanInstantiateANewMap(f, user) == Len(maps[f][user]) < MaxIpu(f)

\* acquireFirstFreeResourceHandle: those below it are taken.
FirstFreeHandle(f) ==
  {i \in (0 .. Root[f].count - 1) \ allocationTable[f] : 0 .. i - 1 \subseteq allocationTable[f]}

\* createOrRetrieveMap has the factory's mutex, and the file is good or known.
Managing(f) ==
  /\ settingUp = {} /\ ~down /\ FileGood(f)
  /\ mapAllocationTable' = mapAllocationTable \cup {f}

\* instantiateMap, up to the wait for the new thread
Instantiate(f, user, host) ==
  /\ Managing(f) /\ Len(instance) < MaxInstances
  /\ MayInstantiate(f, user) /\ HostAuthorized(f, host) /\ CanInstantiateANewMap(f, user)
  /\ \E index \in FirstFreeHandle(f) :
       /\ allocationTable' = [allocationTable EXCEPT ![f] = @ \cup {index}]
       /\ instance' = Append(instance, [file |-> f, creator |-> user, index |-> index])
  /\ settingUp' = {Len(instance) + 1}
  /\ UNCHANGED <<maps, ending, down>>

\* The map could be read: it goes on top of its creator's stack.
SetUp ==
  /\ \E m \in settingUp :
       maps' = [maps EXCEPT ![instance[m].file][instance[m].creator] = Append(@, m)]
  /\ settingUp' = {}
  /\ UNCHANGED <<mapAllocationTable, allocationTable, instance, ending, down>>

HandleFreed(m) == [allocationTable EXCEPT ![instance[m].file] = @ \ {instance[m].index}]

SetUpFailed ==
  /\ \E m \in settingUp : allocationTable' = HandleFreed(m)
  /\ settingUp' = {}
  /\ UNCHANGED <<mapAllocationTable, maps, instance, ending, down>>

\* retrieveMap: the top of the creator's stack
Retrievable(f, user, creator, host) ==
  MayResume(f, user, creator) /\ HostAuthorized(f, host) /\ maps[f][creator] # <<>>

Retrieve(f, user, creator, host) ==
  /\ Managing(f) /\ Retrievable(f, user, creator, host)
  /\ UNCHANGED <<allocationTable, maps, instance, settingUp, ending, down>>

\* A request that an exception ends: a bad file is not kept, and read again next time.
Refuse(f, user, creator, host) ==
  /\ \/ Managing(f) /\ ~Retrievable(f, user, creator, host)
     \/ settingUp = {} /\ ~down /\ ~FileGood(f) /\ UNCHANGED mapAllocationTable
  /\ UNCHANGED <<allocationTable, maps, instance, settingUp, ending, down>>

\* releaseResource: only the top of the stack gives its handle back.
ReleaseResource(m) ==
  LET f == instance[m].file  c == instance[m].creator
  IN IF maps[f][c] # <<>> /\ Last(maps[f][c]) = m
     THEN /\ maps' = [maps EXCEPT ![f][c] = Front(@)]
          /\ allocationTable' = HandleFreed(m)
     ELSE UNCHANGED <<maps, allocationTable>>

\* finalizeMap: the handle is free before the thread has ended.
Delete(f, user, creator, host) ==
  /\ Managing(f) /\ Retrievable(f, user, creator, host)
  /\ LET m == Last(maps[f][creator])
     IN ReleaseResource(m) /\ ending' = ending \cup {m}
  /\ UNCHANGED <<instance, settingUp, down>>

\* MapThread::finalize
Ended ==
  /\ \E m \in ending : ending' = ending \ {m}
  /\ UNCHANGED <<mapAllocationTable, allocationTable, maps, instance, settingUp, down>>

Live == UNION {Range(maps[f][u]) : f \in MapFile, u \in User}

\* destroy: every map is finalized, the oldest first (Map::finalize, freeResources).
Destroy ==
  /\ settingUp = {} /\ ending = {} /\ ~down
  /\ down' = TRUE
  /\ UNCHANGED <<mapAllocationTable, allocationTable, maps, instance, settingUp, ending>>

PrivilegedFinalize ==
  /\ down
  /\ \E m \in Live \ ending :
       /\ \A n \in Live \ ending : m <= n
       /\ ReleaseResource(m) /\ ending' = ending \cup {m}
  /\ UNCHANGED <<mapAllocationTable, instance, settingUp, down>>

InstancesNext ==
  \/ \E f \in MapFile, user \in User, host \in Host :
       \/ Instantiate(f, user, host)
       \/ \E creator \in User :
            \/ Retrieve(f, user, creator, host)
            \/ Refuse(f, user, creator, host)
            \/ Delete(f, user, creator, host)
  \/ SetUp \/ SetUpFailed \/ (Ended /\ ~down)
  \/ Destroy \/ PrivilegedFinalize

InstancesSpec == InstancesInit /\ [][InstancesNext]_instanceVars
-----------------------------------------------------------------------------
Handles(f, ms) == {m \in ms : instance[m].file = f}

\* The table, the stacks and the limits agree: every taken handle belongs to exactly one
\* map, which is on the stack of its creator or about to be, and no creator has more maps
\* than maxIpu; also after setups that failed and deletions by other users.
AllocationAgrees ==
  \A f \in MapFile :
    LET owners == Handles(f, Live \cup settingUp)
    IN /\ allocationTable[f] = {instance[m].index : m \in owners}
       /\ Cardinality(allocationTable[f]) = Cardinality(owners)
       /\ \A u \in User : \A m \in Range(maps[f][u]) :
            instance[m].creator = u /\ Len(maps[f][u]) <= MaxIpu(f)
=============================================================================
