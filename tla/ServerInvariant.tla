-------------------------- MODULE ServerInvariant --------------------------
(***************************************************************************)
(* The inductive invariant of ServerCore: what the code relies on between  *)
(* two steps, one named part per reason.                                   *)
(***************************************************************************)
EXTENDS ServerCore

\* Only a waiting NonBlockingLocker and the emission of aboutToFinish start a slot
\* on top of another.
NestedPlaces ==
  \A i \in 2..Len(stack) : pc[stack[i]] \in PollPlaces \cup {"quitEmit"}

\* mayBlock is the main thread's from the constructor to the destructor, except
\* while a slot has given it away.
MainHolds ==
  \A s \in Simulator : mayBlock[s] = Main <=> alive[s] /\ pc[s] \notin LentPlaces

\* A simulator that is deleted, or will be, has no node, and its slots return.
Leaving ==
  \A s \in Simulator :
    /\ ~alive[s] => pc[s] = "idle"
    /\ pc[s] \in {"finTry", "finPoll", "finRelock", "finFailed"} => shuttingDown[s]
    /\ ~alive[s] \/ "delete" \in posted[s] =>
         /\ shuttingDown[s] /\ node[s] = Nobody
         /\ pc[s] \in {"idle", "readData", "instantiate", "sendPending"}

\* run () comes before the first request.
NotStarted ==
  \A s \in Simulator :
    "run" \in posted[s] =>
      request[s] = Nobody /\ comm[s] \in {"NotSignedIn", "Disconnected"}

\* A slot is making the map it wants, or ending it.
MapPlaces == {"initTry", "initPoll", "quitLock", "quitEmit", "quitWait"}

\* The node pointer agrees with the dialogue and with the active slot.
NodePointer ==
  \A s \in Simulator :
    /\ comm[s] \in {"ConnectedToAMapNode", "SimulatingNode"} =>
         shuttingDown[s] \/ node[s] # Nobody
    /\ pc[s] \in MapPlaces => comm[s] = "InstantiatingOrRetrievingMap"
    /\ node[s] # Nobody =>
         \/ comm[s] \in {"ConnectedToAMapNode", "SimulatingNode", "Disconnected"}
         \/ pc[s] \in {"acquireTry", "acquirePoll"}
    /\ pc[s] \in {"acquireTry", "acquirePoll"} => comm[s] = "MapSelected"
    /\ pc[s] \in LentPlaces \cup {"acquireTry", "acquirePoll"} => node[s] # Nobody

\* A blocking call has a caller that waits for it.
Callers ==
  \A m \in MapThread :
    /\ callFrom[m] # Nobody =>
         pc[callFrom[m]] \in {"emit", "walk"} /\ hostOf[node[callFrom[m]]] = m
    /\ mpc[m] \in {"invalid", "changeLock", "observe"} => callFrom[m] # Nobody

\* A frame is handled under the lock of its node.
Handling ==
  \A m \in MapThread :
    mpc[m] \in {"accept", "tryMutex", "tryMayBlock", "deliver"} =>
      mnode[m] \in Node /\ nodeLock[mnode[m]] = m

\* A map thread has a simulator's mutex only inside that simulator's frameReceived,
\* which goes on only with mutex or mayBlock.
Delivering ==
  \A m \in MapThread, s \in Simulator :
    /\ simLock[s] = m => mpc[m] \in {"tryMayBlock", "deliver"} /\ Target(m) = s
    /\ mpc[m] = "deliver" /\ Target(m) = s => m \in {simLock[s], mayBlock[s]}

\* An observer never has a node and never waits.
Observers ==
  \A m \in MapThread : \A o \in observers[m] :
    /\ comm[o] \in {"ObservingChangeEvents", "Disconnected"}
    /\ request[o] # Nobody /\ node[o] = Nobody
    /\ pc[o] \in Slots \cup {"idle"}

\* Both emissions of a map are made under its lock.
Emissions ==
  /\ \A m \in MapThread :
       mpc[m] = "observe" => mapLock[m] = m /\ toNotify[m] \subseteq observers[m]
  /\ \A s \in Simulator :
       pc[s] = "quitEmit" => mapLock[Wanted(s)] = Main

\* A map thread exists while its map is managed or is being made or ended.
MapKnown ==
  \A m \in MapThread :
    mpc[m] # "none" =>
      \/ m \in managed
      \/ \E s \in Simulator : pc[s] \in MapPlaces /\ Wanted(s) = m

\* Every reachable state of the server satisfies all of these.
IInv ==
  /\ TypeOK        /\ OneSlotEach  /\ NestedPlaces    /\ MainHolds
  /\ Leaving       /\ NotStarted   /\ NodePointer     /\ NodeOwnedByOne
  /\ Callers       /\ Handling     /\ Delivering      /\ Observers
  /\ Emissions     /\ MapKnown     /\ OneFactoryHolder
=============================================================================
