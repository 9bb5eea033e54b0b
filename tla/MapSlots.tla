------------------------------ MODULE MapSlots ------------------------------
(***************************************************************************)
(* The slots of Simulator that create, join, delete and leave maps, with   *)
(* MapFactory::createOrRetrieveMap, MapFactory::releaseNode,               *)
(* MapThread::quit and MapThread::finalize, which they call.               *)
(***************************************************************************)
EXTENDS SimulatorSlots

Instantiating(s) == Running(s) /\ pc[s] = "instantiate" /\ ~shuttingDown[s]
Wanted(s) == request[s].map

\* Fault: createOrRetrieveMap does not lock the factory's mutex.
RequestingUnlocked(s, kinds) ==
  /\ Instantiating(s) /\ comm[s] = "InstantiatingOrRetrievingMap"
  /\ request[s].kind \in kinds

\* createOrRetrieveMap got the factory's mutex for a request of this kind.
Requesting(s, kinds) ==
  /\ Instantiating(s) /\ comm[s] = "InstantiatingOrRetrievingMap"
  /\ factoryLock = Nobody /\ request[s].kind \in kinds

\* instantiateOrRetrieveMap is called in another state.
InstantiateStale(s) ==
  /\ Instantiating(s) /\ comm[s] # "InstantiatingOrRetrievingMap"
  /\ comm' = [comm EXCEPT ![s] = "Disconnected"]
  /\ Return(s)
  /\ UNCHANGED <<posted, shuttingDown, alive, gone, request, map, node, pending,
                 mayBlock, factoryLock, nodeLock, mapLock, nodeVars, wireVars,
                 threadVars, panic>>

\* The factory's mutex is taken: try again later.
InstantiateBusy(s) ==
  /\ Instantiating(s) /\ comm[s] = "InstantiatingOrRetrievingMap"
  /\ factoryLock # Nobody
  /\ Post(s, {"instantiate"})
  /\ Return(s)
  /\ UNCHANGED <<simVars, pending, mayBlock, factoryLock, nodeLock, mapLock, nodeVars,
                 wireVars, threadVars, panic>>

\* Any of the four exceptions, and the end of the slot: the socket is closed.
\* Authorization, the host list and the resource table may refuse every request.
Refused(s) ==
  /\ Requesting(s, Kinds)
  /\ comm' = [comm EXCEPT ![s] = "Disconnected"]
  /\ Return(s)
  /\ UNCHANGED <<posted, shuttingDown, alive, gone, request, map, node, pending,
                 mayBlock, factoryLock, nodeLock, mapLock, nodeVars, wireVars,
                 threadVars, panic>>

\* instantiateMap starts the map thread and waits for its initialization.
CreateMap(s) ==
  /\ Requesting(s, {"create"}) /\ Wanted(s) \notin managed
  /\ factoryLock' = Main
  /\ mpc' = [mpc EXCEPT ![Wanted(s)] = "setup"]
  /\ Goto(s, "initTry")
  /\ UNCHANGED <<posted, simVars, pending, simLock, mayBlock, nodeLock, mapLock,
                 nodeVars, wireVars, mnode, callFrom, callCmd, panic>>

\* The map runs: it is pushed on the creator's stack and selected.
MapCreated(s) ==
  /\ Running(s) /\ pc[s] = "initTry" /\ mpc[Wanted(s)] \notin {"setup", "failed"}
  /\ managed' = managed \cup {Wanted(s)}
  /\ listeners' = [listeners EXCEPT ![Wanted(s)] = @ \cup {s}]
  /\ map' = [map EXCEPT ![s] = Wanted(s)]
  /\ comm' = [comm EXCEPT ![s] = "MapSelected"]
  /\ factoryLock' = Nobody
  /\ Return(s)
  /\ UNCHANGED <<posted, shuttingDown, alive, gone, request, node, pending, mayBlock,
                 nodeLock, mapLock, nodeVars, observers, toNotify, quitting,
                 threadVars, panic>>

\* setup () failed: map->wait (), delete map, MapNotFoundException.
MapNotCreated(s) ==
  /\ Running(s) /\ pc[s] = "initTry" /\ mpc[Wanted(s)] = "failed"
  /\ mpc' = [mpc EXCEPT ![Wanted(s)] = "none"]
  /\ comm' = [comm EXCEPT ![s] = "Disconnected"]
  /\ factoryLock' = Nobody
  /\ Return(s)
  /\ UNCHANGED <<posted, shuttingDown, alive, gone, request, map, node, pending,
                 mayBlock, nodeLock, mapLock, nodeVars, wireVars, mnode, callFrom,
                 callCmd, panic>>

\* Fault: aboutToFinish of a retrieved map is not connected.
JoinMapUnconnected(s) ==
  /\ Requesting(s, {"connect", "observe"}) /\ Wanted(s) \in managed
  /\ map' = [map EXCEPT ![s] = Wanted(s)]
  /\ comm' = [comm EXCEPT ![s] = IF request[s].kind = "connect"
                                  THEN "MapSelected" ELSE "ObservingChangeEvents"]
  /\ Return(s)
  /\ UNCHANGED <<posted, shuttingDown, alive, gone, request, node, pending, mayBlock,
                 factoryLock, nodeLock, mapLock, nodeVars, wireVars, threadVars, panic>>

\* retrieveMap finds the map; the simulator selects it or observes it.
JoinMap(s) ==
  /\ Requesting(s, {"connect", "observe"}) /\ Wanted(s) \in managed
  /\ listeners' = [listeners EXCEPT ![Wanted(s)] = @ \cup {s}]
  /\ map' = [map EXCEPT ![s] = Wanted(s)]
  /\ IF request[s].kind = "connect"
       THEN /\ comm' = [comm EXCEPT ![s] = "MapSelected"]
            /\ UNCHANGED observers
       ELSE /\ comm' = [comm EXCEPT ![s] = "ObservingChangeEvents"]
            /\ observers' = [observers EXCEPT ![Wanted(s)] = @ \cup {s}]
  /\ Return(s)
  /\ UNCHANGED <<posted, shuttingDown, alive, gone, request, node, pending, mayBlock,
                 factoryLock, nodeLock, mapLock, nodeVars, managed, toNotify, quitting,
                 threadVars, panic>>

-----------------------------------------------------------------------------
(* needNewMap = -1: releaseResource, MapThread::quit, MapThread::finalize.  *)

DeleteMap(s) ==
  /\ Requesting(s, {"delete"}) /\ Wanted(s) \in managed
  /\ factoryLock' = Main
  /\ managed' = managed \ {Wanted(s)}
  /\ Goto(s, "quitLock")
  /\ UNCHANGED <<posted, simVars, pending, simLock, mayBlock, nodeLock, mapLock,
                 nodeVars, listeners, observers, toNotify, quitting, threadVars, panic>>

\* lock->lock () and the start of emit aboutToFinish ().
QuitLock(s) ==
  /\ Running(s) /\ pc[s] = "quitLock" /\ mapLock[Wanted(s)] = Nobody
  /\ mapLock' = [mapLock EXCEPT ![Wanted(s)] = Main]
  /\ toNotify' = [toNotify EXCEPT ![Wanted(s)] = listeners[Wanted(s)]]
  /\ Goto(s, "quitEmit")
  /\ UNCHANGED <<posted, simVars, pending, simLock, mayBlock, factoryLock, nodeLock,
                 nodeVars, managed, listeners, observers, quitting, threadVars, panic>>

Emitting(s, t) == Running(s) /\ pc[s] = "quitEmit" /\ t \in toNotify[Wanted(s)]
Notified(s, t) == toNotify' = [toNotify EXCEPT ![Wanted(s)] = @ \ {t}]

\* mapSimulationThreadIsAboutToFinish cannot lock the mutex: qFatal.
AboutToFinishPanics(s, t) ==
  /\ Emitting(s, t) /\ simLock[t] # Nobody
  /\ panic' = TRUE
  /\ Notified(s, t)
  /\ UNCHANGED <<mainVars, posted, simVars, pending, lockVars, nodeVars, managed,
                 listeners, observers, quitting, threadVars>>

AboutToFinishNoNode(s, t) ==
  /\ Emitting(s, t) /\ simLock[t] = Nobody /\ node[t] = Nobody
  /\ Notified(s, t)
  /\ comm' = [comm EXCEPT ![t] = "Disconnected"]
  /\ map' = [map EXCEPT ![t] = Nobody]
  /\ UNCHANGED <<mainVars, posted, shuttingDown, alive, gone, request, node, pending,
                 lockVars, nodeVars, managed, listeners, observers, quitting,
                 threadVars, panic>>

\* Fault: mayBlock is kept while the slot waits for the node's mutex.
AboutToFinishBlocking(s, t) ==
  /\ Emitting(s, t) /\ simLock[t] = Nobody /\ node[t] # Nobody
  /\ Notified(s, t)
  /\ simLock' = [simLock EXCEPT ![t] = Main]
  /\ stack' = <<t>> \o stack
  /\ pc' = [pc EXCEPT ![t] = "aboutTry"]
  /\ UNCHANGED <<posted, simVars, pending, mayBlock, factoryLock, nodeLock, mapLock,
                 nodeVars, managed, listeners, observers, quitting, threadVars, panic>>

\* The slot gives mayBlock away and calls node->releaseNode ().
AboutToFinish(s, t) ==
  /\ Emitting(s, t) /\ simLock[t] = Nobody /\ node[t] # Nobody
  /\ Notified(s, t)
  /\ simLock' = [simLock EXCEPT ![t] = Main]
  /\ mayBlock' = [mayBlock EXCEPT ![t] = Nobody]
  /\ stack' = <<t>> \o stack
  /\ pc' = [pc EXCEPT ![t] = "aboutTry"]
  /\ UNCHANGED <<posted, simVars, pending, factoryLock, nodeLock, mapLock, nodeVars,
                 managed, listeners, observers, quitting, threadVars, panic>>

\* Fault: releaseNode leaves frameReceived connected.
FreeNodeConnected(n) ==
  /\ nodeLock[n] = Nobody
  /\ available' = [available EXCEPT ![n] = TRUE]
  /\ UNCHANGED receiver

\* SimulatedNode::releaseNode once it has the node's mutex.
FreeNode(n) ==
  /\ nodeLock[n] = Nobody
  /\ available' = [available EXCEPT ![n] = TRUE]
  /\ receiver' = [receiver EXCEPT ![n] = Nobody]

AboutReleased(t) ==
  /\ Running(t) /\ pc[t] = "aboutTry"
  /\ FreeNode(node[t])
  /\ Goto(t, "aboutRelock")
  /\ UNCHANGED <<posted, simVars, pending, lockVars, wireVars, threadVars, panic>>

AboutDone(t) ==
  /\ Running(t) /\ pc[t] = "aboutRelock" /\ mayBlock[t] = Nobody
  /\ mayBlock' = [mayBlock EXCEPT ![t] = Main]
  /\ node' = [node EXCEPT ![t] = Nobody]
  /\ map' = [map EXCEPT ![t] = Nobody]
  /\ comm' = [comm EXCEPT ![t] = "Disconnected"]
  /\ Return(t)
  /\ UNCHANGED <<posted, shuttingDown, alive, gone, request, pending, factoryLock,
                 nodeLock, mapLock, nodeVars, wireVars, threadVars, panic>>

\* The emission is over: lock->unlock (), QThread::quit () and the end of
\* createOrRetrieveMap.
QuitDone(s) ==
  /\ Running(s) /\ pc[s] = "quitEmit" /\ toNotify[Wanted(s)] = {}
  /\ mapLock' = [mapLock EXCEPT ![Wanted(s)] = Nobody]
  /\ quitting' = quitting \cup {Wanted(s)}
  /\ factoryLock' = Nobody
  /\ Goto(s, "quitWait")
  /\ UNCHANGED <<posted, simVars, pending, simLock, mayBlock, nodeLock, nodeVars,
                 managed, listeners, observers, toNotify, threadVars, panic>>

\* MapThread::finalize: wait () for the thread, forget the map and delete it.
MapDeleted(s) ==
  /\ Running(s) /\ pc[s] = "quitWait"
  /\ mpc[Wanted(s)] = "finished" /\ factoryLock = Nobody
  /\ mpc' = [mpc EXCEPT ![Wanted(s)] = "none"]
  /\ quitting' = quitting \ {Wanted(s)}
  /\ listeners' = [listeners EXCEPT ![Wanted(s)] = {}]
  /\ observers' = [observers EXCEPT ![Wanted(s)] = {}]
  /\ map' = [map EXCEPT ![s] = Nobody]
  /\ comm' = [comm EXCEPT ![s] = "Disconnected"]
  /\ Return(s)
  /\ UNCHANGED <<posted, shuttingDown, alive, gone, request, node, pending, mayBlock,
                 factoryLock, nodeLock, mapLock, nodeVars, managed, toNotify, mnode,
                 callFrom, callCmd, panic>>

-----------------------------------------------------------------------------
(* finalize: the client has left.                                           *)

Finalizing(s) == Running(s) /\ pc[s] = "finalize"
ShutDown(s) == shuttingDown' = [shuttingDown EXCEPT ![s] = TRUE]

FinalizeNoNode(s) ==
  /\ Finalizing(s) /\ node[s] = Nobody
  /\ ShutDown(s)
  /\ map' = [map EXCEPT ![s] = Nobody]
  /\ Post(s, {"delete"})
  /\ Return(s)
  /\ UNCHANGED <<comm, alive, gone, request, node, pending, mayBlock, factoryLock,
                 nodeLock, mapLock, nodeVars, wireVars, threadVars, panic>>

\* MapFactory::releaseNode got the factory's mutex and calls node->releaseNode ().
FinalizeRelease(s) ==
  /\ Finalizing(s) /\ node[s] # Nobody /\ factoryLock = Nobody
  /\ ShutDown(s)
  /\ mayBlock' = [mayBlock EXCEPT ![s] = Nobody]
  /\ factoryLock' = Main
  /\ Goto(s, "finTry")
  /\ UNCHANGED <<posted, comm, alive, gone, request, map, node, pending, simLock,
                 nodeLock, mapLock, nodeVars, wireVars, threadVars, panic>>

\* MapFactory::releaseNode returned false.
FinalizeBusy(s) ==
  /\ Finalizing(s) /\ node[s] # Nobody /\ factoryLock # Nobody
  /\ ShutDown(s)
  /\ mayBlock' = [mayBlock EXCEPT ![s] = Nobody]
  /\ Goto(s, "finFailed")
  /\ UNCHANGED <<posted, comm, alive, gone, request, map, node, pending, simLock,
                 factoryLock, nodeLock, mapLock, nodeVars, wireVars, threadVars, panic>>

FinalizeLater(s) ==
  /\ Running(s) /\ pc[s] = "finFailed" /\ mayBlock[s] = Nobody
  /\ mayBlock' = [mayBlock EXCEPT ![s] = Main]
  /\ listeners' = [listeners EXCEPT ![map[s]] = @ \cup {s}]
  /\ Post(s, {"finalize"})
  /\ Return(s)
  /\ UNCHANGED <<simVars, pending, factoryLock, nodeLock, mapLock, nodeVars, managed,
                 observers, toNotify, quitting, threadVars, panic>>

FinalizeReleased(s) ==
  /\ Running(s) /\ pc[s] = "finTry"
  /\ FreeNode(node[s])
  /\ factoryLock' = Nobody
  /\ Goto(s, "finRelock")
  /\ UNCHANGED <<posted, simVars, pending, simLock, mayBlock, nodeLock, mapLock,
                 wireVars, threadVars, panic>>

FinalizeDone(s) ==
  /\ Running(s) /\ pc[s] = "finRelock" /\ mayBlock[s] = Nobody
  /\ mayBlock' = [mayBlock EXCEPT ![s] = Main]
  /\ node' = [node EXCEPT ![s] = Nobody]
  /\ map' = [map EXCEPT ![s] = Nobody]
  /\ Post(s, {"delete"})
  /\ Return(s)
  /\ UNCHANGED <<comm, shuttingDown, alive, gone, request, pending, factoryLock,
                 nodeLock, mapLock, nodeVars, wireVars, threadVars, panic>>

\* The deferred deletion and ~Simulator; its connections go with it.
Delete(s) ==
  /\ ProcessingEvents /\ alive[s] /\ "delete" \in posted[s]
  /\ alive' = [alive EXCEPT ![s] = FALSE]
  /\ posted' = [posted EXCEPT ![s] = {}]
  /\ mayBlock' = [mayBlock EXCEPT ![s] = Nobody]
  /\ listeners' = [m \in MapThread |-> listeners[m] \ {s}]
  /\ observers' = [m \in MapThread |-> observers[m] \ {s}]
  /\ toNotify' = [m \in MapThread |-> toNotify[m] \ {s}]
  /\ UNCHANGED <<mainVars, comm, shuttingDown, gone, request, map, node, pending,
                 simLock, factoryLock, nodeLock, mapLock, nodeVars, managed, quitting,
                 threadVars, panic>>
=============================================================================
