--------------------------- MODULE SimulatorSlots ---------------------------
(***************************************************************************)
(* The slots of Simulator that the main thread runs, together with the     *)
(* parts of MapFactory, MapInstantiator, MapThread and SimulatedNode they  *)
(* call.  A slot runs undisturbed by other slots up to its end or to a     *)
(* "poll" place; map threads interleave with it at every step.             *)
(***************************************************************************)
EXTENDS ServerState

\* disconnected () -> finished () -> a queued call of finalize ().
SocketCloses(s) ==
  /\ ~panic /\ alive[s] /\ ~gone[s]
  /\ gone' = [gone EXCEPT ![s] = TRUE]
  /\ Post(s, {"finalize"})
  /\ UNCHANGED <<mainVars, comm, shuttingDown, alive, request, map, node, pending,
                 lockVars, nodeVars, wireVars, threadVars, panic>>

\* Simulator::run, the only slot that does not lock the mutex.
Run(s) ==
  /\ ProcessingEvents /\ alive[s] /\ "run" \in posted[s]
  /\ posted' = [posted EXCEPT ![s] = @ \ {"run"}]
  /\ comm' = [comm EXCEPT ![s] = "JustSignedIn"]
  /\ UNCHANGED <<mainVars, shuttingDown, alive, gone, request, map, node, pending,
                 lockVars, nodeVars, wireVars, threadVars, panic>>

\* A slot starts.  When the mutex is taken it posts itself again and ends, which
\* changes nothing.
Enter(s, slot) ==
  /\ ProcessingEvents /\ alive[s]
  /\ slot = "finalize" => ~shuttingDown[s]
  /\ simLock[s] = Nobody
  /\ simLock' = [simLock EXCEPT ![s] = Main]
  /\ pc' = [pc EXCEPT ![s] = slot]
  /\ stack' = <<s>> \o stack
  /\ posted' = [posted EXCEPT ![s] = @ \ {slot}]
  /\ UNCHANGED <<simVars, pending, mayBlock, factoryLock, nodeLock, mapLock, nodeVars,
                 wireVars, threadVars, panic>>

\* The client may have sent data at any time; what it is the reading slot chooses.
DataArrives(s) == Enter(s, "readData")

PostedSlot(s, slot) == slot \in posted[s] /\ Enter(s, slot)

\* finalize () returns at once when shuttingDown is set.
DropFinalize(s) ==
  /\ ProcessingEvents /\ alive[s] /\ "finalize" \in posted[s] /\ shuttingDown[s]
  /\ posted' = [posted EXCEPT ![s] = @ \ {"finalize"}]
  /\ UNCHANGED <<mainVars, simVars, pending, lockVars, nodeVars, wireVars,
                 threadVars, panic>>

\* The other slots return when shuttingDown is set.
ReturnShuttingDown(s) ==
  /\ Running(s) /\ pc[s] \in Slots \ {"finalize"} /\ shuttingDown[s]
  /\ Return(s)
  /\ UNCHANGED <<posted, simVars, pending, mayBlock, factoryLock, nodeLock, mapLock,
                 nodeVars, wireVars, threadVars, panic>>

\* A waiting NonBlockingLocker: tryLock fails, or processEvents returns.
Poll(s) ==
  /\ Running(s)
  /\ \/ /\ pc[s] \in {"acquireTry", "aboutTry", "finTry"}
        /\ nodeLock[node[s]] # Nobody
     \/ pc[s] = "initTry" /\ mpc[request[s].map] = "setup"
  /\ Goto(s, PollOf(pc[s]))
  /\ UNCHANGED <<posted, simVars, pending, lockVars, nodeVars, wireVars,
                 threadVars, panic>>

EventsProcessed(s) ==
  /\ Running(s) /\ pc[s] \in PollPlaces
  /\ \E p \in TryPlaces : PollOf(p) = pc[s] /\ Goto(s, p)
  /\ UNCHANGED <<posted, simVars, pending, lockVars, nodeVars, wireVars,
                 threadVars, panic>>

\* sendPendingMessage writes pendingMessage on the socket and clears it.
SendPending(s) ==
  /\ Running(s) /\ pc[s] = "sendPending" /\ ~shuttingDown[s]
  /\ pending' = [pending EXCEPT ![s] = FALSE]
  /\ Return(s)
  /\ UNCHANGED <<posted, simVars, mayBlock, factoryLock, nodeLock, mapLock, nodeVars,
                 wireVars, threadVars, panic>>

-----------------------------------------------------------------------------
(* readData, by communicationState.                                        *)

Reading(s) == Running(s) /\ pc[s] = "readData" /\ ~shuttingDown[s]

\* Data is incomplete, or asks for information that only goes to the socket, or
\* is ignored because the state is DisconnectedState.
ReadNothing(s) ==
  /\ Reading(s)
  /\ comm[s] \notin {"NotSignedIn", "InstantiatingOrRetrievingMap"}
  /\ Return(s)
  /\ UNCHANGED <<posted, simVars, pending, mayBlock, factoryLock, nodeLock, mapLock,
                 nodeVars, wireVars, threadVars, panic>>

\* A malformed request, a DisconnectCommand, an unknown node name, or data in a
\* state that expects none.
ReadDisconnect(s) ==
  /\ Reading(s) /\ comm[s] # "Disconnected"
  /\ comm' = [comm EXCEPT ![s] = "Disconnected"]
  /\ Return(s)
  /\ UNCHANGED <<posted, shuttingDown, alive, gone, request, map, node, pending,
                 mayBlock, factoryLock, nodeLock, mapLock, nodeVars, wireVars,
                 threadVars, panic>>

\* Fault: the request is not stored for instantiateOrRetrieveMap.
ReadMapRequestUnstored(s) ==
  /\ Reading(s) /\ comm[s] = "JustSignedIn"
  /\ comm' = [comm EXCEPT ![s] = "InstantiatingOrRetrievingMap"]
  /\ Post(s, {"instantiate"})
  /\ Return(s)
  /\ UNCHANGED <<shuttingDown, alive, gone, request, map, node, pending, mayBlock,
                 factoryLock, nodeLock, mapLock, nodeVars, wireVars, threadVars, panic>>

ReadMapRequest(s) ==
  /\ Reading(s) /\ comm[s] = "JustSignedIn"
  /\ \E r \in Requests[s] : request' = [request EXCEPT ![s] = r]
  /\ comm' = [comm EXCEPT ![s] = "InstantiatingOrRetrievingMap"]
  /\ Post(s, {"instantiate"})
  /\ Return(s)
  /\ UNCHANGED <<shuttingDown, alive, gone, map, node, pending, mayBlock, factoryLock,
                 nodeLock, mapLock, nodeVars, wireVars, threadVars, panic>>

\* readNodeRequestData assigns node before acquireNode waits for the node's mutex.
ReadNodeRequest(s) ==
  /\ Reading(s) /\ comm[s] = "MapSelected"
  /\ \E n \in {k \in Node : hostOf[k] = map[s]} : node' = [node EXCEPT ![s] = n]
  /\ Goto(s, "acquireTry")
  /\ UNCHANGED <<posted, comm, shuttingDown, alive, gone, request, map, pending,
                 lockVars, nodeVars, wireVars, threadVars, panic>>

\* Fault: acquireNode does not look at available.
AcquireNodeUnchecked(s) ==
  /\ Running(s) /\ pc[s] = "acquireTry"
  /\ nodeLock[node[s]] = Nobody
  /\ available' = [available EXCEPT ![node[s]] = FALSE]
  /\ receiver' = [receiver EXCEPT ![node[s]] = s]
  /\ comm' = [comm EXCEPT ![s] = "ConnectedToAMapNode"]
  /\ Return(s)
  /\ UNCHANGED <<posted, shuttingDown, alive, gone, request, map, node, pending,
                 mayBlock, factoryLock, nodeLock, mapLock, wireVars, threadVars, panic>>

\* acquireNode has the node's mutex and the node is available.
AcquireNode(s) ==
  /\ Running(s) /\ pc[s] = "acquireTry"
  /\ nodeLock[node[s]] = Nobody /\ available[node[s]]
  /\ available' = [available EXCEPT ![node[s]] = FALSE]
  /\ receiver' = [receiver EXCEPT ![node[s]] = s]
  /\ comm' = [comm EXCEPT ![s] = "ConnectedToAMapNode"]
  /\ Return(s)
  /\ UNCHANGED <<posted, shuttingDown, alive, gone, request, map, node, pending,
                 mayBlock, factoryLock, nodeLock, mapLock, wireVars, threadVars, panic>>

\* Fault: the frames of a taken node are connected before availability is checked.
NodeNotAvailableConnected(s) ==
  /\ Running(s) /\ pc[s] = "acquireTry"
  /\ nodeLock[node[s]] = Nobody /\ ~available[node[s]]
  /\ receiver' = [receiver EXCEPT ![node[s]] = s]
  /\ node' = [node EXCEPT ![s] = Nobody]
  /\ comm' = [comm EXCEPT ![s] = "Disconnected"]
  /\ Return(s)
  /\ UNCHANGED <<posted, shuttingDown, alive, gone, request, map, pending, mayBlock,
                 factoryLock, nodeLock, mapLock, available, wireVars, threadVars, panic>>

NodeNotAvailable(s) ==
  /\ Running(s) /\ pc[s] = "acquireTry"
  /\ nodeLock[node[s]] = Nobody /\ ~available[node[s]]
  /\ node' = [node EXCEPT ![s] = Nobody]
  /\ comm' = [comm EXCEPT ![s] = "Disconnected"]
  /\ Return(s)
  /\ UNCHANGED <<posted, shuttingDown, alive, gone, request, map, pending, mayBlock,
                 factoryLock, nodeLock, mapLock, nodeVars, wireVars, threadVars, panic>>

StartSimulation(s) ==
  /\ Reading(s) /\ comm[s] = "ConnectedToAMapNode"
  /\ comm' = [comm EXCEPT ![s] = "SimulatingNode"]
  /\ Return(s)
  /\ UNCHANGED <<posted, shuttingDown, alive, gone, request, map, node, pending,
                 mayBlock, factoryLock, nodeLock, mapLock, nodeVars, wireVars,
                 threadVars, panic>>

\* A simulation command: mayBlock->unlock () and a blocking queued call.
EmitCommand(s) ==
  /\ Reading(s) /\ comm[s] = "SimulatingNode"
  /\ \E c \in Commands :
       /\ callCmd' = [callCmd EXCEPT ![hostOf[node[s]]] = c]
       /\ Goto(s, IF c = "walk" THEN "walk" ELSE "emit")
  /\ callFrom' = [callFrom EXCEPT ![hostOf[node[s]]] = s]
  /\ mayBlock' = [mayBlock EXCEPT ![s] = Nobody]
  /\ UNCHANGED <<posted, simVars, pending, simLock, factoryLock, nodeLock, mapLock,
                 nodeVars, wireVars, mpc, mnode, panic>>

\* Fault: processPendingMessages is not called after the command.
CommandDoneSilent(s) ==
  /\ Running(s) /\ pc[s] \in {"emit", "walk"}
  /\ callFrom[hostOf[node[s]]] # s /\ mayBlock[s] = Nobody
  /\ mayBlock' = [mayBlock EXCEPT ![s] = Main]
  /\ Return(s)
  /\ UNCHANGED <<posted, simVars, pending, factoryLock, nodeLock, mapLock, nodeVars,
                 wireVars, threadVars, panic>>

\* The map thread has replied; mayBlock->lock () waits for it to leave frameReceived.
CommandDone(s) ==
  /\ Running(s) /\ pc[s] \in {"emit", "walk"}
  /\ callFrom[hostOf[node[s]]] # s /\ mayBlock[s] = Nobody
  /\ mayBlock' = [mayBlock EXCEPT ![s] = Main]
  /\ IF pc[s] = "emit" THEN PostSendPending ELSE UNCHANGED posted
  /\ Return(s)
  /\ UNCHANGED <<simVars, pending, factoryLock, nodeLock, mapLock, nodeVars, wireVars,
                 threadVars, panic>>
=============================================================================
