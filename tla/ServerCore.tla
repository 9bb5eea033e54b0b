----------------------------- MODULE ServerCore -----------------------------
(***************************************************************************)
(* The Partov server: the main thread with all simulators, the map factory *)
(* and the map threads.                                                    *)
(***************************************************************************)
EXTENDS MapSlots, MapThreadSteps

\* What the client does to its socket.
ClientNext(s) == SocketCloses(s) \/ DataArrives(s)

\* What every slot may do.
CommonNext(s) == ReturnShuttingDown(s) \/ Poll(s) \/ EventsProcessed(s)

ReadNext(s) ==
  \/ ReadNothing(s)    \/ ReadDisconnect(s)   \/ ReadMapRequest(s)
  \/ ReadNodeRequest(s) \/ AcquireNode(s)     \/ NodeNotAvailable(s)
  \/ StartSimulation(s) \/ EmitCommand(s)     \/ CommandDone(s)
  \/ SendPending(s)

InstantiateNext(s) ==
  \/ InstantiateStale(s) \/ InstantiateBusy(s) \/ Refused(s)
  \/ CreateMap(s) \/ MapCreated(s) \/ MapNotCreated(s) \/ JoinMap(s)

QuitNext(s) ==
  \/ DeleteMap(s) \/ QuitLock(s) \/ QuitDone(s) \/ MapDeleted(s)
  \/ \E t \in Simulator : \/ AboutToFinishPanics(s, t)
                          \/ AboutToFinishNoNode(s, t)
                          \/ AboutToFinish(s, t)
  \/ AboutReleased(s) \/ AboutDone(s)

FinalizeNext(s) ==
  \/ FinalizeNoNode(s) \/ FinalizeRelease(s) \/ FinalizeBusy(s)
  \/ FinalizeLater(s) \/ FinalizeReleased(s) \/ FinalizeDone(s)

\* The events the main thread may handle.
EventNext(s) ==
  \/ Run(s) \/ DropFinalize(s) \/ Delete(s)
  \/ \E slot \in Slots : PostedSlot(s, slot)

\* The main thread goes on with the slot it runs.
SlotNext(s) ==
  \/ CommonNext(s) \/ ReadNext(s) \/ InstantiateNext(s) \/ QuitNext(s)
  \/ FinalizeNext(s)

\* The process was aborted by qFatal, or every client has left.
Stopped ==
  /\ panic \/ \A s \in Simulator : ~alive[s]
  /\ UNCHANGED vars

Next ==
  \/ \E s \in Simulator : ClientNext(s) \/ EventNext(s) \/ SlotNext(s)
  \/ \E m \in MapThread : MapThreadNext(m)
  \/ Stopped

Spec == Init /\ [][Next]_vars
-----------------------------------------------------------------------------
(* Safety.                                                                  *)

\* The main thread may read or write the fields of s in a slot of s.
MainTouches(s) ==
  \/ alive[s] /\ "run" \in posted[s]
  \/ pc[s] \notin LentPlaces \cup {"idle"}

\* The thread of m is about to append to pendingMessage of s.
MapTouches(m, s) ==
  \/ mpc[m] = "deliver" /\ Target(m) = s
  \/ mpc[m] = "invalid" /\ callFrom[m] = s
  \/ mpc[m] = "observe" /\ s \in toNotify[m]

\* Although slots nest, a simulator has at most one active slot, and the main
\* thread has the simulator's mutex exactly as long as that slot is active.
OneSlotEach ==
  /\ \A s \in Simulator :
       /\ simLock[s] = Main <=> pc[s] # "idle"
       /\ pc[s] # "idle" <=> \E i \in 1..Len(stack) : stack[i] = s
  /\ \A i, j \in 1..Len(stack) : stack[i] = stack[j] => i = j

\* communicationState, shuttingDown and pendingMessage have no lock of their own:
\* a map thread that holds one of mutex and mayBlock (frameReceived), or none at
\* all (notifyUserAboutInvalidInterfaceIndex), never meets the main thread in
\* the same simulator.
NoRaceWithMain ==
  \A m \in MapThread, s \in Simulator : MapTouches(m, s) => ~MainTouches(s)

\* The client of s owns its node: acquireNode has returned and releaseNode has
\* not been entered yet.
Owns(s, n) == node[s] = n /\ pc[s] \notin {"acquireTry", "acquirePoll",
                                          "aboutRelock", "finRelock"}

\* A node is taken exactly while one simulator has it and listens to its frames; a
\* simulator that waits to release a node has it (the pre-condition in
\* SimulatedNode.h).
NodeOwnedByOne ==
  \A n \in Node :
    /\ available[n] <=> (receiver[n] = Nobody)
    /\ \A s \in Simulator : Owns(s, n) <=> (receiver[n] = s)

\* The owner of a node has not been deleted and the node's map still runs: frames
\* and commands that pass between them never reach a deleted object.
OwnerAndMapLive ==
  \A n \in Node :
    receiver[n] # Nobody =>
      /\ alive[receiver[n]] /\ map[receiver[n]] = hostOf[n]
      /\ mpc[hostOf[n]] \notin {"none", "setup", "failed", "finished"}

MainWaits ==
  \/ ProcessingEvents
  \/ stack # <<>> /\ pc[Head(stack)] \in {"emit", "walk", "aboutRelock", "finRelock",
                                        "finFailed", "quitLock", "quitWait"}

\* frameReceived spins until it gets mutex or mayBlock.  While the main thread
\* waits for anything, one of the two is free for it, so the spinning map thread
\* and the main thread never wait for each other.
SpinnerCanEnter ==
  \A m \in MapThread :
    mpc[m] \in {"tryMutex", "tryMayBlock"} /\ MainWaits =>
      \/ simLock[Target(m)] # Main
      \/ mayBlock[Target(m)] # Main

\* The map pointer of a simulator is not used after finalize () deleted the map,
\* nor when it is NULL, and a blocking call never goes to a thread whose event
\* loop has ended.
MapPointerValid ==
  /\ \A s \in Simulator :
       /\ map[s] # Nobody => mpc[map[s]] \notin {"none", "setup", "failed"}
       /\ ~shuttingDown[s] /\ comm[s] \in {"MapSelected", "ConnectedToAMapNode",
                                         "SimulatingNode", "ObservingChangeEvents"}
            => map[s] # Nobody
  /\ \A m \in MapThread :
       callFrom[m] # Nobody => mpc[m] \notin {"none", "setup", "failed", "finished"}

\* Neither frames and commands nor the answers of the factory reach what was deleted,
\* in whichever order clients leave, maps end and other clients delete them.
PointersValid == OwnerAndMapLive /\ MapPointerValid

\* A message which a map thread left in pendingMessage is written to the socket
\* later: a call of sendPendingMessage is in the event queue or will be posted
\* by the simulator the main thread is blocked in.
NoMessageForgotten ==
  \A s \in Simulator :
    pending[s] /\ alive[s] /\ ~shuttingDown[s] =>
      \/ "sendPending" \in posted[s]
      \/ pc[s] = "sendPending"
      \/ \E t \in Simulator : pc[t] = "emit"

\* The qFatal of nodeIPAddressChanged and nodeNetmaskChanged is not reachable: no
\* observer's mutex is held when a change is announced.
ObserverUnlocked ==
  \A m \in MapThread : mpc[m] = "observe" =>
    \A o \in toNotify[m] : simLock[o] = Nobody

FactoryPlaces == {"initTry", "initPoll", "quitLock", "quitEmit", "finTry", "finPoll"}

\* The factory's mutex has at most one holder among the nested slots.
OneFactoryHolder ==
  /\ factoryLock = Main <=> \E s \in Simulator : pc[s] \in FactoryPlaces
  /\ \A s, t \in Simulator :
       pc[s] \in FactoryPlaces /\ pc[t] \in FactoryPlaces => s = t

\* No QMutex::lock () of the main thread waits for a lock which that thread itself
\* holds in a slot further down its stack.
NoSelfDeadlock ==
  /\ OneFactoryHolder
  /\ \A s \in Simulator :
       /\ pc[s] = "quitLock" => mapLock[Wanted(s)] # Main
       /\ pc[s] = "quitWait" => factoryLock # Main \/ Head(stack) # s
       /\ pc[s] \in LentPlaces => mayBlock[s] # Main

\* The qFatal of mapSimulationThreadIsAboutToFinish is not reachable: its message
\* (Simulator.cpp:852) takes for granted that the mutex is free.
AboutToFinishUnlocked == ~panic

\* NonBlockingLocker.h:77-84 asks not to wait, processing events, while the caller
\* has a lock that those events may look after.  A map thread which the main
\* thread waits for never looks after the map's lock while the main thread has it.
NoLockAcrossEvents ==
  \A m \in MapThread :
    mpc[m] = "changeLock" /\ callFrom[m] # Nobody => mapLock[m] # Main

-----------------------------------------------------------------------------
(* The server implements the node leases.                                   *)

\* The clients that watch a map.
Watching == {s \in Simulator : comm[s] = "ObservingChangeEvents"}

Lease == INSTANCE NodeLease WITH
  lessee <- receiver, watching <- Watching, mail <- pending

\* Every step of the server is a step of the leases or leaves them alone: a node
\* goes from one client to another only through releaseNode, and frames, errors
\* and change events reach pendingMessage only for a client that has a node or
\* observes a map.
ImplementsLease == Lease!Spec
=============================================================================
