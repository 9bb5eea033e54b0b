--------------------------- MODULE MapThreadSteps ---------------------------
(***************************************************************************)
(* What the thread of one map does: MapThread::run, the frame path of      *)
(* SimulatedNode with Simulator::frameReceived (a direct connection, so it *)
(* runs here and not on the main thread), and the slots of SimulatedNode   *)
(* that the main thread calls through BlockingQueuedConnections.           *)
(***************************************************************************)
EXTENDS ServerState

\* The simulator whose frameReceived the thread of m is going to run.
Target(m) == receiver[mnode[m]]

MoveTo(m, place) == mpc' = [mpc EXCEPT ![m] = place]

\* MapThread::run: map->setup () and cond->release ().
SetUp(m) ==
  /\ ~panic /\ mpc[m] = "setup"
  /\ \/ MoveTo(m, "loop")
     \/ MoveTo(m, "failed")
  /\ UNCHANGED <<mainVars, posted, simVars, pending, lockVars, nodeVars, wireVars,
                 mnode, callFrom, callCmd, panic>>

\* pluginEngineHandleFrame: an accepted frame locks the node.
FrameArrives(m, n) ==
  /\ ~panic /\ mpc[m] = "loop" /\ hostOf[n] = m
  /\ nodeLock[n] = Nobody
  /\ nodeLock' = [nodeLock EXCEPT ![n] = m]
  /\ mnode' = [mnode EXCEPT ![m] = n]
  /\ MoveTo(m, "accept")
  /\ UNCHANGED <<mainVars, posted, simVars, pending, simLock, mayBlock, factoryLock,
                 mapLock, nodeVars, wireVars, callFrom, callCmd, panic>>

\* The frame of an available node is not for a simulator.
NotForSimulator(m) ==
  /\ ~panic /\ mpc[m] = "accept" /\ available[mnode[m]]
  /\ nodeLock' = [nodeLock EXCEPT ![mnode[m]] = Nobody]
  /\ mnode' = [mnode EXCEPT ![m] = Nobody]
  /\ MoveTo(m, "loop")
  /\ UNCHANGED <<mainVars, posted, simVars, pending, simLock, mayBlock, factoryLock,
                 mapLock, nodeVars, wireVars, callFrom, callCmd, panic>>

\* emit frameReceived: enter the simulator's slot.
EmitFrameReceived(m) ==
  /\ ~panic /\ mpc[m] = "accept" /\ ~available[mnode[m]]
  /\ MoveTo(m, "tryMutex")
  /\ UNCHANGED <<mainVars, posted, simVars, pending, lockVars, nodeVars, wireVars,
                 mnode, callFrom, callCmd, panic>>

\* frameReceived: locker (mutex, false) or locker.relock (false).
TryMutex(m) ==
  /\ ~panic /\ mpc[m] = "tryMutex"
  /\ simLock' = IF simLock[Target(m)] = Nobody
                  THEN [simLock EXCEPT ![Target(m)] = m] ELSE simLock
  /\ MoveTo(m, "tryMayBlock")
  /\ UNCHANGED <<mainVars, posted, simVars, pending, mayBlock, factoryLock, nodeLock,
                 mapLock, nodeVars, wireVars, mnode, callFrom, callCmd, panic>>

\* Fault: frameReceived goes on after one round of failed attempts.
TryMayBlockOnce(m) ==
  /\ ~panic /\ mpc[m] = "tryMayBlock"
  /\ mayBlock' = IF mayBlock[Target(m)] = Nobody
                   THEN [mayBlock EXCEPT ![Target(m)] = m] ELSE mayBlock
  /\ MoveTo(m, "deliver")
  /\ UNCHANGED <<mainVars, posted, simVars, pending, simLock, factoryLock, nodeLock,
                 mapLock, nodeVars, wireVars, mnode, callFrom, callCmd, panic>>

\* mbLocker (mayBlock, false) or mbLocker.relock (false); spin when both failed.
TryMayBlock(m) ==
  /\ ~panic /\ mpc[m] = "tryMayBlock"
  /\ mayBlock' = IF mayBlock[Target(m)] = Nobody
                   THEN [mayBlock EXCEPT ![Target(m)] = m] ELSE mayBlock
  /\ MoveTo(m, IF m \in {simLock[Target(m)], mayBlock'[Target(m)]}
                 THEN "deliver" ELSE "tryMutex")
  /\ UNCHANGED <<mainVars, posted, simVars, pending, simLock, factoryLock, nodeLock,
                 mapLock, nodeVars, wireVars, mnode, callFrom, callCmd, panic>>

\* The rest of frameReceived, its lockers' destructors and that of the node's.
Deliver(m) ==
  /\ ~panic /\ mpc[m] = "deliver"
  /\ IF comm[Target(m)] = "SimulatingNode"
       THEN pending' = [pending EXCEPT ![Target(m)] = TRUE] /\ PostSendPending
       ELSE UNCHANGED <<pending, posted>>
  /\ mayBlock' = [mayBlock EXCEPT ![Target(m)] = IF @ = m THEN Nobody ELSE @]
  /\ simLock' = [simLock EXCEPT ![Target(m)] = IF @ = m THEN Nobody ELSE @]
  /\ nodeLock' = [nodeLock EXCEPT ![mnode[m]] = Nobody]
  /\ mnode' = [mnode EXCEPT ![m] = Nobody]
  /\ MoveTo(m, "loop")
  /\ UNCHANGED <<mainVars, simVars, factoryLock, mapLock, nodeVars, wireVars,
                 callFrom, callCmd, panic>>

-----------------------------------------------------------------------------
\* The blocking call is over: the main thread may go on.
Reply(m) ==
  /\ callFrom' = [callFrom EXCEPT ![m] = Nobody]
  /\ callCmd' = [callCmd EXCEPT ![m] = "sendFrame"]  \* no call: any value
  /\ MoveTo(m, "loop")

\* SimulatedNode::sendFrame on a valid interface, or Map::walk.
ServeSend(m) ==
  /\ ~panic /\ mpc[m] = "loop" /\ callFrom[m] # Nobody
  /\ callCmd[m] \in {"sendFrame", "walk"}
  /\ Reply(m)
  /\ UNCHANGED <<mainVars, posted, simVars, pending, lockVars, nodeVars, wireVars,
                 mnode, panic>>

\* An InvalidInterfaceIndexException is caught.
ServeInvalid(m) ==
  /\ ~panic /\ mpc[m] = "loop" /\ callFrom[m] # Nobody
  /\ callCmd[m] \in {"sendBadFrame", "changeBad"}
  /\ MoveTo(m, "invalid")
  /\ UNCHANGED <<mainVars, posted, simVars, pending, lockVars, nodeVars, wireVars,
                 mnode, callFrom, callCmd, panic>>

\* Simulator::notifyUserAboutInvalidInterfaceIndex takes no lock.
NotifyInvalid(m) ==
  /\ ~panic /\ mpc[m] = "invalid"
  /\ pending' = IF comm[callFrom[m]] = "SimulatingNode"
                  THEN [pending EXCEPT ![callFrom[m]] = TRUE] ELSE pending
  /\ Reply(m)
  /\ UNCHANGED <<mainVars, posted, simVars, lockVars, nodeVars, wireVars,
                 mnode, panic>>

\* Fault: the call is a Qt::QueuedConnection, so the main thread does not wait.
ServeChangeUnblocked(m) ==
  /\ ~panic /\ mpc[m] = "loop" /\ callFrom[m] # Nobody
  /\ callCmd[m] = "change"
  /\ callFrom' = [callFrom EXCEPT ![m] = Nobody]
  /\ MoveTo(m, "changeLock")
  /\ UNCHANGED <<mainVars, posted, simVars, pending, lockVars, nodeVars, wireVars,
                 mnode, callCmd, panic>>

\* changeIPAddress / changeNetmask changed the interface; the map's lock is next.
ServeChange(m) ==
  /\ ~panic /\ mpc[m] = "loop" /\ callFrom[m] # Nobody
  /\ callCmd[m] = "change"
  /\ MoveTo(m, "changeLock")
  /\ UNCHANGED <<mainVars, posted, simVars, pending, lockVars, nodeVars, wireVars,
                 mnode, callFrom, callCmd, panic>>

LockMapChanges(m) ==
  /\ ~panic /\ mpc[m] = "changeLock" /\ mapLock[m] = Nobody
  /\ mapLock' = [mapLock EXCEPT ![m] = m]
  /\ toNotify' = [toNotify EXCEPT ![m] = observers[m]]
  /\ MoveTo(m, "observe")
  /\ UNCHANGED <<mainVars, posted, simVars, pending, simLock, mayBlock, factoryLock,
                 nodeLock, nodeVars, managed, listeners, observers, quitting,
                 mnode, callFrom, callCmd, panic>>

\* Simulator::nodeIPAddressChanged / nodeNetmaskChanged of one observer.
NotifyObserver(m, o) ==
  /\ ~panic /\ mpc[m] = "observe" /\ o \in toNotify[m]
  /\ toNotify' = [toNotify EXCEPT ![m] = @ \ {o}]
  /\ panic' = (simLock[o] # Nobody)
  /\ pending' = IF simLock[o] = Nobody /\ ~shuttingDown[o]
                     /\ comm[o] = "ObservingChangeEvents"
                  THEN [pending EXCEPT ![o] = TRUE] ELSE pending
  /\ UNCHANGED <<mainVars, posted, simVars, lockVars, nodeVars, managed, listeners,
                 observers, quitting, threadVars>>

ChangeDone(m) ==
  /\ ~panic /\ mpc[m] = "observe" /\ toNotify[m] = {}
  /\ mapLock' = [mapLock EXCEPT ![m] = Nobody]
  /\ Reply(m)
  /\ UNCHANGED <<mainVars, posted, simVars, pending, simLock, mayBlock, factoryLock,
                 nodeLock, nodeVars, wireVars, mnode, panic>>

\* exec () returns and the thread ends.
LeaveLoop(m) ==
  /\ ~panic /\ mpc[m] = "loop" /\ m \in quitting
  /\ MoveTo(m, "finished")
  /\ UNCHANGED <<mainVars, posted, simVars, pending, lockVars, nodeVars, wireVars,
                 mnode, callFrom, callCmd, panic>>

MapThreadNext(m) ==
  \/ SetUp(m)
  \/ \E n \in Node : FrameArrives(m, n)
  \/ NotForSimulator(m)
  \/ EmitFrameReceived(m)
  \/ TryMutex(m)
  \/ TryMayBlock(m)
  \/ Deliver(m)
  \/ ServeSend(m)
  \/ ServeInvalid(m)
  \/ NotifyInvalid(m)
  \/ ServeChange(m)
  \/ LockMapChanges(m)
  \/ \E o \in Simulator : NotifyObserver(m, o)
  \/ ChangeDone(m)
  \/ LeaveLoop(m)
=============================================================================
