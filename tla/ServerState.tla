---------------------------- MODULE ServerState ----------------------------
(***************************************************************************)
(* The state shared by the two kinds of threads of the Partov server:      *)
(*                                                                         *)
(*   - the main thread runs every Simulator (one per signed-in client).    *)
(*     A slot of a Simulator that has to wait for a QMutex or QSemaphore   *)
(*     calls QCoreApplication::processEvents and so starts other slots on  *)
(*     top of itself: the main thread is a stack of activations;           *)
(*   - one MapThread per map instance runs the nodes of that map.          *)
(*                                                                         *)
(* MapThreadSteps holds the steps of the map threads, SimulatorSlots those *)
(* of the main thread, ServerCore composes them.                           *)
(***************************************************************************)
EXTENDS Naturals, Sequences

CONSTANTS
  Simulator,   \* the clients' server-side proxies (server/Simulator)
  MapThread,   \* one per (map file, creator); a creator has one instance of a map
  Node,        \* the SimulatedNodes that clients may ask for
  hostOf,      \* hostOf[n]: the map thread in which node n lives
  Requests,    \* Requests[s]: the map requests client s may send
  Commands,    \* the simulation commands clients send
  Main,        \* the main thread, as the holder of a lock
  Nobody       \* no holder, no owner, no map

Kinds == {"create", "connect", "observe", "delete"}  \* needNewMap = 1, 0, 2, -1

AllCommands == {"sendFrame", "sendBadFrame", "change", "changeBad", "walk"}

ASSUME ConstantsAssumption ==
  /\ hostOf \in [Node -> MapThread]
  /\ Requests \in [Simulator -> SUBSET [kind : Kinds, map : MapThread]]
  /\ Commands \subseteq AllCommands
  /\ Main \notin MapThread \cup Simulator
  /\ Nobody \notin MapThread \cup Simulator \cup Node \cup {Main}
                     \cup [kind : Kinds, map : MapThread]

VARIABLES
  \* the main thread
  stack,         \* simulators with an active slot, the running one first
  pc,            \* pc[s]: where the active slot of s is, "idle" when it has none
  posted,        \* posted[s]: slots of s waiting in the main event queue
  \* Simulator
  comm,          \* communicationState
  shuttingDown,  \* shuttingDown
  alive,         \* not yet deleted
  gone,          \* its socket has emitted disconnected ()
  request,       \* mapFileName, creatorId, needNewMap
  map,           \* map
  node,          \* node
  pending,       \* pendingMessage is not empty
  \* locks: the thread that holds each
  simLock,       \* Simulator::mutex
  mayBlock,      \* Simulator::mayBlock
  factoryLock,   \* MapFactory::mutex
  nodeLock,      \* SimulatedNode::mutex
  mapLock,       \* MapThread::lock
  \* SimulatedNode
  available,     \* available
  receiver,      \* the simulator connected to frameReceived
  \* MapFactory and MapThread
  managed,       \* maps which are on a stack of their MapInstantiator
  listeners,     \* receivers of aboutToFinish
  observers,     \* receivers of nodeIPAddressChanged / nodeNetmaskChanged
  toNotify,      \* receivers that the running emission has still to call
  quitting,      \* maps whose event loop was told to quit
  mpc,           \* mpc[m]: where the thread of map m is
  mnode,         \* the node whose frame the thread handles
  callFrom,      \* simulator blocked in a BlockingQueuedConnection call to m
  callCmd,       \* the command of that call
  panic          \* qFatal was reached

mainVars == <<stack, pc>>
simVars == <<comm, shuttingDown, alive, gone, request, map, node>>
lockVars == <<simLock, mayBlock, factoryLock, nodeLock, mapLock>>
nodeVars == <<available, receiver>>
wireVars == <<managed, listeners, observers, toNotify, quitting>>
threadVars == <<mpc, mnode, callFrom, callCmd>>
vars == <<mainVars, posted, simVars, pending, lockVars, nodeVars, wireVars,
          threadVars, panic>>

CommunicationState ==
  {"NotSignedIn", "JustSignedIn", "InstantiatingOrRetrievingMap", "MapSelected",
   "ConnectedToAMapNode", "SimulatingNode", "Disconnected", "ObservingChangeEvents"}

(***************************************************************************)
(* Slots that start by locking the simulator's mutex without waiting, and  *)
(* the places inside a slot where it can be interrupted.  A "try" place is *)
(* a tryLock of a NonBlockingLocker that waits; when the lock is taken the *)
(* thread goes to the "poll" place, where it processes events.             *)
(***************************************************************************)
Slots == {"readData", "instantiate", "finalize", "sendPending"}
TryPlaces == {"acquireTry", "initTry", "aboutTry", "finTry"}
PollOf(p) == CASE p = "acquireTry" -> "acquirePoll" [] p = "initTry" -> "initPoll"
               [] p = "aboutTry" -> "aboutPoll"     [] p = "finTry" -> "finPoll"
PollPlaces == {"acquirePoll", "initPoll", "aboutPoll", "finPoll"}
\* Places at which the slot has given mayBlock away.
LentPlaces == {"emit", "walk", "aboutTry", "aboutPoll", "aboutRelock",
               "finTry", "finPoll", "finRelock", "finFailed"}
Places == {"idle", "quitLock", "quitEmit", "quitWait"}
            \cup Slots \cup TryPlaces \cup PollPlaces \cup LentPlaces

ThreadPlaces == {"none", "setup", "failed", "loop", "accept", "tryMutex",
                 "tryMayBlock", "deliver", "invalid", "changeLock", "observe",
                 "finished"}

RequestType == [kind : Kinds, map : MapThread]

MainTypes ==
  /\ stack \in Seq(Simulator)
  /\ pc \in [Simulator -> Places]
  /\ posted \in [Simulator -> SUBSET {"run", "instantiate", "sendPending", "finalize", "delete"}]

SimulatorTypes ==
  /\ comm \in [Simulator -> CommunicationState]
  /\ shuttingDown \in [Simulator -> BOOLEAN]
  /\ alive \in [Simulator -> BOOLEAN]
  /\ gone \in [Simulator -> BOOLEAN]
  /\ request \in [Simulator -> RequestType \cup {Nobody}]
  /\ map \in [Simulator -> MapThread \cup {Nobody}]
  /\ node \in [Simulator -> Node \cup {Nobody}]
  /\ pending \in [Simulator -> BOOLEAN]

LockTypes ==
  /\ simLock \in [Simulator -> MapThread \cup {Main, Nobody}]
  /\ mayBlock \in [Simulator -> MapThread \cup {Main, Nobody}]
  /\ factoryLock \in {Main, Nobody}
  /\ nodeLock \in [Node -> MapThread \cup {Nobody}]
  /\ mapLock \in [MapThread -> MapThread \cup {Main, Nobody}]

MapTypes ==
  /\ available \in [Node -> BOOLEAN]
  /\ receiver \in [Node -> Simulator \cup {Nobody}]
  /\ managed \subseteq MapThread
  /\ listeners \in [MapThread -> SUBSET Simulator]
  /\ observers \in [MapThread -> SUBSET Simulator]
  /\ toNotify \in [MapThread -> SUBSET Simulator]
  /\ quitting \subseteq MapThread

ThreadTypes ==
  /\ mpc \in [MapThread -> ThreadPlaces]
  /\ mnode \in [MapThread -> Node \cup {Nobody}]
  /\ callFrom \in [MapThread -> Simulator \cup {Nobody}]
  /\ callCmd \in [MapThread -> AllCommands]
  /\ panic \in BOOLEAN

\* The request is known wherever it is used.
RequestKnown ==
  \A s \in Simulator :
    request[s] = Nobody =>
      /\ comm[s] \in {"NotSignedIn", "JustSignedIn", "Disconnected"}
      /\ pc[s] \in Slots \cup {"idle"}
      /\ node[s] = Nobody

TypeOK ==
  MainTypes /\ SimulatorTypes /\ LockTypes /\ MapTypes /\ ThreadTypes /\ RequestKnown

Init ==
  /\ stack = <<>>
  /\ pc = [s \in Simulator |-> "idle"]
  /\ posted = [s \in Simulator |-> {"run"}]
  /\ comm = [s \in Simulator |-> "NotSignedIn"]
  /\ shuttingDown = [s \in Simulator |-> FALSE]
  /\ alive = [s \in Simulator |-> TRUE]
  /\ gone = [s \in Simulator |-> FALSE]
  /\ request = [s \in Simulator |-> Nobody]
  /\ map = [s \in Simulator |-> Nobody]
  /\ node = [s \in Simulator |-> Nobody]
  /\ pending = [s \in Simulator |-> FALSE]
  /\ simLock = [s \in Simulator |-> Nobody]
  /\ mayBlock = [s \in Simulator |-> Main]
  /\ factoryLock = Nobody
  /\ nodeLock = [n \in Node |-> Nobody]
  /\ mapLock = [m \in MapThread |-> Nobody]
  /\ available = [n \in Node |-> TRUE]
  /\ receiver = [n \in Node |-> Nobody]
  /\ managed = {}
  /\ listeners = [m \in MapThread |-> {}]
  /\ observers = [m \in MapThread |-> {}]
  /\ toNotify = [m \in MapThread |-> {}]
  /\ quitting = {}
  /\ mpc = [m \in MapThread |-> "none"]
  /\ mnode = [m \in MapThread |-> Nobody]
  /\ callFrom = [m \in MapThread |-> Nobody]
  /\ callCmd = [m \in MapThread |-> "sendFrame"]
  /\ panic = FALSE

-----------------------------------------------------------------------------
Running(s) == ~panic /\ stack # <<>> /\ Head(stack) = s

\* The main thread is in its event loop or in processEvents of a waiting slot.
ProcessingEvents == ~panic /\ (stack # <<>> => pc[Head(stack)] \in PollPlaces)

Post(s, slots) == posted' = [posted EXCEPT ![s] = @ \cup slots]

\* Server::processPendingMessages: a queued call to every simulator.
PostSendPending ==
  posted' = [s \in Simulator |->
               IF alive[s] THEN posted[s] \cup {"sendPending"} ELSE posted[s]]

\* Fault: a slot ends with the mutex still locked.
ReturnLocked(s) ==
  /\ stack' = Tail(stack)
  /\ pc' = [pc EXCEPT ![s] = "idle"]
  /\ UNCHANGED simLock

\* The running slot of s ends and its NonBlockingLocker unlocks the mutex.
Return(s) ==
  /\ stack' = Tail(stack)
  /\ pc' = [pc EXCEPT ![s] = "idle"]
  /\ simLock' = [simLock EXCEPT ![s] = Nobody]

Goto(s, place) == pc' = [pc EXCEPT ![s] = place] /\ UNCHANGED stack
=============================================================================
