------------------------- MODULE ServerCore_proofs -------------------------
(***************************************************************************)
(* ServerCore for any number of clients, maps and nodes.                   *)
(* First: type correctness, the inductive invariant IInv and the safety    *)
(* properties that follow.                                                 *)
(* Second: nobody reaches a map or a client that was deleted, and the main *)
(* thread never waits for itself or for a frame that waits for it.         *)
(* Third: no message that a map thread leaves for a client is forgotten.   *)
(* Fourth: ServerCore implements NodeLease.                                *)
(***************************************************************************)
EXTENDS ServerInvariant, TLAPS

-----------------------------------------------------------------------------
(* What each group of actions leaves alone.                                *)

\* What a map thread leaves alone.
LEMMA MapThreadFrame ==
  ASSUME NEW m \in MapThread, MapThreadNext(m)
  PROVE  UNCHANGED <<stack, pc, comm, shuttingDown, alive, gone, request, map, node,
                    factoryLock, available, receiver, managed, listeners, observers,
                    quitting>>
BY DEF MapThreadNext, SetUp, MoveTo, mainVars, simVars, lockVars, nodeVars, wireVars,
    FrameArrives, NotForSimulator, EmitFrameReceived, TryMutex, TryMayBlock, Deliver,
    PostSendPending, ServeSend, Reply, ServeInvalid, NotifyInvalid, ServeChange,
    LockMapChanges, NotifyObserver, threadVars, ChangeDone, LeaveLoop

\* What a client leaves alone.
LEMMA ClientFrame ==
  ASSUME NEW s \in Simulator, ClientNext(s)
  PROVE  UNCHANGED <<comm, shuttingDown, alive, request, map, node, pending, mayBlock,
                    factoryLock, nodeLock, mapLock, available, receiver, managed,
                    listeners, observers, toNotify, quitting, mpc, mnode, callFrom,
                    callCmd, panic>>
BY DEF ClientNext, SocketCloses, Post, mainVars, lockVars, nodeVars, wireVars,
    threadVars, DataArrives, Enter, simVars

\* What the delivery of an event leaves alone.
LEMMA EventFrame ==
  ASSUME NEW s \in Simulator, EventNext(s)
  PROVE  UNCHANGED <<shuttingDown, gone, request, map, node, pending, factoryLock,
                    nodeLock, mapLock, available, receiver, managed, quitting, mpc,
                    mnode, callFrom, callCmd, panic>>
BY DEF EventNext, Run, mainVars, lockVars, nodeVars, wireVars, threadVars, DropFinalize,
    simVars, Delete, PostedSlot, Enter

\* What the common steps of a simulator leave alone.
LEMMA CommonFrame ==
  ASSUME NEW s \in Simulator, CommonNext(s)
  PROVE  UNCHANGED <<posted, comm, shuttingDown, alive, gone, request, map, node,
                    pending, mayBlock, factoryLock, nodeLock, mapLock, available,
                    receiver, managed, listeners, observers, toNotify, quitting, mpc,
                    mnode, callFrom, callCmd, panic>>
BY DEF CommonNext, ReturnShuttingDown, Return, simVars, nodeVars, wireVars, threadVars,
    Poll, Goto, lockVars, EventsProcessed

\* What reading a command leaves alone.
LEMMA ReadFrame ==
  ASSUME NEW s \in Simulator, ReadNext(s)
  PROVE  UNCHANGED <<shuttingDown, alive, gone, map, factoryLock, nodeLock, mapLock,
                    managed, listeners, observers, toNotify, quitting, mpc, mnode, panic>>
BY DEF ReadNext, ReadNothing, Return, simVars, nodeVars, wireVars, threadVars,
    ReadDisconnect, ReadMapRequest, Post, ReadNodeRequest, Goto, lockVars, AcquireNode,
    NodeNotAvailable, StartSimulation, EmitCommand, CommandDone, PostSendPending,
    SendPending

\* What instantiating a map leaves alone.
LEMMA InstantiateFrame ==
  ASSUME NEW s \in Simulator, InstantiateNext(s)
  PROVE  UNCHANGED <<shuttingDown, alive, gone, request, node, pending, mayBlock,
                    nodeLock, mapLock, available, receiver, toNotify, quitting, mnode,
                    callFrom, callCmd, panic>>
BY DEF InstantiateNext, InstantiateStale, Return, nodeVars, wireVars, threadVars,
    InstantiateBusy, Post, simVars, Refused, CreateMap, Goto, MapCreated, MapNotCreated,
    JoinMap

\* What the quit of a map leaves alone.
LEMMA QuitFrame ==
  ASSUME NEW s \in Simulator, QuitNext(s)
  PROVE  UNCHANGED <<posted, shuttingDown, alive, gone, request, pending, nodeLock,
                    mnode, callFrom, callCmd>>
BY DEF QuitNext, DeleteMap, Goto, simVars, nodeVars, threadVars, QuitLock, QuitDone,
    MapDeleted, Return, AboutToFinishPanics, Notified, mainVars, lockVars,
    AboutToFinishNoNode, AboutToFinish, AboutReleased, FreeNode, wireVars, AboutDone

\* What finalizing a simulator leaves alone.
LEMMA FinalizeFrame ==
  ASSUME NEW s \in Simulator, FinalizeNext(s)
  PROVE  UNCHANGED <<comm, alive, gone, request, pending, nodeLock, mapLock, managed,
                    observers, toNotify, quitting, mpc, mnode, callFrom, callCmd, panic>>
BY DEF FinalizeNext, FinalizeNoNode, ShutDown, Post, Return, nodeVars, wireVars,
    threadVars, FinalizeRelease, Goto, FinalizeBusy, FinalizeLater, simVars,
    FinalizeReleased, FreeNode, FinalizeDone

-----------------------------------------------------------------------------
(* Types.                                                                   *)

\* Adding one receiver to a signal of one map, or dropping one, keeps the type of
\* the signal's receivers.
LEMMA AddReceiver ==
  ASSUME NEW f \in [MapThread -> SUBSET Simulator], NEW m, NEW s \in Simulator,
         NEW g, g = [f EXCEPT ![m] = @ \cup {s}]
  PROVE  g \in [MapThread -> SUBSET Simulator]
OBVIOUS

\* A map thread's receivers without one of them are receivers still.
LEMMA DropReceiver ==
  ASSUME NEW f \in [MapThread -> SUBSET Simulator], NEW m, NEW s \in Simulator,
         NEW g, g = [f EXCEPT ![m] = @ \ {s}]
  PROVE  g \in [MapThread -> SUBSET Simulator]
OBVIOUS

\* A slot that instantiates, waits for or ends a map knows which map that is.
LEMMA WantedType ==
  ASSUME TypeOK, NEW s \in Simulator,
         pc[s] \notin Slots \cup {"idle"} \/ comm[s] = "InstantiatingOrRetrievingMap"
  PROVE  Wanted(s) \in MapThread
BY DEF Wanted, TypeOK, SimulatorTypes, RequestKnown, RequestType

\* The server starts with typed state.
LEMMA TypeInit == Init => TypeOK
<1> SUFFICES ASSUME Init PROVE TypeOK
  OBVIOUS
<1> USE DEF Init
<1>1. MainTypes BY DEF MainTypes, Places
<1>2. SimulatorTypes BY DEF SimulatorTypes, CommunicationState
<1>3. LockTypes BY DEF LockTypes
<1>4. MapTypes BY DEF MapTypes
<1>5. ThreadTypes BY DEF ThreadTypes, ThreadPlaces, AllCommands
<1>6. RequestKnown BY DEF RequestKnown
<1> QED BY <1>1, <1>2, <1>3, <1>4, <1>5, <1>6 DEF TypeOK

\* The stack of activations and the event queue keep their types.
LEMMA MainTypesStep ==
  ASSUME TypeOK, [Next]_vars
  PROVE  MainTypes'
<1> USE ConstantsAssumption DEF TypeOK, MainTypes, Places, PollOf, Slots, TryPlaces,
    PollPlaces, LentPlaces
<1>1. CASE UNCHANGED vars
  BY <1>1 DEF vars, mainVars, simVars, lockVars, nodeVars, wireVars, threadVars
<1>2. ASSUME NEW m \in MapThread, MapThreadNext(m) PROVE MainTypes'
  <2>1. CASE Deliver(m)
    BY <2>1 DEF Deliver, Target, PostSendPending, MoveTo, mainVars, simVars, nodeVars,
        wireVars
  <2>2. CASE SetUp(m) \/ (\E n \in Node : FrameArrives(m, n)) \/ NotForSimulator(m) \/
            EmitFrameReceived(m) \/ TryMutex(m) \/ TryMayBlock(m) \/ ServeSend(m) \/
            ServeInvalid(m) \/ NotifyInvalid(m) \/ ServeChange(m) \/ LockMapChanges(m)
            \/ (\E o \in Simulator : NotifyObserver(m, o)) \/ ChangeDone(m) \/
            LeaveLoop(m)
    BY <2>2 DEF SetUp, MoveTo, mainVars, simVars, lockVars, nodeVars, wireVars,
        FrameArrives, NotForSimulator, EmitFrameReceived, TryMutex, TryMayBlock,
        ServeSend, Reply, ServeInvalid, NotifyInvalid, ServeChange, LockMapChanges,
        NotifyObserver, threadVars, ChangeDone, LeaveLoop
  <2> QED BY <1>2, <2>1, <2>2 DEF MapThreadNext
<1>3. ASSUME NEW s \in Simulator, ClientNext(s) PROVE MainTypes'
  <2>1. CASE SocketCloses(s)
    BY <2>1 DEF SocketCloses, Post, mainVars, lockVars, nodeVars, wireVars, threadVars
  <2>2. CASE DataArrives(s)
    BY <2>2 DEF DataArrives, Enter, ProcessingEvents, simVars, nodeVars, wireVars,
        threadVars
  <2> QED BY <1>3, <2>1, <2>2 DEF ClientNext
<1>4. ASSUME NEW s \in Simulator, EventNext(s) PROVE MainTypes'
  <2>1. CASE Run(s)
    BY <2>1 DEF Run, ProcessingEvents, mainVars, lockVars, nodeVars, wireVars,
        threadVars
  <2>2. CASE DropFinalize(s)
    BY <2>2 DEF DropFinalize, ProcessingEvents, mainVars, simVars, lockVars, nodeVars,
        wireVars, threadVars
  <2>3. CASE Delete(s)
    BY <2>3 DEF Delete, ProcessingEvents, mainVars, nodeVars, threadVars
  <2>4. CASE \E slot \in Slots : PostedSlot(s, slot)
    BY <2>4 DEF PostedSlot, Enter, ProcessingEvents, simVars, nodeVars, wireVars,
        threadVars
  <2> QED BY <1>4, <2>1, <2>2, <2>3, <2>4 DEF EventNext
<1>5. ASSUME NEW s \in Simulator, CommonNext(s) PROVE MainTypes'
  <2>1. CASE ReturnShuttingDown(s)
    BY <2>1 DEF ReturnShuttingDown, Running, Return, simVars, nodeVars, wireVars,
        threadVars
  <2>2. CASE Poll(s)
    BY <2>2 DEF Poll, Running, Goto, simVars, lockVars, nodeVars, wireVars, threadVars
  <2>3. CASE EventsProcessed(s)
    BY <2>3 DEF EventsProcessed, Running, Goto, simVars, lockVars, nodeVars, wireVars,
        threadVars
  <2> QED BY <1>5, <2>1, <2>2, <2>3 DEF CommonNext
<1>6. ASSUME NEW s \in Simulator, ReadNext(s) PROVE MainTypes'
  <2>1. CASE ReadNothing(s)
    BY <2>1 DEF ReadNothing, Reading, Running, Return, simVars, nodeVars, wireVars,
        threadVars
  <2>2. CASE ReadDisconnect(s)
    BY <2>2 DEF ReadDisconnect, Reading, Running, Return, nodeVars, wireVars, threadVars
  <2>3. CASE ReadMapRequest(s)
    BY <2>3 DEF ReadMapRequest, Reading, Running, Post, Return, nodeVars, wireVars,
        threadVars
  <2>4. CASE ReadNodeRequest(s)
    BY <2>4 DEF ReadNodeRequest, Reading, Running, Goto, lockVars, nodeVars, wireVars,
        threadVars
  <2>5. CASE AcquireNode(s)
    BY <2>5 DEF AcquireNode, Running, Return, wireVars, threadVars
  <2>6. CASE NodeNotAvailable(s)
    BY <2>6 DEF NodeNotAvailable, Running, Return, nodeVars, wireVars, threadVars
  <2>7. CASE StartSimulation(s)
    BY <2>7 DEF StartSimulation, Reading, Running, Return, nodeVars, wireVars,
        threadVars
  <2>8. CASE EmitCommand(s)
    BY <2>8 DEF EmitCommand, Reading, Running, Goto, simVars, nodeVars, wireVars
  <2>9. CASE CommandDone(s)
    BY <2>9 DEF CommandDone, Running, PostSendPending, Return, simVars, nodeVars,
        wireVars, threadVars
  <2>10. CASE SendPending(s)
    BY <2>10 DEF SendPending, Running, Return, simVars, nodeVars, wireVars, threadVars
  <2> QED BY <1>6, <2>1, <2>2, <2>3, <2>4, <2>5, <2>6, <2>7, <2>8, <2>9, <2>10 DEF ReadNext
<1>7. ASSUME NEW s \in Simulator, InstantiateNext(s) PROVE MainTypes'
  <2>1. CASE InstantiateStale(s)
    BY <2>1 DEF InstantiateStale, Instantiating, Running, Return, nodeVars, wireVars,
        threadVars
  <2>2. CASE InstantiateBusy(s)
    BY <2>2 DEF InstantiateBusy, Instantiating, Running, Post, Return, simVars,
        nodeVars, wireVars, threadVars
  <2>3. CASE Refused(s)
    BY <2>3 DEF Refused, Requesting, Instantiating, Running, Return, nodeVars, wireVars,
        threadVars
  <2>4. CASE CreateMap(s)
    BY <2>4 DEF CreateMap, Requesting, Instantiating, Running, Wanted, Goto, simVars,
        nodeVars, wireVars
  <2>5. CASE MapCreated(s)
    BY <2>5 DEF MapCreated, Running, Wanted, Return, nodeVars, threadVars
  <2>6. CASE MapNotCreated(s)
    BY <2>6 DEF MapNotCreated, Running, Wanted, Return, nodeVars, wireVars
  <2>7. CASE JoinMap(s)
    BY <2>7 DEF JoinMap, Requesting, Instantiating, Running, Wanted, Return, nodeVars,
        threadVars
  <2> QED BY <1>7, <2>1, <2>2, <2>3, <2>4, <2>5, <2>6, <2>7 DEF InstantiateNext
<1>8. ASSUME NEW s \in Simulator, QuitNext(s) PROVE MainTypes'
  <2>1. CASE DeleteMap(s)
    BY <2>1 DEF DeleteMap, Requesting, Instantiating, Running, Wanted, Goto, simVars,
        nodeVars, threadVars
  <2>2. CASE QuitLock(s)
    BY <2>2 DEF QuitLock, Running, Wanted, Goto, simVars, nodeVars, threadVars
  <2>3. CASE QuitDone(s)
    BY <2>3 DEF QuitDone, Running, Wanted, Goto, simVars, nodeVars, threadVars
  <2>4. CASE MapDeleted(s)
    BY <2>4 DEF MapDeleted, Running, Wanted, Return, nodeVars
  <2>5. CASE \E t \in Simulator : AboutToFinish(s, t)
    BY <2>5 DEF AboutToFinish, Emitting, Running, Wanted, Notified, simVars, nodeVars,
        threadVars
  <2>6. CASE AboutReleased(s)
    BY <2>6 DEF AboutReleased, Running, FreeNode, Goto, simVars, lockVars, wireVars,
        threadVars
  <2>7. CASE AboutDone(s)
    BY <2>7 DEF AboutDone, Running, Return, nodeVars, wireVars, threadVars
  <2>8. CASE (\E t \in Simulator : AboutToFinishPanics(s, t)) \/ (\E t \in Simulator :
            AboutToFinishNoNode(s, t))
    BY <2>8 DEF AboutToFinishPanics, Notified, mainVars, simVars, lockVars, nodeVars,
        threadVars, AboutToFinishNoNode
  <2> QED BY <1>8, <2>1, <2>2, <2>3, <2>4, <2>5, <2>6, <2>7, <2>8 DEF QuitNext
<1>9. ASSUME NEW s \in Simulator, FinalizeNext(s) PROVE MainTypes'
  <2>1. CASE FinalizeNoNode(s)
    BY <2>1 DEF FinalizeNoNode, Finalizing, Running, ShutDown, Post, Return, nodeVars,
        wireVars, threadVars
  <2>2. CASE FinalizeRelease(s)
    BY <2>2 DEF FinalizeRelease, Finalizing, Running, ShutDown, Goto, nodeVars,
        wireVars, threadVars
  <2>3. CASE FinalizeBusy(s)
    BY <2>3 DEF FinalizeBusy, Finalizing, Running, ShutDown, Goto, nodeVars, wireVars,
        threadVars
  <2>4. CASE FinalizeLater(s)
    BY <2>4 DEF FinalizeLater, Running, Post, Return, simVars, nodeVars, threadVars
  <2>5. CASE FinalizeReleased(s)
    BY <2>5 DEF FinalizeReleased, Running, FreeNode, Goto, simVars, wireVars, threadVars
  <2>6. CASE FinalizeDone(s)
    BY <2>6 DEF FinalizeDone, Running, Post, Return, nodeVars, wireVars, threadVars
  <2> QED BY <1>9, <2>1, <2>2, <2>3, <2>4, <2>5, <2>6 DEF FinalizeNext
<1> QED BY <1>1, <1>2, <1>3, <1>4, <1>5, <1>6, <1>7, <1>8, <1>9
  DEF Next, SlotNext, CommonNext, Stopped

\* The fields of the simulators keep their types.
LEMMA SimulatorTypesStep ==
  ASSUME TypeOK, [Next]_vars
  PROVE  SimulatorTypes'
<1> USE ConstantsAssumption DEF TypeOK, MainTypes, SimulatorTypes, RequestKnown,
    RequestType, CommunicationState, Slots, Kinds
<1>1. CASE UNCHANGED vars
  BY <1>1 DEF vars, mainVars, simVars, lockVars, nodeVars, wireVars, threadVars
<1>2. ASSUME NEW m \in MapThread, MapThreadNext(m) PROVE SimulatorTypes'
  <2>1. CASE Deliver(m)
    BY <2>1 DEF Deliver, Target, PostSendPending, MoveTo, mainVars, simVars, nodeVars,
        wireVars
  <2>2. CASE NotifyInvalid(m)
    BY <2>2 DEF NotifyInvalid, Reply, MoveTo, mainVars, simVars, lockVars, nodeVars,
        wireVars
  <2>3. CASE \E o \in Simulator : NotifyObserver(m, o)
    BY <2>3 DEF NotifyObserver, mainVars, simVars, lockVars, nodeVars, threadVars
  <2>4. CASE SetUp(m) \/ (\E n \in Node : FrameArrives(m, n)) \/ NotForSimulator(m) \/
            EmitFrameReceived(m) \/ TryMutex(m) \/ TryMayBlock(m) \/ ServeSend(m) \/
            ServeInvalid(m) \/ ServeChange(m) \/ LockMapChanges(m) \/ ChangeDone(m) \/
            LeaveLoop(m)
    BY <2>4 DEF SetUp, MoveTo, mainVars, simVars, lockVars, nodeVars, wireVars,
        FrameArrives, NotForSimulator, EmitFrameReceived, TryMutex, TryMayBlock,
        ServeSend, Reply, ServeInvalid, ServeChange, LockMapChanges, ChangeDone,
        LeaveLoop
  <2> QED BY <1>2, <2>1, <2>2, <2>3, <2>4 DEF MapThreadNext
<1>3. ASSUME NEW s \in Simulator, ClientNext(s) PROVE SimulatorTypes'
  <2>1. CASE SocketCloses(s)
    BY <2>1 DEF SocketCloses, Post, mainVars, lockVars, nodeVars, wireVars, threadVars
  <2>2. CASE DataArrives(s)
    BY <2>2 DEF DataArrives, Enter, simVars, nodeVars, wireVars, threadVars
  <2> QED BY <1>3, <2>1, <2>2 DEF ClientNext
<1>4. ASSUME NEW s \in Simulator, EventNext(s) PROVE SimulatorTypes'
  <2>1. CASE Run(s)
    BY <2>1 DEF Run, ProcessingEvents, mainVars, lockVars, nodeVars, wireVars,
        threadVars
  <2>2. CASE Delete(s)
    BY <2>2 DEF Delete, ProcessingEvents, mainVars, nodeVars, threadVars
  <2>3. CASE DropFinalize(s) \/ (\E slot \in Slots : PostedSlot(s, slot))
    BY <2>3 DEF DropFinalize, mainVars, simVars, lockVars, nodeVars, wireVars,
        threadVars, PostedSlot, Enter
  <2> QED BY <1>4, <2>1, <2>2, <2>3 DEF EventNext
<1>5. ASSUME NEW s \in Simulator, CommonNext(s) PROVE SimulatorTypes'
  BY <1>5, CommonFrame
<1>6. ASSUME NEW s \in Simulator, ReadNext(s) PROVE SimulatorTypes'
  <2>1. CASE ReadDisconnect(s)
    BY <2>1 DEF ReadDisconnect, Reading, Running, Return, nodeVars, wireVars, threadVars
  <2>2. CASE ReadMapRequest(s)
    BY <2>2 DEF ReadMapRequest, Reading, Running, Post, Return, nodeVars, wireVars,
        threadVars
  <2>3. CASE ReadNodeRequest(s)
    BY <2>3 DEF ReadNodeRequest, Reading, Running, Goto, lockVars, nodeVars, wireVars,
        threadVars
  <2>4. CASE AcquireNode(s)
    BY <2>4 DEF AcquireNode, Running, Return, wireVars, threadVars
  <2>5. CASE NodeNotAvailable(s)
    BY <2>5 DEF NodeNotAvailable, Running, Return, nodeVars, wireVars, threadVars
  <2>6. CASE StartSimulation(s)
    BY <2>6 DEF StartSimulation, Reading, Running, Return, nodeVars, wireVars,
        threadVars
  <2>7. CASE SendPending(s)
    BY <2>7 DEF SendPending, Running, Return, simVars, nodeVars, wireVars, threadVars
  <2>8. CASE ReadNothing(s) \/ EmitCommand(s) \/ CommandDone(s)
    BY <2>8 DEF ReadNothing, Return, simVars, nodeVars, wireVars, threadVars,
        EmitCommand, Goto, CommandDone, PostSendPending
  <2> QED BY <1>6, <2>1, <2>2, <2>3, <2>4, <2>5, <2>6, <2>7, <2>8 DEF ReadNext
<1>7. ASSUME NEW s \in Simulator, InstantiateNext(s) PROVE SimulatorTypes'
  <2>1. CASE InstantiateStale(s)
    BY <2>1 DEF InstantiateStale, Instantiating, Running, Return, nodeVars, wireVars,
        threadVars
  <2>2. CASE Refused(s)
    BY <2>2 DEF Refused, Requesting, Instantiating, Running, Return, nodeVars, wireVars,
        threadVars
  <2>3. CASE MapCreated(s)
    BY <2>3 DEF MapCreated, Running, Wanted, Return, nodeVars, threadVars
  <2>4. CASE MapNotCreated(s)
    BY <2>4 DEF MapNotCreated, Running, Wanted, Return, nodeVars, wireVars
  <2>5. CASE JoinMap(s)
    BY <2>5 DEF JoinMap, Requesting, Instantiating, Running, Wanted, Return, nodeVars,
        threadVars
  <2>6. CASE InstantiateBusy(s) \/ CreateMap(s)
    BY <2>6 DEF InstantiateBusy, Post, Return, simVars, nodeVars, wireVars, threadVars,
        CreateMap, Goto
  <2> QED BY <1>7, <2>1, <2>2, <2>3, <2>4, <2>5, <2>6 DEF InstantiateNext
<1>8. ASSUME NEW s \in Simulator, QuitNext(s) PROVE SimulatorTypes'
  <2>1. CASE MapDeleted(s)
    BY <2>1 DEF MapDeleted, Running, Wanted, Return, nodeVars
  <2>2. CASE \E t \in Simulator : AboutToFinishNoNode(s, t)
    BY <2>2 DEF AboutToFinishNoNode, Emitting, Running, Wanted, Notified, mainVars,
        lockVars, nodeVars, threadVars
  <2>3. CASE AboutDone(s)
    BY <2>3 DEF AboutDone, Running, Return, nodeVars, wireVars, threadVars
  <2>4. CASE DeleteMap(s) \/ QuitLock(s) \/ QuitDone(s) \/ (\E t \in Simulator :
            AboutToFinishPanics(s, t)) \/ (\E t \in Simulator : AboutToFinish(s, t)) \/
            AboutReleased(s)
    BY <2>4 DEF DeleteMap, Goto, simVars, nodeVars, threadVars, QuitLock, QuitDone,
        AboutToFinishPanics, Notified, mainVars, lockVars, AboutToFinish, AboutReleased,
        FreeNode, wireVars
  <2> QED BY <1>8, <2>1, <2>2, <2>3, <2>4 DEF QuitNext
<1>9. ASSUME NEW s \in Simulator, FinalizeNext(s) PROVE SimulatorTypes'
  <2>1. CASE FinalizeNoNode(s)
    BY <2>1 DEF FinalizeNoNode, Finalizing, Running, ShutDown, Post, Return, nodeVars,
        wireVars, threadVars
  <2>2. CASE FinalizeRelease(s)
    BY <2>2 DEF FinalizeRelease, Finalizing, Running, ShutDown, Goto, nodeVars,
        wireVars, threadVars
  <2>3. CASE FinalizeBusy(s)
    BY <2>3 DEF FinalizeBusy, Finalizing, Running, ShutDown, Goto, nodeVars, wireVars,
        threadVars
  <2>4. CASE FinalizeDone(s)
    BY <2>4 DEF FinalizeDone, Running, Post, Return, nodeVars, wireVars, threadVars
  <2>5. CASE FinalizeLater(s) \/ FinalizeReleased(s)
    BY <2>5 DEF FinalizeLater, Post, Return, simVars, nodeVars, threadVars,
        FinalizeReleased, FreeNode, Goto, wireVars
  <2> QED BY <1>9, <2>1, <2>2, <2>3, <2>4, <2>5 DEF FinalizeNext
<1> QED BY <1>1, <1>2, <1>3, <1>4, <1>5, <1>6, <1>7, <1>8, <1>9
  DEF Next, SlotNext, CommonNext, Stopped

\* The locks keep their types.
LEMMA LockTypesStep ==
  ASSUME TypeOK, [Next]_vars
  PROVE  LockTypes'
<1> USE ConstantsAssumption DEF TypeOK, LockTypes
<1>1. CASE UNCHANGED vars
  BY <1>1 DEF vars, mainVars, simVars, lockVars, nodeVars, wireVars, threadVars
<1>2. ASSUME NEW m \in MapThread, MapThreadNext(m) PROVE LockTypes'
  <2>1. CASE \E n \in Node : FrameArrives(m, n)
    BY <2>1 DEF FrameArrives, MoveTo, mainVars, simVars, nodeVars, wireVars
  <2>2. CASE NotForSimulator(m)
    BY <2>2 DEF NotForSimulator, MoveTo, mainVars, simVars, nodeVars, wireVars
  <2>3. CASE TryMutex(m)
    BY <2>3 DEF TryMutex, Target, MoveTo, mainVars, simVars, nodeVars, wireVars
  <2>4. CASE TryMayBlock(m)
    BY <2>4 DEF TryMayBlock, Target, MoveTo, mainVars, simVars, nodeVars, wireVars
  <2>5. CASE Deliver(m)
    BY <2>5 DEF Deliver, Target, PostSendPending, MoveTo, mainVars, simVars, nodeVars,
        wireVars
  <2>6. CASE LockMapChanges(m)
    BY <2>6 DEF LockMapChanges, MoveTo, mainVars, simVars, nodeVars
  <2>7. CASE ChangeDone(m)
    BY <2>7 DEF ChangeDone, Reply, MoveTo, mainVars, simVars, nodeVars, wireVars
  <2>8. CASE SetUp(m) \/ EmitFrameReceived(m) \/ ServeSend(m) \/ ServeInvalid(m) \/
            NotifyInvalid(m) \/ ServeChange(m) \/ (\E o \in Simulator :
            NotifyObserver(m, o)) \/ LeaveLoop(m)
    BY <2>8 DEF SetUp, MoveTo, mainVars, simVars, lockVars, nodeVars, wireVars,
        EmitFrameReceived, ServeSend, Reply, ServeInvalid, NotifyInvalid, ServeChange,
        NotifyObserver, threadVars, LeaveLoop
  <2> QED BY <1>2, <2>1, <2>2, <2>3, <2>4, <2>5, <2>6, <2>7, <2>8 DEF MapThreadNext
<1>3. ASSUME NEW s \in Simulator, ClientNext(s) PROVE LockTypes'
  <2>1. CASE DataArrives(s)
    BY <2>1 DEF DataArrives, Enter, ProcessingEvents, simVars, nodeVars, wireVars,
        threadVars
  <2>2. CASE SocketCloses(s)
    BY <2>2 DEF SocketCloses, Post, mainVars, lockVars, nodeVars, wireVars, threadVars
  <2> QED BY <1>3, <2>1, <2>2 DEF ClientNext
<1>4. ASSUME NEW s \in Simulator, EventNext(s) PROVE LockTypes'
  <2>1. CASE Delete(s)
    BY <2>1 DEF Delete, ProcessingEvents, mainVars, nodeVars, threadVars
  <2>2. CASE \E slot \in Slots : PostedSlot(s, slot)
    BY <2>2 DEF PostedSlot, Enter, ProcessingEvents, simVars, nodeVars, wireVars,
        threadVars
  <2>3. CASE Run(s) \/ DropFinalize(s)
    BY <2>3 DEF Run, mainVars, lockVars, nodeVars, wireVars, threadVars, DropFinalize,
        simVars
  <2> QED BY <1>4, <2>1, <2>2, <2>3 DEF EventNext
<1>5. ASSUME NEW s \in Simulator, CommonNext(s) PROVE LockTypes'
  <2>1. CASE ReturnShuttingDown(s)
    BY <2>1 DEF ReturnShuttingDown, Running, Return, simVars, nodeVars, wireVars,
        threadVars
  <2>2. CASE Poll(s) \/ EventsProcessed(s)
    BY <2>2 DEF Poll, Goto, simVars, lockVars, nodeVars, wireVars, threadVars,
        EventsProcessed
  <2> QED BY <1>5, <2>1, <2>2 DEF CommonNext
<1>6. ASSUME NEW s \in Simulator, ReadNext(s) PROVE LockTypes'
  <2>1. CASE ReadNothing(s)
    BY <2>1 DEF ReadNothing, Reading, Running, Return, simVars, nodeVars, wireVars,
        threadVars
  <2>2. CASE ReadDisconnect(s)
    BY <2>2 DEF ReadDisconnect, Reading, Running, Return, nodeVars, wireVars, threadVars
  <2>3. CASE ReadMapRequest(s)
    BY <2>3 DEF ReadMapRequest, Reading, Running, Post, Return, nodeVars, wireVars,
        threadVars
  <2>4. CASE AcquireNode(s)
    BY <2>4 DEF AcquireNode, Running, Return, wireVars, threadVars
  <2>5. CASE NodeNotAvailable(s)
    BY <2>5 DEF NodeNotAvailable, Running, Return, nodeVars, wireVars, threadVars
  <2>6. CASE StartSimulation(s)
    BY <2>6 DEF StartSimulation, Reading, Running, Return, nodeVars, wireVars,
        threadVars
  <2>7. CASE EmitCommand(s)
    BY <2>7 DEF EmitCommand, Reading, Running, Goto, simVars, nodeVars, wireVars
  <2>8. CASE CommandDone(s)
    BY <2>8 DEF CommandDone, Running, PostSendPending, Return, simVars, nodeVars,
        wireVars, threadVars
  <2>9. CASE SendPending(s)
    BY <2>9 DEF SendPending, Running, Return, simVars, nodeVars, wireVars, threadVars
  <2>10. CASE ReadNodeRequest(s)
    BY <2>10 DEF ReadNodeRequest, Goto, lockVars, nodeVars, wireVars, threadVars
  <2> QED BY <1>6, <2>1, <2>2, <2>3, <2>4, <2>5, <2>6, <2>7, <2>8, <2>9, <2>10 DEF ReadNext
<1>7. ASSUME NEW s \in Simulator, InstantiateNext(s) PROVE LockTypes'
  <2>1. CASE InstantiateStale(s)
    BY <2>1 DEF InstantiateStale, Instantiating, Running, Return, nodeVars, wireVars,
        threadVars
  <2>2. CASE InstantiateBusy(s)
    BY <2>2 DEF InstantiateBusy, Instantiating, Running, Post, Return, simVars,
        nodeVars, wireVars, threadVars
  <2>3. CASE Refused(s)
    BY <2>3 DEF Refused, Requesting, Instantiating, Running, Return, nodeVars, wireVars,
        threadVars
  <2>4. CASE CreateMap(s)
    BY <2>4 DEF CreateMap, Requesting, Instantiating, Running, Wanted, Goto, simVars,
        nodeVars, wireVars
  <2>5. CASE MapCreated(s)
    BY <2>5 DEF MapCreated, Running, Wanted, Return, nodeVars, threadVars
  <2>6. CASE MapNotCreated(s)
    BY <2>6 DEF MapNotCreated, Running, Wanted, Return, nodeVars, wireVars
  <2>7. CASE JoinMap(s)
    BY <2>7 DEF JoinMap, Requesting, Instantiating, Running, Wanted, Return, nodeVars,
        threadVars
  <2> QED BY <1>7, <2>1, <2>2, <2>3, <2>4, <2>5, <2>6, <2>7 DEF InstantiateNext
<1>8. ASSUME NEW s \in Simulator, QuitNext(s) PROVE LockTypes'
  <2>1. CASE DeleteMap(s)
    BY <2>1 DEF DeleteMap, Requesting, Instantiating, Running, Wanted, Goto, simVars,
        nodeVars, threadVars
  <2>2. CASE QuitLock(s)
    BY <2>2 DEF QuitLock, Running, Wanted, Goto, simVars, nodeVars, threadVars
  <2>3. CASE QuitDone(s)
    BY <2>3 DEF QuitDone, Running, Wanted, Goto, simVars, nodeVars, threadVars
  <2>4. CASE MapDeleted(s)
    BY <2>4 DEF MapDeleted, Running, Wanted, Return, nodeVars
  <2>5. CASE \E t \in Simulator : AboutToFinish(s, t)
    BY <2>5 DEF AboutToFinish, Emitting, Running, Wanted, Notified, simVars, nodeVars,
        threadVars
  <2>6. CASE AboutDone(s)
    BY <2>6 DEF AboutDone, Running, Return, nodeVars, wireVars, threadVars
  <2>7. CASE (\E t \in Simulator : AboutToFinishPanics(s, t)) \/ (\E t \in Simulator :
            AboutToFinishNoNode(s, t)) \/ AboutReleased(s)
    BY <2>7 DEF AboutToFinishPanics, Notified, mainVars, simVars, lockVars, nodeVars,
        threadVars, AboutToFinishNoNode, AboutReleased, FreeNode, Goto, wireVars
  <2> QED BY <1>8, <2>1, <2>2, <2>3, <2>4, <2>5, <2>6, <2>7 DEF QuitNext
<1>9. ASSUME NEW s \in Simulator, FinalizeNext(s) PROVE LockTypes'
  <2>1. CASE FinalizeNoNode(s)
    BY <2>1 DEF FinalizeNoNode, Finalizing, Running, ShutDown, Post, Return, nodeVars,
        wireVars, threadVars
  <2>2. CASE FinalizeRelease(s)
    BY <2>2 DEF FinalizeRelease, Finalizing, Running, ShutDown, Goto, nodeVars,
        wireVars, threadVars
  <2>3. CASE FinalizeBusy(s)
    BY <2>3 DEF FinalizeBusy, Finalizing, Running, ShutDown, Goto, nodeVars, wireVars,
        threadVars
  <2>4. CASE FinalizeLater(s)
    BY <2>4 DEF FinalizeLater, Running, Post, Return, simVars, nodeVars, threadVars
  <2>5. CASE FinalizeReleased(s)
    BY <2>5 DEF FinalizeReleased, Running, FreeNode, Goto, simVars, wireVars, threadVars
  <2>6. CASE FinalizeDone(s)
    BY <2>6 DEF FinalizeDone, Running, Post, Return, nodeVars, wireVars, threadVars
  <2> QED BY <1>9, <2>1, <2>2, <2>3, <2>4, <2>5, <2>6 DEF FinalizeNext
<1> QED BY <1>1, <1>2, <1>3, <1>4, <1>5, <1>6, <1>7, <1>8, <1>9
  DEF Next, SlotNext, CommonNext, Stopped

\* The nodes, the managed maps and the connections of signals keep their types.
LEMMA MapTypesStep ==
  ASSUME TypeOK, [Next]_vars
  PROVE  MapTypes'
<1> USE ConstantsAssumption DEF TypeOK, MapTypes
<1>1. CASE UNCHANGED vars
  BY <1>1 DEF vars, mainVars, simVars, lockVars, nodeVars, wireVars, threadVars
<1>2. ASSUME NEW m \in MapThread, MapThreadNext(m) PROVE MapTypes'
  <2>1. CASE LockMapChanges(m)
    BY <2>1 DEF LockMapChanges, MoveTo, mainVars, simVars, nodeVars
  <2>2. CASE \E o \in Simulator : NotifyObserver(m, o)
    BY <2>2 DEF NotifyObserver, mainVars, simVars, lockVars, nodeVars, threadVars
  <2>3. CASE SetUp(m) \/ (\E n \in Node : FrameArrives(m, n)) \/ NotForSimulator(m) \/
            EmitFrameReceived(m) \/ TryMutex(m) \/ TryMayBlock(m) \/ Deliver(m) \/
            ServeSend(m) \/ ServeInvalid(m) \/ NotifyInvalid(m) \/ ServeChange(m) \/
            ChangeDone(m) \/ LeaveLoop(m)
    BY <2>3 DEF SetUp, MoveTo, mainVars, simVars, lockVars, nodeVars, wireVars,
        FrameArrives, NotForSimulator, EmitFrameReceived, TryMutex, TryMayBlock,
        Deliver, PostSendPending, ServeSend, Reply, ServeInvalid, NotifyInvalid,
        ServeChange, ChangeDone, LeaveLoop
  <2> QED BY <1>2, <2>1, <2>2, <2>3 DEF MapThreadNext
<1>3. ASSUME NEW s \in Simulator, ClientNext(s) PROVE MapTypes'
  BY <1>3, ClientFrame
<1>4. ASSUME NEW s \in Simulator, EventNext(s) PROVE MapTypes'
  <2>1. CASE Delete(s)
    BY <2>1 DEF Delete, ProcessingEvents, mainVars, nodeVars, threadVars
  <2>2. CASE Run(s) \/ DropFinalize(s) \/ (\E slot \in Slots : PostedSlot(s, slot))
    BY <2>2 DEF Run, mainVars, lockVars, nodeVars, wireVars, threadVars, DropFinalize,
        simVars, PostedSlot, Enter
  <2> QED BY <1>4, <2>1, <2>2 DEF EventNext
<1>5. ASSUME NEW s \in Simulator, CommonNext(s) PROVE MapTypes'
  BY <1>5, CommonFrame
<1>6. ASSUME NEW s \in Simulator, ReadNext(s) PROVE MapTypes'
  <2>1. CASE AcquireNode(s)
    BY <2>1 DEF AcquireNode, Running, Return, wireVars, threadVars
  <2>2. CASE ReadNothing(s) \/ ReadDisconnect(s) \/ ReadMapRequest(s) \/
            ReadNodeRequest(s) \/ NodeNotAvailable(s) \/ StartSimulation(s) \/
            EmitCommand(s) \/ CommandDone(s) \/ SendPending(s)
    BY <2>2 DEF ReadNothing, Return, simVars, nodeVars, wireVars, threadVars,
        ReadDisconnect, ReadMapRequest, Post, ReadNodeRequest, Goto, lockVars,
        NodeNotAvailable, StartSimulation, EmitCommand, CommandDone, PostSendPending,
        SendPending
  <2> QED BY <1>6, <2>1, <2>2 DEF ReadNext
<1>7. ASSUME NEW s \in Simulator, InstantiateNext(s) PROVE MapTypes'
  <2>1. CASE MapCreated(s)
    <3>1. listeners' \in [MapThread -> SUBSET Simulator]
      BY <2>1, AddReceiver DEF MapCreated
    <3>2. Wanted(s) \in MapThread
      BY <2>1, WantedType DEF MapCreated, Slots
    <3> QED BY <2>1, <3>1, <3>2 DEF MapCreated, nodeVars
  <2>2. CASE JoinMap(s)
    <3>1. listeners' = [listeners EXCEPT ![Wanted(s)] = @ \cup {s}]
      BY <2>2 DEF JoinMap
    <3>2. listeners' \in [MapThread -> SUBSET Simulator]
      BY <3>1, AddReceiver
    <3>3. observers' \in [MapThread -> SUBSET Simulator]
      BY <2>2, AddReceiver DEF JoinMap
    <3> QED BY <2>2, <3>2, <3>3 DEF JoinMap, nodeVars
  <2>3. CASE InstantiateStale(s) \/ InstantiateBusy(s) \/ Refused(s) \/ CreateMap(s) \/
            MapNotCreated(s)
    BY <2>3 DEF InstantiateStale, Return, nodeVars, wireVars, threadVars,
        InstantiateBusy, Post, simVars, Refused, CreateMap, Goto, MapNotCreated
  <2> QED BY <1>7, <2>1, <2>2, <2>3 DEF InstantiateNext
<1>8. ASSUME NEW s \in Simulator, QuitNext(s) PROVE MapTypes'
  <2>1. CASE DeleteMap(s)
    BY <2>1 DEF DeleteMap, Requesting, Instantiating, Running, Wanted, Goto, simVars,
        nodeVars, threadVars
  <2>2. CASE QuitLock(s)
    <3>1. Wanted(s) \in MapThread
      BY <2>2, WantedType DEF QuitLock, Slots
    <3>2. toNotify' \in [MapThread -> SUBSET Simulator]
      BY <2>2, <3>1 DEF QuitLock
    <3> QED BY <2>2, <3>2 DEF QuitLock, nodeVars
  <2>3. CASE QuitDone(s)
    <3>1. Wanted(s) \in MapThread
      BY <2>3, WantedType DEF QuitDone, Slots
    <3>2. quitting' \subseteq MapThread BY <2>3, <3>1 DEF QuitDone
    <3> QED BY <2>3, <3>2 DEF QuitDone, nodeVars
  <2>4. CASE MapDeleted(s)
    <3>1. /\ listeners' \in [MapThread -> SUBSET Simulator]
          /\ observers' \in [MapThread -> SUBSET Simulator]
      BY <2>4 DEF MapDeleted
    <3> QED BY <2>4, <3>1 DEF MapDeleted, nodeVars
  <2>5. CASE \E t \in Simulator : AboutToFinishPanics(s, t)
    <3>1. toNotify' \in [MapThread -> SUBSET Simulator]
      BY <2>5, DropReceiver DEF AboutToFinishPanics, Notified
    <3> QED BY <2>5, <3>1 DEF AboutToFinishPanics, nodeVars
  <2>6. CASE \E t \in Simulator : AboutToFinishNoNode(s, t)
    <3>1. toNotify' \in [MapThread -> SUBSET Simulator]
      BY <2>6, DropReceiver DEF AboutToFinishNoNode, Notified
    <3> QED BY <2>6, <3>1 DEF AboutToFinishNoNode, nodeVars
  <2>7. CASE \E t \in Simulator : AboutToFinish(s, t)
    <3>1. PICK t \in Simulator : AboutToFinish(s, t) BY <2>7
    <3>2. toNotify' \in [MapThread -> SUBSET Simulator]
      BY <3>1, DropReceiver DEF AboutToFinish, Notified
    <3> QED BY <3>1, <3>2 DEF AboutToFinish, nodeVars
  <2>8. CASE AboutReleased(s)
    BY <2>8 DEF AboutReleased, Running, FreeNode, Goto, simVars, lockVars, wireVars,
        threadVars
  <2>9. CASE AboutDone(s)
    BY <2>9 DEF AboutDone, Return, nodeVars, wireVars, threadVars
  <2> QED BY <1>8, <2>1, <2>2, <2>3, <2>4, <2>5, <2>6, <2>7, <2>8, <2>9 DEF QuitNext
<1>9. ASSUME NEW s \in Simulator, FinalizeNext(s) PROVE MapTypes'
  <2>1. CASE FinalizeLater(s)
    <3>1. listeners' \in [MapThread -> SUBSET Simulator]
      BY <2>1, AddReceiver DEF FinalizeLater
    <3> QED BY <2>1, <3>1 DEF FinalizeLater, nodeVars
  <2>2. CASE FinalizeReleased(s)
    BY <2>2 DEF FinalizeReleased, Running, FreeNode, Goto, simVars, wireVars, threadVars
  <2>3. CASE FinalizeNoNode(s) \/ FinalizeRelease(s) \/ FinalizeBusy(s) \/
            FinalizeDone(s)
    BY <2>3 DEF FinalizeNoNode, ShutDown, Post, Return, nodeVars, wireVars, threadVars,
        FinalizeRelease, Goto, FinalizeBusy, FinalizeDone
  <2> QED BY <1>9, <2>1, <2>2, <2>3 DEF FinalizeNext
<1> QED BY <1>1, <1>2, <1>3, <1>4, <1>5, <1>6, <1>7, <1>8, <1>9
  DEF Next, SlotNext, CommonNext, Stopped

\* The state of the map threads keeps its type.
LEMMA ThreadTypesStep ==
  ASSUME TypeOK, [Next]_vars
  PROVE  ThreadTypes'
<1> USE ConstantsAssumption DEF TypeOK, ThreadTypes, ThreadPlaces, AllCommands
<1>1. CASE UNCHANGED vars
  BY <1>1 DEF vars, mainVars, simVars, lockVars, nodeVars, wireVars, threadVars
<1>2. ASSUME NEW m \in MapThread, MapThreadNext(m) PROVE ThreadTypes'
  <2>1. CASE SetUp(m)
    BY <2>1 DEF SetUp, MoveTo, mainVars, simVars, lockVars, nodeVars, wireVars
  <2>2. CASE \E n \in Node : FrameArrives(m, n)
    BY <2>2 DEF FrameArrives, MoveTo, mainVars, simVars, nodeVars, wireVars
  <2>3. CASE NotForSimulator(m)
    BY <2>3 DEF NotForSimulator, MoveTo, mainVars, simVars, nodeVars, wireVars
  <2>4. CASE EmitFrameReceived(m)
    BY <2>4 DEF EmitFrameReceived, MoveTo, mainVars, simVars, lockVars, nodeVars,
        wireVars
  <2>5. CASE TryMutex(m)
    BY <2>5 DEF TryMutex, Target, MoveTo, mainVars, simVars, nodeVars, wireVars
  <2>6. CASE TryMayBlock(m)
    BY <2>6 DEF TryMayBlock, Target, MoveTo, mainVars, simVars, nodeVars, wireVars
  <2>7. CASE Deliver(m)
    BY <2>7 DEF Deliver, Target, PostSendPending, MoveTo, mainVars, simVars, nodeVars,
        wireVars
  <2>8. CASE ServeSend(m)
    BY <2>8 DEF ServeSend, Reply, MoveTo, mainVars, simVars, lockVars, nodeVars,
        wireVars
  <2>9. CASE ServeInvalid(m)
    BY <2>9 DEF ServeInvalid, MoveTo, mainVars, simVars, lockVars, nodeVars, wireVars
  <2>10. CASE NotifyInvalid(m)
    BY <2>10 DEF NotifyInvalid, Reply, MoveTo, mainVars, simVars, lockVars, nodeVars,
        wireVars
  <2>11. CASE ServeChange(m)
    BY <2>11 DEF ServeChange, MoveTo, mainVars, simVars, lockVars, nodeVars, wireVars
  <2>12. CASE LockMapChanges(m)
    BY <2>12 DEF LockMapChanges, MoveTo, mainVars, simVars, nodeVars
  <2>13. CASE \E o \in Simulator : NotifyObserver(m, o)
    BY <2>13 DEF NotifyObserver, mainVars, simVars, lockVars, nodeVars, threadVars
  <2>14. CASE ChangeDone(m)
    BY <2>14 DEF ChangeDone, Reply, MoveTo, mainVars, simVars, nodeVars, wireVars
  <2>15. CASE LeaveLoop(m)
    BY <2>15 DEF LeaveLoop, MoveTo, mainVars, simVars, lockVars, nodeVars, wireVars
  <2> QED BY <1>2, <2>1, <2>2, <2>3, <2>4, <2>5, <2>6, <2>7, <2>8, <2>9, <2>10, <2>11,
      <2>12, <2>13, <2>14, <2>15 DEF MapThreadNext
<1>3. ASSUME NEW s \in Simulator, ClientNext(s) PROVE ThreadTypes'
  <2>1. CASE SocketCloses(s)
    BY <2>1 DEF SocketCloses, Post, mainVars, lockVars, nodeVars, wireVars, threadVars
  <2>2. CASE DataArrives(s)
    BY <2>2 DEF DataArrives, Enter, ProcessingEvents, simVars, nodeVars, wireVars,
        threadVars
  <2> QED BY <1>3, <2>1, <2>2 DEF ClientNext
<1>4. ASSUME NEW s \in Simulator, EventNext(s) PROVE ThreadTypes'
  <2>1. CASE Run(s)
    BY <2>1 DEF Run, ProcessingEvents, mainVars, lockVars, nodeVars, wireVars,
        threadVars
  <2>2. CASE DropFinalize(s)
    BY <2>2 DEF DropFinalize, ProcessingEvents, mainVars, simVars, lockVars, nodeVars,
        wireVars, threadVars
  <2>3. CASE Delete(s)
    BY <2>3 DEF Delete, ProcessingEvents, mainVars, nodeVars, threadVars
  <2>4. CASE \E slot \in Slots : PostedSlot(s, slot)
    BY <2>4 DEF PostedSlot, Enter, ProcessingEvents, simVars, nodeVars, wireVars,
        threadVars
  <2> QED BY <1>4, <2>1, <2>2, <2>3, <2>4 DEF EventNext
<1>5. ASSUME NEW s \in Simulator, CommonNext(s) PROVE ThreadTypes'
  <2>1. CASE ReturnShuttingDown(s)
    BY <2>1 DEF ReturnShuttingDown, Running, Return, simVars, nodeVars, wireVars,
        threadVars
  <2>2. CASE Poll(s)
    BY <2>2 DEF Poll, Running, Goto, simVars, lockVars, nodeVars, wireVars, threadVars
  <2>3. CASE EventsProcessed(s)
    BY <2>3 DEF EventsProcessed, Running, Goto, simVars, lockVars, nodeVars, wireVars,
        threadVars
  <2> QED BY <1>5, <2>1, <2>2, <2>3 DEF CommonNext
<1>6. ASSUME NEW s \in Simulator, ReadNext(s) PROVE ThreadTypes'
  <2>1. CASE ReadNothing(s)
    BY <2>1 DEF ReadNothing, Reading, Running, Return, simVars, nodeVars, wireVars,
        threadVars
  <2>2. CASE ReadDisconnect(s)
    BY <2>2 DEF ReadDisconnect, Reading, Running, Return, nodeVars, wireVars, threadVars
  <2>3. CASE ReadMapRequest(s)
    BY <2>3 DEF ReadMapRequest, Reading, Running, Post, Return, nodeVars, wireVars,
        threadVars
  <2>4. CASE ReadNodeRequest(s)
    BY <2>4 DEF ReadNodeRequest, Reading, Running, Goto, lockVars, nodeVars, wireVars,
        threadVars
  <2>5. CASE AcquireNode(s)
    BY <2>5 DEF AcquireNode, Running, Return, wireVars, threadVars
  <2>6. CASE NodeNotAvailable(s)
    BY <2>6 DEF NodeNotAvailable, Running, Return, nodeVars, wireVars, threadVars
  <2>7. CASE StartSimulation(s)
    BY <2>7 DEF StartSimulation, Reading, Running, Return, nodeVars, wireVars,
        threadVars
  <2>8. CASE EmitCommand(s)
    <3>1. PICK c \in Commands :
              callCmd' = [callCmd EXCEPT ![hostOf[node[s]]] = c]
      BY <2>8 DEF EmitCommand
    <3>2. c \in AllCommands BY DEF AllCommands
    <3>3. callCmd' \in [MapThread -> AllCommands] BY <3>1, <3>2
    <3> QED BY <2>8, <3>3 DEF EmitCommand
  <2>9. CASE CommandDone(s)
    BY <2>9 DEF CommandDone, Running, PostSendPending, Return, simVars, nodeVars,
        wireVars, threadVars
  <2>10. CASE SendPending(s)
    BY <2>10 DEF SendPending, Running, Return, simVars, nodeVars, wireVars, threadVars
  <2> QED BY <1>6, <2>1, <2>2, <2>3, <2>4, <2>5, <2>6, <2>7, <2>8, <2>9, <2>10 DEF ReadNext
<1>7. ASSUME NEW s \in Simulator, InstantiateNext(s) PROVE ThreadTypes'
  <2>1. CASE InstantiateStale(s)
    BY <2>1 DEF InstantiateStale, Instantiating, Running, Return, nodeVars, wireVars,
        threadVars
  <2>2. CASE InstantiateBusy(s)
    BY <2>2 DEF InstantiateBusy, Instantiating, Running, Post, Return, simVars,
        nodeVars, wireVars, threadVars
  <2>3. CASE Refused(s)
    BY <2>3 DEF Refused, Requesting, Instantiating, Running, Return, nodeVars, wireVars,
        threadVars
  <2>4. CASE CreateMap(s)
    BY <2>4 DEF CreateMap, Requesting, Instantiating, Running, Wanted, Goto, simVars,
        nodeVars, wireVars
  <2>5. CASE MapCreated(s)
    BY <2>5 DEF MapCreated, Running, Wanted, Return, nodeVars, threadVars
  <2>6. CASE MapNotCreated(s)
    BY <2>6 DEF MapNotCreated, Running, Wanted, Return, nodeVars, wireVars
  <2>7. CASE JoinMap(s)
    BY <2>7 DEF JoinMap, Requesting, Instantiating, Running, Wanted, Return, nodeVars,
        threadVars
  <2> QED BY <1>7, <2>1, <2>2, <2>3, <2>4, <2>5, <2>6, <2>7 DEF InstantiateNext
<1>8. ASSUME NEW s \in Simulator, QuitNext(s) PROVE ThreadTypes'
  <2>1. CASE DeleteMap(s)
    BY <2>1 DEF DeleteMap, Requesting, Instantiating, Running, Wanted, Goto, simVars,
        nodeVars, threadVars
  <2>2. CASE QuitLock(s)
    BY <2>2 DEF QuitLock, Running, Wanted, Goto, simVars, nodeVars, threadVars
  <2>3. CASE QuitDone(s)
    BY <2>3 DEF QuitDone, Running, Wanted, Goto, simVars, nodeVars, threadVars
  <2>4. CASE MapDeleted(s)
    BY <2>4 DEF MapDeleted, Running, Wanted, Return, nodeVars
  <2>5. CASE \E t \in Simulator : AboutToFinishPanics(s, t)
    BY <2>5 DEF AboutToFinishPanics, Emitting, Running, Wanted, Notified, mainVars,
        simVars, lockVars, nodeVars, threadVars
  <2>6. CASE \E t \in Simulator : AboutToFinishNoNode(s, t)
    BY <2>6 DEF AboutToFinishNoNode, Emitting, Running, Wanted, Notified, mainVars,
        lockVars, nodeVars, threadVars
  <2>7. CASE \E t \in Simulator : AboutToFinish(s, t)
    BY <2>7 DEF AboutToFinish, Emitting, Running, Wanted, Notified, simVars, nodeVars,
        threadVars
  <2>8. CASE AboutReleased(s)
    BY <2>8 DEF AboutReleased, Running, FreeNode, Goto, simVars, lockVars, wireVars,
        threadVars
  <2>9. CASE AboutDone(s)
    BY <2>9 DEF AboutDone, Running, Return, nodeVars, wireVars, threadVars
  <2> QED BY <1>8, <2>1, <2>2, <2>3, <2>4, <2>5, <2>6, <2>7, <2>8, <2>9 DEF QuitNext
<1>9. ASSUME NEW s \in Simulator, FinalizeNext(s) PROVE ThreadTypes'
  <2>1. CASE FinalizeNoNode(s)
    BY <2>1 DEF FinalizeNoNode, Finalizing, Running, ShutDown, Post, Return, nodeVars,
        wireVars, threadVars
  <2>2. CASE FinalizeRelease(s)
    BY <2>2 DEF FinalizeRelease, Finalizing, Running, ShutDown, Goto, nodeVars,
        wireVars, threadVars
  <2>3. CASE FinalizeBusy(s)
    BY <2>3 DEF FinalizeBusy, Finalizing, Running, ShutDown, Goto, nodeVars, wireVars,
        threadVars
  <2>4. CASE FinalizeLater(s)
    BY <2>4 DEF FinalizeLater, Running, Post, Return, simVars, nodeVars, threadVars
  <2>5. CASE FinalizeReleased(s)
    BY <2>5 DEF FinalizeReleased, Running, FreeNode, Goto, simVars, wireVars, threadVars
  <2>6. CASE FinalizeDone(s)
    BY <2>6 DEF FinalizeDone, Running, Post, Return, nodeVars, wireVars, threadVars
  <2> QED BY <1>9, <2>1, <2>2, <2>3, <2>4, <2>5, <2>6 DEF FinalizeNext
<1> QED BY <1>1, <1>2, <1>3, <1>4, <1>5, <1>6, <1>7, <1>8, <1>9
  DEF Next, SlotNext, CommonNext, Stopped

\* A request is known before it is used and never forgotten.
LEMMA RequestKnownStep ==
  ASSUME TypeOK, [Next]_vars
  PROVE  RequestKnown'
<1> USE ConstantsAssumption DEF TypeOK, MainTypes, SimulatorTypes, RequestKnown, Slots,
    PollOf, TryPlaces, PollPlaces
<1>1. CASE UNCHANGED vars
  BY <1>1 DEF vars, mainVars, simVars, lockVars, nodeVars, wireVars, threadVars
<1>2. ASSUME NEW m \in MapThread, MapThreadNext(m) PROVE RequestKnown'
  BY <1>2, MapThreadFrame
<1>3. ASSUME NEW s \in Simulator, ClientNext(s) PROVE RequestKnown'
  <2>1. CASE DataArrives(s)
    BY <2>1 DEF DataArrives, Enter, ProcessingEvents, simVars, nodeVars, wireVars,
        threadVars
  <2>2. CASE SocketCloses(s)
    BY <2>2 DEF SocketCloses, Post, mainVars, lockVars, nodeVars, wireVars, threadVars
  <2> QED BY <1>3, <2>1, <2>2 DEF ClientNext
<1>4. ASSUME NEW s \in Simulator, EventNext(s) PROVE RequestKnown'
  <2>1. CASE Run(s)
    BY <2>1 DEF Run, ProcessingEvents, mainVars, lockVars, nodeVars, wireVars,
        threadVars
  <2>2. CASE \E slot \in Slots : PostedSlot(s, slot)
    BY <2>2 DEF PostedSlot, Enter, ProcessingEvents, simVars, nodeVars, wireVars,
        threadVars
  <2>3. CASE DropFinalize(s) \/ Delete(s)
    BY <2>3 DEF DropFinalize, mainVars, simVars, lockVars, nodeVars, wireVars,
        threadVars, Delete
  <2> QED BY <1>4, <2>1, <2>2, <2>3 DEF EventNext
<1>5. ASSUME NEW s \in Simulator, CommonNext(s) PROVE RequestKnown'
  <2>1. CASE ReturnShuttingDown(s)
    BY <2>1 DEF ReturnShuttingDown, Running, Return, simVars, nodeVars, wireVars,
        threadVars
  <2>2. CASE Poll(s)
    BY <2>2 DEF Poll, Running, Goto, simVars, lockVars, nodeVars, wireVars, threadVars
  <2>3. CASE EventsProcessed(s)
    BY <2>3 DEF EventsProcessed, Running, Goto, simVars, lockVars, nodeVars, wireVars,
        threadVars
  <2> QED BY <1>5, <2>1, <2>2, <2>3 DEF CommonNext
<1>6. ASSUME NEW s \in Simulator, ReadNext(s) PROVE RequestKnown'
  <2>1. CASE ReadNothing(s)
    BY <2>1 DEF ReadNothing, Reading, Running, Return, simVars, nodeVars, wireVars,
        threadVars
  <2>2. CASE ReadDisconnect(s)
    BY <2>2 DEF ReadDisconnect, Reading, Running, Return, nodeVars, wireVars, threadVars
  <2>3. CASE ReadMapRequest(s)
    <3>1. PICK r \in Requests[s] : request' = [request EXCEPT ![s] = r]
      BY <2>3 DEF ReadMapRequest
    <3>2. request'[s] # Nobody BY <3>1 DEF Kinds
    <3> QED BY <2>3, <3>1, <3>2 DEF ReadMapRequest, Return
  <2>4. CASE ReadNodeRequest(s)
    BY <2>4 DEF ReadNodeRequest, Reading, Running, Goto, lockVars, nodeVars, wireVars,
        threadVars
  <2>5. CASE AcquireNode(s)
    BY <2>5 DEF AcquireNode, Running, Return, wireVars, threadVars
  <2>6. CASE NodeNotAvailable(s)
    BY <2>6 DEF NodeNotAvailable, Running, Return, nodeVars, wireVars, threadVars
  <2>7. CASE StartSimulation(s)
    BY <2>7 DEF StartSimulation, Reading, Running, Return, nodeVars, wireVars,
        threadVars
  <2>8. CASE EmitCommand(s)
    BY <2>8 DEF EmitCommand, Reading, Running, Goto, simVars, nodeVars, wireVars
  <2>9. CASE CommandDone(s)
    BY <2>9 DEF CommandDone, Running, PostSendPending, Return, simVars, nodeVars,
        wireVars, threadVars
  <2>10. CASE SendPending(s)
    BY <2>10 DEF SendPending, Running, Return, simVars, nodeVars, wireVars, threadVars
  <2> QED BY <1>6, <2>1, <2>2, <2>3, <2>4, <2>5, <2>6, <2>7, <2>8, <2>9, <2>10 DEF ReadNext
<1>7. ASSUME NEW s \in Simulator, InstantiateNext(s) PROVE RequestKnown'
  <2>1. CASE InstantiateStale(s)
    BY <2>1 DEF InstantiateStale, Instantiating, Running, Return, nodeVars, wireVars,
        threadVars
  <2>2. CASE InstantiateBusy(s)
    BY <2>2 DEF InstantiateBusy, Instantiating, Running, Post, Return, simVars,
        nodeVars, wireVars, threadVars
  <2>3. CASE Refused(s)
    BY <2>3 DEF Refused, Requesting, Instantiating, Running, Return, nodeVars, wireVars,
        threadVars
  <2>4. CASE CreateMap(s)
    BY <2>4 DEF CreateMap, Requesting, Instantiating, Running, Wanted, Goto, simVars,
        nodeVars, wireVars
  <2>5. CASE MapCreated(s)
    BY <2>5 DEF MapCreated, Running, Wanted, Return, nodeVars, threadVars
  <2>6. CASE MapNotCreated(s)
    BY <2>6 DEF MapNotCreated, Running, Wanted, Return, nodeVars, wireVars
  <2>7. CASE JoinMap(s)
    BY <2>7 DEF JoinMap, Requesting, Instantiating, Running, Wanted, Return, nodeVars,
        threadVars
  <2> QED BY <1>7, <2>1, <2>2, <2>3, <2>4, <2>5, <2>6, <2>7 DEF InstantiateNext
<1>8. ASSUME NEW s \in Simulator, QuitNext(s) PROVE RequestKnown'
  <2>1. CASE DeleteMap(s)
    BY <2>1 DEF DeleteMap, Requesting, Instantiating, Running, Wanted, Goto, simVars,
        nodeVars, threadVars
  <2>2. CASE QuitLock(s)
    BY <2>2 DEF QuitLock, Running, Wanted, Goto, simVars, nodeVars, threadVars
  <2>3. CASE QuitDone(s)
    BY <2>3 DEF QuitDone, Running, Wanted, Goto, simVars, nodeVars, threadVars
  <2>4. CASE MapDeleted(s)
    BY <2>4 DEF MapDeleted, Running, Wanted, Return, nodeVars
  <2>5. CASE \E t \in Simulator : AboutToFinishNoNode(s, t)
    BY <2>5 DEF AboutToFinishNoNode, Emitting, Running, Wanted, Notified, mainVars,
        lockVars, nodeVars, threadVars
  <2>6. CASE \E t \in Simulator : AboutToFinish(s, t)
    BY <2>6 DEF AboutToFinish, Emitting, Running, Wanted, Notified, simVars, nodeVars,
        threadVars
  <2>7. CASE AboutReleased(s)
    BY <2>7 DEF AboutReleased, Running, FreeNode, Goto, simVars, lockVars, wireVars,
        threadVars
  <2>8. CASE AboutDone(s)
    BY <2>8 DEF AboutDone, Running, Return, nodeVars, wireVars, threadVars
  <2>9. CASE \E t \in Simulator : AboutToFinishPanics(s, t)
    BY <2>9 DEF AboutToFinishPanics, Notified, mainVars, simVars, lockVars, nodeVars,
        threadVars
  <2> QED BY <1>8, <2>1, <2>2, <2>3, <2>4, <2>5, <2>6, <2>7, <2>8, <2>9 DEF QuitNext
<1>9. ASSUME NEW s \in Simulator, FinalizeNext(s) PROVE RequestKnown'
  <2>1. CASE FinalizeNoNode(s)
    BY <2>1 DEF FinalizeNoNode, Finalizing, Running, ShutDown, Post, Return, nodeVars,
        wireVars, threadVars
  <2>2. CASE FinalizeRelease(s)
    BY <2>2 DEF FinalizeRelease, Finalizing, Running, ShutDown, Goto, nodeVars,
        wireVars, threadVars
  <2>3. CASE FinalizeBusy(s)
    BY <2>3 DEF FinalizeBusy, Finalizing, Running, ShutDown, Goto, nodeVars, wireVars,
        threadVars
  <2>4. CASE FinalizeLater(s)
    BY <2>4 DEF FinalizeLater, Running, Post, Return, simVars, nodeVars, threadVars
  <2>5. CASE FinalizeReleased(s)
    BY <2>5 DEF FinalizeReleased, Running, FreeNode, Goto, simVars, wireVars, threadVars
  <2>6. CASE FinalizeDone(s)
    BY <2>6 DEF FinalizeDone, Running, Post, Return, nodeVars, wireVars, threadVars
  <2> QED BY <1>9, <2>1, <2>2, <2>3, <2>4, <2>5, <2>6 DEF FinalizeNext
<1> QED BY <1>1, <1>2, <1>3, <1>4, <1>5, <1>6, <1>7, <1>8, <1>9
  DEF Next, SlotNext, CommonNext, Stopped

\* TypeOK, which the runs check, holds for every value of the constants: in no
\* reachable state has a variable an unexpected value, and a slot that uses the
\* map request of its client (mapFileName, creatorId, needNewMap) finds it set.
THEOREM TypeCorrect == Spec => []TypeOK
<1>1. Init => TypeOK BY TypeInit
<1>2. TypeOK /\ [Next]_vars => TypeOK'
  <2> SUFFICES ASSUME TypeOK, [Next]_vars PROVE TypeOK'
    OBVIOUS
  <2>1. MainTypes' BY MainTypesStep
  <2>2. SimulatorTypes' BY SimulatorTypesStep
  <2>3. LockTypes' BY LockTypesStep
  <2>4. MapTypes' BY MapTypesStep
  <2>5. ThreadTypes' BY ThreadTypesStep
  <2>6. RequestKnown' BY RequestKnownStep
  <2> QED BY <2>1, <2>2, <2>3, <2>4, <2>5, <2>6 DEF TypeOK
<1> QED BY <1>1, <1>2, PTL DEF Spec

-----------------------------------------------------------------------------
(* The stack of activations.                                               *)

\* What remains when the running slot ends.
LEMMA PopStack ==
  ASSUME stack \in Seq(Simulator), stack # <<>>, stack' = Tail(stack)
  PROVE  /\ Len(stack') = Len(stack) - 1
         /\ \A i \in 1..Len(stack') : stack'[i] = stack[i + 1]
OBVIOUS

\* What the stack is when a slot starts.
LEMMA PushStack ==
  ASSUME stack \in Seq(Simulator), NEW s \in Simulator, stack' = <<s>> \o stack
  PROVE  /\ Len(stack') = Len(stack) + 1
         /\ stack'[1] = s
         /\ \A i \in 2..Len(stack') : stack'[i] = stack[i - 1]
<1>1. Len(stack') = Len(stack) + 1 OBVIOUS
<1>2. stack'[1] = s OBVIOUS
<1>3. ASSUME NEW i \in 2..Len(stack') PROVE stack'[i] = stack[i - 1]
  BY <1>1
<1> QED BY <1>1, <1>2, <1>3

\* A slot that ends uncovers the one that waits below it.
LEMMA StackReturn ==
  ASSUME TypeOK, OneSlotEach, NestedPlaces,
         NEW s \in Simulator, Running(s), pc[s] # "idle", Return(s)
  PROVE  OneSlotEach' /\ NestedPlaces'
<1> USE ConstantsAssumption DEF TypeOK, MainTypes, LockTypes, Running, Return
<1>1. /\ Len(stack) \in Nat /\ Len(stack) # 0 /\ stack[1] = s
      /\ Len(stack') = Len(stack) - 1
      /\ \A i \in 1..Len(stack') : stack'[i] = stack[i + 1]
  BY PopStack
<1>2. ASSUME NEW i \in 2..Len(stack), stack[i] = s PROVE FALSE
  <2>1. i \in 1..Len(stack) /\ 1 \in 1..Len(stack) BY <1>1
  <2>2. stack[i] = stack[1] BY <1>1, <1>2
  <2>3. \A j, k \in 1..Len(stack) : stack[j] = stack[k] => j = k
    BY DEF OneSlotEach
  <2>4. i = 1 BY <2>1, <2>2, <2>3
  <2> QED BY <2>4
<1>3. OneSlotEach'
  <2>1. ASSUME NEW t \in Simulator PROVE simLock'[t] = Main <=> pc'[t] # "idle"
    BY DEF OneSlotEach
  <2>2. ASSUME NEW t \in Simulator
        PROVE  pc'[t] # "idle" <=> \E i \in 1..Len(stack') : stack'[i] = t
    <3>1. CASE t = s BY <1>1, <1>2, <3>1
    <3>2. CASE t # s
      <4>1. pc[t] # "idle" <=> \E i \in 1..Len(stack) : stack[i] = t
        BY DEF OneSlotEach
      <4>2. ASSUME NEW i \in 1..Len(stack), stack[i] = t
            PROVE  i - 1 \in 1..Len(stack') /\ stack'[i - 1] = t
        BY <1>1, <3>2, <4>2
      <4>3. ASSUME NEW i \in 1..Len(stack'), stack'[i] = t
            PROVE  i + 1 \in 1..Len(stack) /\ stack[i + 1] = t
        BY <1>1, <4>3
      <4>4. pc'[t] = pc[t] BY <3>2
      <4> QED BY <4>1, <4>2, <4>3, <4>4
    <3> QED BY <3>1, <3>2
  <2>3. ASSUME NEW i \in 1..Len(stack'), NEW j \in 1..Len(stack'), stack'[i] = stack'[j]
        PROVE  i = j
    <3>1. i + 1 \in 1..Len(stack) /\ j + 1 \in 1..Len(stack) BY <1>1
    <3>2. stack[i + 1] = stack[j + 1] BY <1>1, <2>3
    <3> QED BY <3>1, <3>2 DEF OneSlotEach
  <2> QED BY <2>1, <2>2, <2>3 DEF OneSlotEach
<1>4. NestedPlaces'
  <2>1. ASSUME NEW i \in 2..Len(stack')
        PROVE  pc'[stack'[i]] \in PollPlaces \cup {"quitEmit"}
    <3>1. i + 1 \in 2..Len(stack) /\ i \in 1..Len(stack') BY <1>1
    <3>2. stack'[i] = stack[i + 1] BY <1>1, <3>1
    <3>3. pc'[stack[i + 1]] = pc[stack[i + 1]] BY <1>2, <3>1
    <3> QED BY <3>1, <3>2, <3>3 DEF NestedPlaces
  <2> QED BY <2>1 DEF NestedPlaces
<1> QED BY <1>3, <1>4

\* A slot starts when the mutex of its simulator is free and the slot below waits.
LEMMA StackStart ==
  ASSUME TypeOK, OneSlotEach, NestedPlaces,
         NEW s \in Simulator, simLock[s] = Nobody,
         stack # <<>> => pc[Head(stack)] \in PollPlaces \cup {"quitEmit"},
         NEW place \in Places, place # "idle",
         stack' = <<s>> \o stack, pc' = [pc EXCEPT ![s] = place],
         simLock' = [simLock EXCEPT ![s] = Main]
  PROVE  OneSlotEach' /\ NestedPlaces'
<1> USE ConstantsAssumption DEF TypeOK, MainTypes, LockTypes
<1>1. /\ Len(stack) \in Nat
      /\ Len(stack') = Len(stack) + 1 /\ stack'[1] = s
      /\ \A i \in 2..Len(stack') : stack'[i] = stack[i - 1]
  BY PushStack
<1>2. pc[s] = "idle" /\ \A i \in 1..Len(stack) : stack[i] # s
  BY DEF OneSlotEach
<1>3. OneSlotEach'
  <2>1. ASSUME NEW t \in Simulator PROVE simLock'[t] = Main <=> pc'[t] # "idle"
    BY DEF OneSlotEach
  <2>2. ASSUME NEW t \in Simulator
        PROVE  pc'[t] # "idle" <=> \E i \in 1..Len(stack') : stack'[i] = t
    <3>1. CASE t = s BY <1>1, <3>1
    <3>2. CASE t # s
      <4>1. pc[t] # "idle" <=> \E i \in 1..Len(stack) : stack[i] = t
        BY DEF OneSlotEach
      <4>2. ASSUME NEW i \in 1..Len(stack), stack[i] = t
            PROVE  i + 1 \in 1..Len(stack') /\ stack'[i + 1] = t
        BY <1>1, <4>2
      <4>3. ASSUME NEW i \in 1..Len(stack'), stack'[i] = t
            PROVE  i - 1 \in 1..Len(stack) /\ stack[i - 1] = t
        BY <1>1, <3>2, <4>3
      <4>4. pc'[t] = pc[t] BY <3>2
      <4> QED BY <4>1, <4>2, <4>3, <4>4
    <3> QED BY <3>1, <3>2
  <2>3. ASSUME NEW i \in 1..Len(stack'), NEW j \in 1..Len(stack'), stack'[i] = stack'[j]
        PROVE  i = j
    <3>0. \A k \in 2..Len(stack') : stack'[k] # s
      <4>1. \A k \in 2..Len(stack') : k - 1 \in 1..Len(stack) BY <1>1
      <4> QED BY <4>1, <1>1, <1>2
    <3>1. CASE i = 1 \/ j = 1
      <4>1. i = 1 \/ i \in 2..Len(stack') OBVIOUS
      <4>2. j = 1 \/ j \in 2..Len(stack') OBVIOUS
      <4> QED BY <1>1, <2>3, <3>0, <3>1, <4>1, <4>2
    <3>2. CASE i # 1 /\ j # 1
      <4>1. i - 1 \in 1..Len(stack) /\ j - 1 \in 1..Len(stack) BY <1>1, <3>2
      <4>2. stack[i - 1] = stack[j - 1] BY <1>1, <2>3, <3>2
      <4> QED BY <4>1, <4>2 DEF OneSlotEach
    <3> QED BY <3>1, <3>2
  <2> QED BY <2>1, <2>2, <2>3 DEF OneSlotEach
<1>4. NestedPlaces'
  <2>1. ASSUME NEW i \in 2..Len(stack')
        PROVE  pc'[stack'[i]] \in PollPlaces \cup {"quitEmit"}
    <3>1. i - 1 \in 1..Len(stack) /\ stack'[i] = stack[i - 1] BY <1>1
    <3>2. pc'[stack[i - 1]] = pc[stack[i - 1]] BY <1>2, <3>1
    <3>3. CASE i = 2 BY <1>1, <3>1, <3>2, <3>3
    <3>4. CASE i # 2 BY <3>1, <3>2, <3>4 DEF NestedPlaces
    <3> QED BY <3>3, <3>4
  <2> QED BY <2>1 DEF NestedPlaces
<1> QED BY <1>3, <1>4

\* The running slot moves on and keeps its mutex.
LEMMA StackGoto ==
  ASSUME TypeOK, OneSlotEach, NestedPlaces,
         NEW s \in Simulator, Running(s), NEW place \in Places, place # "idle",
         Goto(s, place), simLock' = simLock
  PROVE  OneSlotEach' /\ NestedPlaces'
<1> USE ConstantsAssumption DEF TypeOK, MainTypes, LockTypes, Running, Goto
<1>1. Len(stack) \in Nat /\ Len(stack) # 0 /\ stack[1] = s
  OBVIOUS
<1>2. pc[s] # "idle" /\ \A i \in 2..Len(stack) : stack[i] # s
  BY <1>1 DEF OneSlotEach
<1>3. OneSlotEach' BY <1>2 DEF OneSlotEach
<1>4. NestedPlaces' BY <1>2 DEF NestedPlaces
<1> QED BY <1>3, <1>4

\* While the main thread handles events, every active slot waits.
LEMMA InEvents ==
  ASSUME TypeOK, OneSlotEach, NestedPlaces, ProcessingEvents, NEW t \in Simulator
  PROVE  pc[t] \in PollPlaces \cup {"idle", "quitEmit"}
<1> USE DEF TypeOK, MainTypes, ProcessingEvents
<1>1. CASE pc[t] # "idle"
  <2>1. PICK i \in 1..Len(stack) : stack[i] = t BY <1>1 DEF OneSlotEach
  <2>2. CASE i = 1 BY <2>1, <2>2
  <2>3. CASE i # 1 BY <2>1, <2>3 DEF NestedPlaces
  <2> QED BY <2>2, <2>3
<1> QED BY <1>1

-----------------------------------------------------------------------------
(* One lemma for each part of the invariant.                               *)

\* Slots nest only where the code lets them, each under its simulator's mutex.
LEMMA ActivationsStep ==
  ASSUME TypeOK, OneSlotEach, NestedPlaces, Delivering, [Next]_vars
  PROVE  OneSlotEach' /\ NestedPlaces'
<1> USE ConstantsAssumption DEF Slots, TryPlaces, PollPlaces, LentPlaces, Places
<1>1. CASE UNCHANGED vars
  BY <1>1 DEF vars, mainVars, lockVars, OneSlotEach, NestedPlaces
<1>2. ASSUME NEW m \in MapThread, MapThreadNext(m)
      PROVE  OneSlotEach' /\ NestedPlaces'
  <2>1. CASE TryMutex(m)
    BY <2>1 DEF TryMutex, Target, MoveTo, mainVars, simVars, nodeVars, wireVars,
        OneSlotEach, NestedPlaces, Delivering, TypeOK, LockTypes
  <2>2. CASE Deliver(m)
    BY <2>2 DEF Deliver, Target, PostSendPending, MoveTo, mainVars, simVars, nodeVars,
        wireVars, OneSlotEach, NestedPlaces, Delivering, TypeOK, LockTypes
  <2>3. CASE SetUp(m) \/ (\E n \in Node : FrameArrives(m, n)) \/ NotForSimulator(m) \/
            EmitFrameReceived(m) \/ TryMayBlock(m) \/ ServeSend(m) \/ ServeInvalid(m) \/
            NotifyInvalid(m) \/ ServeChange(m) \/ LockMapChanges(m) \/ (\E o \in
            Simulator : NotifyObserver(m, o)) \/ ChangeDone(m) \/ LeaveLoop(m)
    BY <2>3 DEF SetUp, MoveTo, mainVars, simVars, lockVars, nodeVars, wireVars,
        FrameArrives, NotForSimulator, EmitFrameReceived, TryMayBlock, Target,
        ServeSend, Reply, ServeInvalid, NotifyInvalid, ServeChange, LockMapChanges,
        NotifyObserver, threadVars, ChangeDone, LeaveLoop, OneSlotEach, NestedPlaces
  <2> QED BY <1>2, <2>1, <2>2, <2>3 DEF MapThreadNext
<1>3. ASSUME NEW s \in Simulator, ClientNext(s)
      PROVE  OneSlotEach' /\ NestedPlaces'
  <2>1. CASE DataArrives(s)
    BY <2>1, StackStart DEF DataArrives, Enter, ProcessingEvents
  <2>2. CASE SocketCloses(s)
    BY <2>2 DEF SocketCloses, Post, mainVars, lockVars, nodeVars, wireVars, threadVars,
        OneSlotEach, NestedPlaces
  <2> QED BY <1>3, <2>1, <2>2 DEF ClientNext
<1>4. ASSUME NEW s \in Simulator, EventNext(s)
      PROVE  OneSlotEach' /\ NestedPlaces'
  <2>1. CASE \E slot \in Slots : PostedSlot(s, slot)
    BY <2>1, StackStart DEF PostedSlot, Enter, ProcessingEvents
  <2>2. CASE Run(s) \/ DropFinalize(s) \/ Delete(s)
    BY <2>2 DEF Run, mainVars, lockVars, nodeVars, wireVars, threadVars, DropFinalize,
        simVars, Delete, OneSlotEach, NestedPlaces
  <2> QED BY <1>4, <2>1, <2>2 DEF EventNext
<1>5. ASSUME NEW s \in Simulator, CommonNext(s)
      PROVE  OneSlotEach' /\ NestedPlaces'
  <2>1. CASE ReturnShuttingDown(s)
    BY <2>1, StackReturn DEF ReturnShuttingDown
  <2>2. CASE Poll(s)
    BY <2>2, StackGoto DEF Poll, lockVars, PollOf
  <2>3. CASE EventsProcessed(s)
    BY <2>3, StackGoto DEF EventsProcessed, lockVars, PollOf
  <2> QED BY <1>5, <2>1, <2>2, <2>3 DEF CommonNext
<1>6. ASSUME NEW s \in Simulator, ReadNext(s)
      PROVE  OneSlotEach' /\ NestedPlaces'
  <2>1. CASE ReadNothing(s)
    BY <2>1, StackReturn DEF ReadNothing, Reading
  <2>2. CASE ReadDisconnect(s)
    BY <2>2, StackReturn DEF ReadDisconnect, Reading
  <2>3. CASE ReadMapRequest(s)
    BY <2>3, StackReturn DEF ReadMapRequest, Reading, Post
  <2>4. CASE ReadNodeRequest(s)
    BY <2>4, StackGoto DEF ReadNodeRequest, Reading, lockVars
  <2>5. CASE AcquireNode(s)
    BY <2>5, StackReturn DEF AcquireNode
  <2>6. CASE NodeNotAvailable(s)
    BY <2>6, StackReturn DEF NodeNotAvailable
  <2>7. CASE StartSimulation(s)
    BY <2>7, StackReturn DEF StartSimulation, Reading
  <2>8. CASE EmitCommand(s)
    BY <2>8, StackGoto DEF EmitCommand, Reading
  <2>9. CASE CommandDone(s)
    BY <2>9, StackReturn DEF CommandDone, PostSendPending
  <2>10. CASE SendPending(s)
    BY <2>10, StackReturn DEF SendPending
  <2> QED BY <1>6, <2>1, <2>2, <2>3, <2>4, <2>5, <2>6, <2>7, <2>8, <2>9, <2>10 DEF ReadNext
<1>7. ASSUME NEW s \in Simulator, InstantiateNext(s)
      PROVE  OneSlotEach' /\ NestedPlaces'
  <2>1. CASE InstantiateStale(s)
    BY <2>1, StackReturn DEF InstantiateStale, Instantiating
  <2>2. CASE InstantiateBusy(s)
    BY <2>2, StackReturn DEF InstantiateBusy, Instantiating, Post
  <2>3. CASE Refused(s)
    BY <2>3, StackReturn DEF Refused, Requesting, Instantiating
  <2>4. CASE CreateMap(s)
    BY <2>4, StackGoto DEF CreateMap, Requesting, Instantiating, Wanted
  <2>5. CASE MapCreated(s)
    BY <2>5, StackReturn DEF MapCreated, Wanted
  <2>6. CASE MapNotCreated(s)
    BY <2>6, StackReturn DEF MapNotCreated, Wanted
  <2>7. CASE JoinMap(s)
    BY <2>7, StackReturn DEF JoinMap, Requesting, Instantiating, Wanted
  <2> QED BY <1>7, <2>1, <2>2, <2>3, <2>4, <2>5, <2>6, <2>7 DEF InstantiateNext
<1>8. ASSUME NEW s \in Simulator, QuitNext(s)
      PROVE  OneSlotEach' /\ NestedPlaces'
  <2>1. CASE DeleteMap(s)
    BY <2>1, StackGoto DEF DeleteMap, Requesting, Instantiating, Wanted
  <2>2. CASE QuitLock(s)
    BY <2>2, StackGoto DEF QuitLock, Wanted
  <2>3. CASE QuitDone(s)
    BY <2>3, StackGoto DEF QuitDone, Wanted
  <2>4. CASE MapDeleted(s)
    BY <2>4, StackReturn DEF MapDeleted, Wanted
  <2>5. CASE \E t \in Simulator : AboutToFinish(s, t)
    BY <2>5, StackStart DEF AboutToFinish, Emitting, Running, Wanted, Notified
  <2>6. CASE AboutReleased(s)
    BY <2>6, StackGoto DEF AboutReleased, FreeNode, lockVars
  <2>7. CASE AboutDone(s)
    BY <2>7, StackReturn DEF AboutDone
  <2>8. CASE (\E t \in Simulator : AboutToFinishPanics(s, t)) \/ (\E t \in Simulator :
            AboutToFinishNoNode(s, t))
    BY <2>8 DEF AboutToFinishPanics, Notified, mainVars, simVars, lockVars, nodeVars,
        threadVars, AboutToFinishNoNode, OneSlotEach, NestedPlaces
  <2> QED BY <1>8, <2>1, <2>2, <2>3, <2>4, <2>5, <2>6, <2>7, <2>8 DEF QuitNext
<1>9. ASSUME NEW s \in Simulator, FinalizeNext(s)
      PROVE  OneSlotEach' /\ NestedPlaces'
  <2>1. CASE FinalizeNoNode(s)
    BY <2>1, StackReturn DEF FinalizeNoNode, Finalizing, ShutDown, Post
  <2>2. CASE FinalizeRelease(s)
    BY <2>2, StackGoto DEF FinalizeRelease, Finalizing, ShutDown
  <2>3. CASE FinalizeBusy(s)
    BY <2>3, StackGoto DEF FinalizeBusy, Finalizing, ShutDown
  <2>4. CASE FinalizeLater(s)
    BY <2>4, StackReturn DEF FinalizeLater, Post
  <2>5. CASE FinalizeReleased(s)
    BY <2>5, StackGoto DEF FinalizeReleased, FreeNode
  <2>6. CASE FinalizeDone(s)
    BY <2>6, StackReturn DEF FinalizeDone, Post
  <2> QED BY <1>9, <2>1, <2>2, <2>3, <2>4, <2>5, <2>6 DEF FinalizeNext
<1> QED BY <1>1, <1>2, <1>3, <1>4, <1>5, <1>6, <1>7, <1>8, <1>9
  DEF Next, SlotNext, CommonNext, Stopped

\* mayBlock changes hands only with the places where slots lend it.
LEMMA MainHoldsStep ==
  ASSUME TypeOK, OneSlotEach, MainHolds, Leaving, [Next]_vars
  PROVE  MainHolds'
<1> USE ConstantsAssumption DEF TypeOK, MainTypes, SimulatorTypes, LockTypes,
    OneSlotEach, MainHolds, Leaving, Slots, TryPlaces, PollPlaces, LentPlaces, PollOf
<1>1. CASE UNCHANGED vars
  BY <1>1 DEF vars, mainVars, simVars, lockVars, nodeVars, wireVars, threadVars
<1>2. ASSUME NEW m \in MapThread, MapThreadNext(m) PROVE MainHolds'
  <2>1. CASE TryMayBlock(m)
    BY <2>1 DEF TryMayBlock, Target, MoveTo, mainVars, simVars, nodeVars, wireVars
  <2>2. CASE Deliver(m)
    BY <2>2 DEF Deliver, Target, PostSendPending, MoveTo, mainVars, simVars, nodeVars,
        wireVars
  <2>3. CASE SetUp(m) \/ (\E n \in Node : FrameArrives(m, n)) \/ NotForSimulator(m) \/
            EmitFrameReceived(m) \/ TryMutex(m) \/ ServeSend(m) \/ ServeInvalid(m) \/
            NotifyInvalid(m) \/ ServeChange(m) \/ LockMapChanges(m) \/ (\E o \in
            Simulator : NotifyObserver(m, o)) \/ ChangeDone(m) \/ LeaveLoop(m)
    BY <2>3 DEF SetUp, MoveTo, mainVars, simVars, lockVars, nodeVars, wireVars,
        FrameArrives, NotForSimulator, EmitFrameReceived, TryMutex, ServeSend, Reply,
        ServeInvalid, NotifyInvalid, ServeChange, LockMapChanges, NotifyObserver,
        threadVars, ChangeDone, LeaveLoop
  <2> QED BY <1>2, <2>1, <2>2, <2>3 DEF MapThreadNext
<1>3. ASSUME NEW s \in Simulator, ClientNext(s) PROVE MainHolds'
  <2>1. CASE DataArrives(s)
    BY <2>1 DEF DataArrives, Enter, ProcessingEvents, simVars, nodeVars, wireVars,
        threadVars
  <2>2. CASE SocketCloses(s)
    BY <2>2 DEF SocketCloses, Post, mainVars, lockVars, nodeVars, wireVars, threadVars
  <2> QED BY <1>3, <2>1, <2>2 DEF ClientNext
<1>4. ASSUME NEW s \in Simulator, EventNext(s) PROVE MainHolds'
  <2>1. CASE Delete(s)
    BY <2>1 DEF Delete, ProcessingEvents, mainVars, nodeVars, threadVars
  <2>2. CASE \E slot \in Slots : PostedSlot(s, slot)
    BY <2>2 DEF PostedSlot, Enter, ProcessingEvents, simVars, nodeVars, wireVars,
        threadVars
  <2>3. CASE Run(s) \/ DropFinalize(s)
    BY <2>3 DEF Run, mainVars, lockVars, nodeVars, wireVars, threadVars, DropFinalize,
        simVars
  <2> QED BY <1>4, <2>1, <2>2, <2>3 DEF EventNext
<1>5. ASSUME NEW s \in Simulator, CommonNext(s) PROVE MainHolds'
  <2>1. CASE ReturnShuttingDown(s)
    BY <2>1 DEF ReturnShuttingDown, Running, Return, simVars, nodeVars, wireVars,
        threadVars
  <2>2. CASE Poll(s)
    BY <2>2 DEF Poll, Running, Goto, simVars, lockVars, nodeVars, wireVars, threadVars
  <2>3. CASE EventsProcessed(s)
    BY <2>3 DEF EventsProcessed, Running, Goto, simVars, lockVars, nodeVars, wireVars,
        threadVars
  <2> QED BY <1>5, <2>1, <2>2, <2>3 DEF CommonNext
<1>6. ASSUME NEW s \in Simulator, ReadNext(s) PROVE MainHolds'
  <2>1. CASE ReadNothing(s)
    BY <2>1 DEF ReadNothing, Reading, Running, Return, simVars, nodeVars, wireVars,
        threadVars
  <2>2. CASE ReadDisconnect(s)
    BY <2>2 DEF ReadDisconnect, Reading, Running, Return, nodeVars, wireVars, threadVars
  <2>3. CASE ReadMapRequest(s)
    BY <2>3 DEF ReadMapRequest, Reading, Running, Post, Return, nodeVars, wireVars,
        threadVars
  <2>4. CASE ReadNodeRequest(s)
    BY <2>4 DEF ReadNodeRequest, Reading, Running, Goto, lockVars, nodeVars, wireVars,
        threadVars
  <2>5. CASE AcquireNode(s)
    BY <2>5 DEF AcquireNode, Running, Return, wireVars, threadVars
  <2>6. CASE NodeNotAvailable(s)
    BY <2>6 DEF NodeNotAvailable, Running, Return, nodeVars, wireVars, threadVars
  <2>7. CASE StartSimulation(s)
    BY <2>7 DEF StartSimulation, Reading, Running, Return, nodeVars, wireVars,
        threadVars
  <2>8. CASE EmitCommand(s)
    BY <2>8 DEF EmitCommand, Reading, Running, Goto, simVars, nodeVars, wireVars
  <2>9. CASE CommandDone(s)
    BY <2>9 DEF CommandDone, Running, PostSendPending, Return, simVars, nodeVars,
        wireVars, threadVars
  <2>10. CASE SendPending(s)
    BY <2>10 DEF SendPending, Running, Return, simVars, nodeVars, wireVars, threadVars
  <2> QED BY <1>6, <2>1, <2>2, <2>3, <2>4, <2>5, <2>6, <2>7, <2>8, <2>9, <2>10 DEF ReadNext
<1>7. ASSUME NEW s \in Simulator, InstantiateNext(s) PROVE MainHolds'
  <2>1. CASE InstantiateStale(s)
    BY <2>1 DEF InstantiateStale, Instantiating, Running, Return, nodeVars, wireVars,
        threadVars
  <2>2. CASE InstantiateBusy(s)
    BY <2>2 DEF InstantiateBusy, Instantiating, Running, Post, Return, simVars,
        nodeVars, wireVars, threadVars
  <2>3. CASE Refused(s)
    BY <2>3 DEF Refused, Requesting, Instantiating, Running, Return, nodeVars, wireVars,
        threadVars
  <2>4. CASE CreateMap(s)
    BY <2>4 DEF CreateMap, Requesting, Instantiating, Running, Wanted, Goto, simVars,
        nodeVars, wireVars
  <2>5. CASE MapCreated(s)
    BY <2>5 DEF MapCreated, Running, Wanted, Return, nodeVars, threadVars
  <2>6. CASE MapNotCreated(s)
    BY <2>6 DEF MapNotCreated, Running, Wanted, Return, nodeVars, wireVars
  <2>7. CASE JoinMap(s)
    BY <2>7 DEF JoinMap, Requesting, Instantiating, Running, Wanted, Return, nodeVars,
        threadVars
  <2> QED BY <1>7, <2>1, <2>2, <2>3, <2>4, <2>5, <2>6, <2>7 DEF InstantiateNext
<1>8. ASSUME NEW s \in Simulator, QuitNext(s) PROVE MainHolds'
  <2>1. CASE DeleteMap(s)
    BY <2>1 DEF DeleteMap, Requesting, Instantiating, Running, Wanted, Goto, simVars,
        nodeVars, threadVars
  <2>2. CASE QuitLock(s)
    BY <2>2 DEF QuitLock, Running, Wanted, Goto, simVars, nodeVars, threadVars
  <2>3. CASE QuitDone(s)
    BY <2>3 DEF QuitDone, Running, Wanted, Goto, simVars, nodeVars, threadVars
  <2>4. CASE MapDeleted(s)
    BY <2>4 DEF MapDeleted, Running, Wanted, Return, nodeVars
  <2>5. CASE \E t \in Simulator : AboutToFinish(s, t)
    BY <2>5 DEF AboutToFinish, Emitting, Running, Wanted, Notified, simVars, nodeVars,
        threadVars
  <2>6. CASE AboutReleased(s)
    BY <2>6 DEF AboutReleased, Running, FreeNode, Goto, simVars, lockVars, wireVars,
        threadVars
  <2>7. CASE AboutDone(s)
    BY <2>7 DEF AboutDone, Running, Return, nodeVars, wireVars, threadVars
  <2>8. CASE (\E t \in Simulator : AboutToFinishPanics(s, t)) \/ (\E t \in Simulator :
            AboutToFinishNoNode(s, t))
    BY <2>8 DEF AboutToFinishPanics, Notified, mainVars, simVars, lockVars, nodeVars,
        threadVars, AboutToFinishNoNode
  <2> QED BY <1>8, <2>1, <2>2, <2>3, <2>4, <2>5, <2>6, <2>7, <2>8 DEF QuitNext
<1>9. ASSUME NEW s \in Simulator, FinalizeNext(s) PROVE MainHolds'
  <2>1. CASE FinalizeNoNode(s)
    BY <2>1 DEF FinalizeNoNode, Finalizing, Running, ShutDown, Post, Return, nodeVars,
        wireVars, threadVars
  <2>2. CASE FinalizeRelease(s)
    BY <2>2 DEF FinalizeRelease, Finalizing, Running, ShutDown, Goto, nodeVars,
        wireVars, threadVars
  <2>3. CASE FinalizeBusy(s)
    BY <2>3 DEF FinalizeBusy, Finalizing, Running, ShutDown, Goto, nodeVars, wireVars,
        threadVars
  <2>4. CASE FinalizeLater(s)
    BY <2>4 DEF FinalizeLater, Running, Post, Return, simVars, nodeVars, threadVars
  <2>5. CASE FinalizeReleased(s)
    BY <2>5 DEF FinalizeReleased, Running, FreeNode, Goto, simVars, wireVars, threadVars
  <2>6. CASE FinalizeDone(s)
    BY <2>6 DEF FinalizeDone, Running, Post, Return, nodeVars, wireVars, threadVars
  <2> QED BY <1>9, <2>1, <2>2, <2>3, <2>4, <2>5, <2>6 DEF FinalizeNext
<1> QED BY <1>1, <1>2, <1>3, <1>4, <1>5, <1>6, <1>7, <1>8, <1>9
  DEF Next, SlotNext, CommonNext, Stopped

\* Once finalize () is through, nothing brings the simulator back to life.
LEMMA LeavingStep ==
  ASSUME TypeOK, OneSlotEach, NestedPlaces, Leaving, NodePointer, [Next]_vars
  PROVE  Leaving'
<1> USE ConstantsAssumption DEF TypeOK, MainTypes, SimulatorTypes, Leaving, NodePointer,
    OneSlotEach, Slots, TryPlaces, PollPlaces, LentPlaces, PollOf
<1>1. CASE UNCHANGED vars
  BY <1>1 DEF vars, mainVars, simVars, lockVars, nodeVars, wireVars, threadVars
<1>2. ASSUME NEW m \in MapThread, MapThreadNext(m) PROVE Leaving'
  <2>1. CASE Deliver(m)
    BY <2>1 DEF Deliver, Target, PostSendPending, MoveTo, mainVars, simVars, nodeVars,
        wireVars
  <2>2. CASE SetUp(m) \/ (\E n \in Node : FrameArrives(m, n)) \/ NotForSimulator(m) \/
            EmitFrameReceived(m) \/ TryMutex(m) \/ TryMayBlock(m) \/ ServeSend(m) \/
            ServeInvalid(m) \/ NotifyInvalid(m) \/ ServeChange(m) \/ LockMapChanges(m)
            \/ (\E o \in Simulator : NotifyObserver(m, o)) \/ ChangeDone(m) \/
            LeaveLoop(m)
    BY <2>2 DEF SetUp, MoveTo, mainVars, simVars, lockVars, nodeVars, wireVars,
        FrameArrives, NotForSimulator, EmitFrameReceived, TryMutex, TryMayBlock,
        ServeSend, Reply, ServeInvalid, NotifyInvalid, ServeChange, LockMapChanges,
        NotifyObserver, threadVars, ChangeDone, LeaveLoop
  <2> QED BY <1>2, <2>1, <2>2 DEF MapThreadNext
<1>3. ASSUME NEW s \in Simulator, ClientNext(s) PROVE Leaving'
  <2>1. CASE SocketCloses(s)
    BY <2>1 DEF SocketCloses, Post, mainVars, lockVars, nodeVars, wireVars, threadVars
  <2>2. CASE DataArrives(s)
    BY <2>2, InEvents DEF DataArrives, Enter, simVars, nodeVars, wireVars, threadVars
  <2> QED BY <1>3, <2>1, <2>2 DEF ClientNext
<1>4. ASSUME NEW s \in Simulator, EventNext(s) PROVE Leaving'
  <2>1. CASE Run(s)
    BY <2>1, InEvents DEF Run, mainVars, lockVars, nodeVars, wireVars, threadVars
  <2>2. CASE DropFinalize(s)
    BY <2>2 DEF DropFinalize, mainVars, simVars, lockVars, nodeVars, wireVars,
        threadVars
  <2>3. CASE Delete(s)
    <3>1. shuttingDown[s] /\ node[s] = Nobody BY <2>3 DEF Delete
    <3>2. pc[s] = "idle" BY <2>3, InEvents DEF Delete
    <3> QED BY <2>3, <3>1, <3>2 DEF Delete, mainVars
  <2>4. CASE \E slot \in Slots : PostedSlot(s, slot)
    BY <2>4, InEvents DEF PostedSlot, Enter, simVars, nodeVars, wireVars, threadVars
  <2> QED BY <1>4, <2>1, <2>2, <2>3, <2>4 DEF EventNext
<1>5. ASSUME NEW s \in Simulator, CommonNext(s) PROVE Leaving'
  <2>1. CASE ReturnShuttingDown(s)
    BY <2>1 DEF ReturnShuttingDown, Running, Return, simVars, nodeVars, wireVars,
        threadVars
  <2>2. CASE Poll(s)
    BY <2>2 DEF Poll, Running, Goto, simVars, lockVars, nodeVars, wireVars, threadVars
  <2>3. CASE EventsProcessed(s)
    BY <2>3 DEF EventsProcessed, Running, Goto, simVars, lockVars, nodeVars, wireVars,
        threadVars
  <2> QED BY <1>5, <2>1, <2>2, <2>3 DEF CommonNext
<1>6. ASSUME NEW s \in Simulator, ReadNext(s) PROVE Leaving'
  <2>1. CASE ReadNothing(s)
    BY <2>1 DEF ReadNothing, Reading, Running, Return, simVars, nodeVars, wireVars,
        threadVars
  <2>2. CASE ReadDisconnect(s)
    BY <2>2 DEF ReadDisconnect, Reading, Running, Return, nodeVars, wireVars, threadVars
  <2>3. CASE ReadMapRequest(s)
    BY <2>3 DEF ReadMapRequest, Reading, Running, Post, Return, nodeVars, wireVars,
        threadVars
  <2>4. CASE ReadNodeRequest(s)
    BY <2>4 DEF ReadNodeRequest, Reading, Running, Goto, lockVars, nodeVars, wireVars,
        threadVars
  <2>5. CASE AcquireNode(s)
    BY <2>5 DEF AcquireNode, Running, Return, wireVars, threadVars
  <2>6. CASE NodeNotAvailable(s)
    BY <2>6 DEF NodeNotAvailable, Running, Return, nodeVars, wireVars, threadVars
  <2>7. CASE StartSimulation(s)
    BY <2>7 DEF StartSimulation, Reading, Running, Return, nodeVars, wireVars,
        threadVars
  <2>8. CASE EmitCommand(s)
    BY <2>8 DEF EmitCommand, Reading, Running, Goto, simVars, nodeVars, wireVars
  <2>9. CASE CommandDone(s)
    BY <2>9 DEF CommandDone, Running, PostSendPending, Return, simVars, nodeVars,
        wireVars, threadVars
  <2>10. CASE SendPending(s)
    BY <2>10 DEF SendPending, Running, Return, simVars, nodeVars, wireVars, threadVars
  <2> QED BY <1>6, <2>1, <2>2, <2>3, <2>4, <2>5, <2>6, <2>7, <2>8, <2>9, <2>10 DEF ReadNext
<1>7. ASSUME NEW s \in Simulator, InstantiateNext(s) PROVE Leaving'
  <2>1. CASE InstantiateStale(s)
    BY <2>1 DEF InstantiateStale, Instantiating, Running, Return, nodeVars, wireVars,
        threadVars
  <2>2. CASE InstantiateBusy(s)
    BY <2>2 DEF InstantiateBusy, Instantiating, Running, Post, Return, simVars,
        nodeVars, wireVars, threadVars
  <2>3. CASE Refused(s)
    BY <2>3 DEF Refused, Requesting, Instantiating, Running, Return, nodeVars, wireVars,
        threadVars
  <2>4. CASE CreateMap(s)
    BY <2>4 DEF CreateMap, Requesting, Instantiating, Running, Wanted, Goto, simVars,
        nodeVars, wireVars
  <2>5. CASE MapCreated(s)
    BY <2>5 DEF MapCreated, Running, Wanted, Return, nodeVars, threadVars
  <2>6. CASE MapNotCreated(s)
    BY <2>6 DEF MapNotCreated, Running, Wanted, Return, nodeVars, wireVars
  <2>7. CASE JoinMap(s)
    BY <2>7 DEF JoinMap, Requesting, Instantiating, Running, Wanted, Return, nodeVars,
        threadVars
  <2> QED BY <1>7, <2>1, <2>2, <2>3, <2>4, <2>5, <2>6, <2>7 DEF InstantiateNext
<1>8. ASSUME NEW s \in Simulator, QuitNext(s) PROVE Leaving'
  <2>1. CASE DeleteMap(s)
    BY <2>1 DEF DeleteMap, Requesting, Instantiating, Running, Wanted, Goto, simVars,
        nodeVars, threadVars
  <2>2. CASE QuitLock(s)
    BY <2>2 DEF QuitLock, Running, Wanted, Goto, simVars, nodeVars, threadVars
  <2>3. CASE QuitDone(s)
    BY <2>3 DEF QuitDone, Running, Wanted, Goto, simVars, nodeVars, threadVars
  <2>4. CASE MapDeleted(s)
    BY <2>4 DEF MapDeleted, Running, Wanted, Return, nodeVars
  <2>5. CASE \E t \in Simulator : AboutToFinish(s, t)
    BY <2>5 DEF AboutToFinish, Emitting, Running, Wanted, Notified, simVars, nodeVars,
        threadVars
  <2>6. CASE AboutReleased(s)
    BY <2>6 DEF AboutReleased, Running, FreeNode, Goto, simVars, lockVars, wireVars,
        threadVars
  <2>7. CASE AboutDone(s)
    BY <2>7 DEF AboutDone, Running, Return, nodeVars, wireVars, threadVars
  <2>8. CASE (\E t \in Simulator : AboutToFinishPanics(s, t)) \/ (\E t \in Simulator :
            AboutToFinishNoNode(s, t))
    BY <2>8 DEF AboutToFinishPanics, Notified, mainVars, simVars, lockVars, nodeVars,
        threadVars, AboutToFinishNoNode
  <2> QED BY <1>8, <2>1, <2>2, <2>3, <2>4, <2>5, <2>6, <2>7, <2>8 DEF QuitNext
<1>9. ASSUME NEW s \in Simulator, FinalizeNext(s) PROVE Leaving'
  <2>1. CASE FinalizeNoNode(s)
    BY <2>1 DEF FinalizeNoNode, Finalizing, Running, ShutDown, Post, Return, nodeVars,
        wireVars, threadVars
  <2>2. CASE FinalizeRelease(s)
    BY <2>2 DEF FinalizeRelease, Finalizing, Running, ShutDown, Goto, nodeVars,
        wireVars, threadVars
  <2>3. CASE FinalizeBusy(s)
    BY <2>3 DEF FinalizeBusy, Finalizing, Running, ShutDown, Goto, nodeVars, wireVars,
        threadVars
  <2>4. CASE FinalizeLater(s)
    BY <2>4 DEF FinalizeLater, Running, Post, Return, simVars, nodeVars, threadVars
  <2>5. CASE FinalizeReleased(s)
    BY <2>5 DEF FinalizeReleased, Running, FreeNode, Goto, simVars, wireVars, threadVars
  <2>6. CASE FinalizeDone(s)
    BY <2>6 DEF FinalizeDone, Running, Post, Return, nodeVars, wireVars, threadVars
  <2> QED BY <1>9, <2>1, <2>2, <2>3, <2>4, <2>5, <2>6 DEF FinalizeNext
<1> QED BY <1>1, <1>2, <1>3, <1>4, <1>5, <1>6, <1>7, <1>8, <1>9
  DEF Next, SlotNext, CommonNext, Stopped

\* run () is posted once, before any request.
LEMMA NotStartedStep ==
  ASSUME TypeOK, NotStarted, [Next]_vars
  PROVE  NotStarted'
<1> USE ConstantsAssumption DEF TypeOK, MainTypes, SimulatorTypes, NotStarted,
    RequestKnown
<1>1. CASE UNCHANGED vars
  BY <1>1 DEF vars, mainVars, simVars, lockVars, nodeVars, wireVars, threadVars
<1>2. ASSUME NEW m \in MapThread, MapThreadNext(m) PROVE NotStarted'
  <2>1. CASE Deliver(m)
    BY <2>1 DEF Deliver, Target, PostSendPending, MoveTo, mainVars, simVars, nodeVars,
        wireVars
  <2>2. CASE SetUp(m) \/ (\E n \in Node : FrameArrives(m, n)) \/ NotForSimulator(m) \/
            EmitFrameReceived(m) \/ TryMutex(m) \/ TryMayBlock(m) \/ ServeSend(m) \/
            ServeInvalid(m) \/ NotifyInvalid(m) \/ ServeChange(m) \/ LockMapChanges(m)
            \/ (\E o \in Simulator : NotifyObserver(m, o)) \/ ChangeDone(m) \/
            LeaveLoop(m)
    BY <2>2 DEF SetUp, MoveTo, mainVars, simVars, lockVars, nodeVars, wireVars,
        FrameArrives, NotForSimulator, EmitFrameReceived, TryMutex, TryMayBlock,
        ServeSend, Reply, ServeInvalid, NotifyInvalid, ServeChange, LockMapChanges,
        NotifyObserver, threadVars, ChangeDone, LeaveLoop
  <2> QED BY <1>2, <2>1, <2>2 DEF MapThreadNext
<1>3. ASSUME NEW s \in Simulator, ClientNext(s) PROVE NotStarted'
  <2>1. CASE SocketCloses(s)
    BY <2>1 DEF SocketCloses, Post, mainVars, lockVars, nodeVars, wireVars, threadVars
  <2>2. CASE DataArrives(s)
    BY <2>2 DEF DataArrives, Enter, ProcessingEvents, simVars, nodeVars, wireVars,
        threadVars
  <2> QED BY <1>3, <2>1, <2>2 DEF ClientNext
<1>4. ASSUME NEW s \in Simulator, EventNext(s) PROVE NotStarted'
  <2>1. CASE Run(s)
    BY <2>1 DEF Run, ProcessingEvents, mainVars, lockVars, nodeVars, wireVars,
        threadVars
  <2>2. CASE DropFinalize(s)
    BY <2>2 DEF DropFinalize, ProcessingEvents, mainVars, simVars, lockVars, nodeVars,
        wireVars, threadVars
  <2>3. CASE Delete(s)
    BY <2>3 DEF Delete, ProcessingEvents, mainVars, nodeVars, threadVars
  <2>4. CASE \E slot \in Slots : PostedSlot(s, slot)
    BY <2>4 DEF PostedSlot, Enter, ProcessingEvents, simVars, nodeVars, wireVars,
        threadVars
  <2> QED BY <1>4, <2>1, <2>2, <2>3, <2>4 DEF EventNext
<1>5. ASSUME NEW s \in Simulator, CommonNext(s) PROVE NotStarted'
  BY <1>5, CommonFrame
<1>6. ASSUME NEW s \in Simulator, ReadNext(s) PROVE NotStarted'
  <2>1. CASE ReadDisconnect(s)
    BY <2>1 DEF ReadDisconnect, Reading, Running, Return, nodeVars, wireVars, threadVars
  <2>2. CASE ReadMapRequest(s)
    BY <2>2 DEF ReadMapRequest, Reading, Running, Post, Return, nodeVars, wireVars,
        threadVars
  <2>3. CASE AcquireNode(s)
    <3>1. "run" \notin posted[s] BY <2>3 DEF AcquireNode, Slots
    <3> QED BY <2>3, <3>1 DEF AcquireNode
  <2>4. CASE NodeNotAvailable(s)
    BY <2>4 DEF NodeNotAvailable, Running, Return, nodeVars, wireVars, threadVars
  <2>5. CASE StartSimulation(s)
    BY <2>5 DEF StartSimulation, Reading, Running, Return, nodeVars, wireVars,
        threadVars
  <2>6. CASE CommandDone(s)
    BY <2>6 DEF CommandDone, Running, PostSendPending, Return, simVars, nodeVars,
        wireVars, threadVars
  <2>7. CASE ReadNothing(s) \/ ReadNodeRequest(s) \/ EmitCommand(s) \/ SendPending(s)
    BY <2>7 DEF ReadNothing, Return, simVars, nodeVars, wireVars, threadVars,
        ReadNodeRequest, Goto, lockVars, EmitCommand, SendPending
  <2> QED BY <1>6, <2>1, <2>2, <2>3, <2>4, <2>5, <2>6, <2>7 DEF ReadNext
<1>7. ASSUME NEW s \in Simulator, InstantiateNext(s) PROVE NotStarted'
  <2>1. CASE InstantiateStale(s)
    BY <2>1 DEF InstantiateStale, Instantiating, Running, Return, nodeVars, wireVars,
        threadVars
  <2>2. CASE InstantiateBusy(s)
    BY <2>2 DEF InstantiateBusy, Instantiating, Running, Post, Return, simVars,
        nodeVars, wireVars, threadVars
  <2>3. CASE Refused(s)
    BY <2>3 DEF Refused, Requesting, Instantiating, Running, Return, nodeVars, wireVars,
        threadVars
  <2>4. CASE MapCreated(s)
    <3>1. "run" \notin posted[s] BY <2>4 DEF MapCreated, Slots
    <3> QED BY <2>4, <3>1 DEF MapCreated
  <2>5. CASE MapNotCreated(s)
    BY <2>5 DEF MapNotCreated, Running, Wanted, Return, nodeVars, wireVars
  <2>6. CASE JoinMap(s)
    BY <2>6 DEF JoinMap, Requesting, Instantiating, Running, Wanted, Return, nodeVars,
        threadVars
  <2>7. CASE CreateMap(s)
    BY <2>7 DEF CreateMap, Goto, simVars, nodeVars, wireVars
  <2> QED BY <1>7, <2>1, <2>2, <2>3, <2>4, <2>5, <2>6, <2>7 DEF InstantiateNext
<1>8. ASSUME NEW s \in Simulator, QuitNext(s) PROVE NotStarted'
  <2>1. CASE MapDeleted(s)
    BY <2>1 DEF MapDeleted, Running, Wanted, Return, nodeVars
  <2>2. CASE \E t \in Simulator : AboutToFinishNoNode(s, t)
    BY <2>2 DEF AboutToFinishNoNode, Emitting, Running, Wanted, Notified, mainVars,
        lockVars, nodeVars, threadVars
  <2>3. CASE AboutDone(s)
    BY <2>3 DEF AboutDone, Running, Return, nodeVars, wireVars, threadVars
  <2>4. CASE DeleteMap(s) \/ QuitLock(s) \/ QuitDone(s) \/ (\E t \in Simulator :
            AboutToFinishPanics(s, t)) \/ (\E t \in Simulator : AboutToFinish(s, t)) \/
            AboutReleased(s)
    BY <2>4 DEF DeleteMap, Goto, simVars, nodeVars, threadVars, QuitLock, QuitDone,
        AboutToFinishPanics, Notified, mainVars, lockVars, AboutToFinish, AboutReleased,
        FreeNode, wireVars
  <2> QED BY <1>8, <2>1, <2>2, <2>3, <2>4 DEF QuitNext
<1>9. ASSUME NEW s \in Simulator, FinalizeNext(s) PROVE NotStarted'
  <2>1. CASE FinalizeNoNode(s)
    BY <2>1 DEF FinalizeNoNode, Finalizing, Running, ShutDown, Post, Return, nodeVars,
        wireVars, threadVars
  <2>2. CASE FinalizeLater(s)
    BY <2>2 DEF FinalizeLater, Running, Post, Return, simVars, nodeVars, threadVars
  <2>3. CASE FinalizeDone(s)
    BY <2>3 DEF FinalizeDone, Running, Post, Return, nodeVars, wireVars, threadVars
  <2>4. CASE FinalizeRelease(s) \/ FinalizeBusy(s) \/ FinalizeReleased(s)
    BY <2>4 DEF FinalizeRelease, ShutDown, Goto, nodeVars, wireVars, threadVars,
        FinalizeBusy, FinalizeReleased, FreeNode, simVars
  <2> QED BY <1>9, <2>1, <2>2, <2>3, <2>4 DEF FinalizeNext
<1> QED BY <1>1, <1>2, <1>3, <1>4, <1>5, <1>6, <1>7, <1>8, <1>9
  DEF Next, SlotNext, CommonNext, Stopped

\* The node pointer follows the dialogue.
LEMMA NodePointerStep ==
  ASSUME TypeOK, OneSlotEach, NotStarted, NodePointer, Leaving, [Next]_vars
  PROVE  NodePointer'
<1> USE ConstantsAssumption DEF TypeOK, MainTypes, SimulatorTypes, NodePointer,
    OneSlotEach, RequestKnown, NotStarted, Leaving, MapPlaces, Slots, TryPlaces,
    PollPlaces, LentPlaces, PollOf
<1>1. CASE UNCHANGED vars
  BY <1>1 DEF vars, mainVars, simVars, lockVars, nodeVars, wireVars, threadVars
<1>2. ASSUME NEW m \in MapThread, MapThreadNext(m) PROVE NodePointer'
  BY <1>2, MapThreadFrame
<1>3. ASSUME NEW s \in Simulator, ClientNext(s) PROVE NodePointer'
  <2>1. CASE DataArrives(s)
    BY <2>1 DEF DataArrives, Enter, ProcessingEvents, simVars, nodeVars, wireVars,
        threadVars
  <2>2. CASE SocketCloses(s)
    BY <2>2 DEF SocketCloses, Post, mainVars, lockVars, nodeVars, wireVars, threadVars
  <2> QED BY <1>3, <2>1, <2>2 DEF ClientNext
<1>4. ASSUME NEW s \in Simulator, EventNext(s) PROVE NodePointer'
  <2>1. CASE Run(s)
    BY <2>1 DEF Run, ProcessingEvents, mainVars, lockVars, nodeVars, wireVars,
        threadVars
  <2>2. CASE \E slot \in Slots : PostedSlot(s, slot)
    BY <2>2 DEF PostedSlot, Enter, ProcessingEvents, simVars, nodeVars, wireVars,
        threadVars
  <2>3. CASE DropFinalize(s) \/ Delete(s)
    BY <2>3 DEF DropFinalize, mainVars, simVars, lockVars, nodeVars, wireVars,
        threadVars, Delete
  <2> QED BY <1>4, <2>1, <2>2, <2>3 DEF EventNext
<1>5. ASSUME NEW s \in Simulator, CommonNext(s) PROVE NodePointer'
  <2>1. CASE ReturnShuttingDown(s)
    BY <2>1 DEF ReturnShuttingDown, Running, Return, simVars, nodeVars, wireVars,
        threadVars
  <2>2. CASE Poll(s)
    BY <2>2 DEF Poll, Running, Goto, simVars, lockVars, nodeVars, wireVars, threadVars
  <2>3. CASE EventsProcessed(s)
    BY <2>3 DEF EventsProcessed, Running, Goto, simVars, lockVars, nodeVars, wireVars,
        threadVars
  <2> QED BY <1>5, <2>1, <2>2, <2>3 DEF CommonNext
<1>6. ASSUME NEW s \in Simulator, ReadNext(s) PROVE NodePointer'
  <2>1. CASE ReadNothing(s)
    BY <2>1 DEF ReadNothing, Reading, Running, Return, simVars, nodeVars, wireVars,
        threadVars
  <2>2. CASE ReadDisconnect(s)
    BY <2>2 DEF ReadDisconnect, Reading, Running, Return, nodeVars, wireVars, threadVars
  <2>3. CASE ReadMapRequest(s)
    BY <2>3 DEF ReadMapRequest, Reading, Running, Post, Return, nodeVars, wireVars,
        threadVars
  <2>4. CASE ReadNodeRequest(s)
    BY <2>4 DEF ReadNodeRequest, Reading, Running, Goto, lockVars, nodeVars, wireVars,
        threadVars
  <2>5. CASE AcquireNode(s)
    <3>1. node[s] # Nobody BY <2>5 DEF AcquireNode
    <3> QED BY <2>5, <3>1 DEF AcquireNode, Return
  <2>6. CASE NodeNotAvailable(s)
    BY <2>6 DEF NodeNotAvailable, Running, Return, nodeVars, wireVars, threadVars
  <2>7. CASE StartSimulation(s)
    BY <2>7 DEF StartSimulation, Reading, Running, Return, nodeVars, wireVars,
        threadVars
  <2>8. CASE EmitCommand(s)
    BY <2>8 DEF EmitCommand, Reading, Running, Goto, simVars, nodeVars, wireVars
  <2>9. CASE CommandDone(s)
    BY <2>9 DEF CommandDone, Running, PostSendPending, Return, simVars, nodeVars,
        wireVars, threadVars
  <2>10. CASE SendPending(s)
    BY <2>10 DEF SendPending, Running, Return, simVars, nodeVars, wireVars, threadVars
  <2> QED BY <1>6, <2>1, <2>2, <2>3, <2>4, <2>5, <2>6, <2>7, <2>8, <2>9, <2>10 DEF ReadNext
<1>7. ASSUME NEW s \in Simulator, InstantiateNext(s) PROVE NodePointer'
  <2>1. CASE InstantiateStale(s)
    BY <2>1 DEF InstantiateStale, Instantiating, Running, Return, nodeVars, wireVars,
        threadVars
  <2>2. CASE InstantiateBusy(s)
    BY <2>2 DEF InstantiateBusy, Instantiating, Running, Post, Return, simVars,
        nodeVars, wireVars, threadVars
  <2>3. CASE Refused(s)
    BY <2>3 DEF Refused, Requesting, Instantiating, Running, Return, nodeVars, wireVars,
        threadVars
  <2>4. CASE CreateMap(s)
    BY <2>4 DEF CreateMap, Requesting, Instantiating, Running, Wanted, Goto, simVars,
        nodeVars, wireVars
  <2>5. CASE MapCreated(s)
    <3>1. comm[s] = "InstantiatingOrRetrievingMap" /\ node[s] = Nobody
      BY <2>5 DEF MapCreated
    <3> QED BY <2>5, <3>1 DEF MapCreated, Return
  <2>6. CASE MapNotCreated(s)
    BY <2>6 DEF MapNotCreated, Running, Wanted, Return, nodeVars, wireVars
  <2>7. CASE JoinMap(s)
    BY <2>7 DEF JoinMap, Requesting, Instantiating, Running, Wanted, Return, nodeVars,
        threadVars
  <2> QED BY <1>7, <2>1, <2>2, <2>3, <2>4, <2>5, <2>6, <2>7 DEF InstantiateNext
<1>8. ASSUME NEW s \in Simulator, QuitNext(s) PROVE NodePointer'
  <2>1. CASE DeleteMap(s)
    BY <2>1 DEF DeleteMap, Requesting, Instantiating, Running, Wanted, Goto, simVars,
        nodeVars, threadVars
  <2>2. CASE QuitLock(s)
    BY <2>2 DEF QuitLock, Running, Wanted, Goto, simVars, nodeVars, threadVars
  <2>3. CASE QuitDone(s)
    BY <2>3 DEF QuitDone, Running, Wanted, Goto, simVars, nodeVars, threadVars
  <2>4. CASE MapDeleted(s)
    BY <2>4 DEF MapDeleted, Running, Wanted, Return, nodeVars
  <2>5. CASE \E t \in Simulator : AboutToFinishNoNode(s, t)
    BY <2>5 DEF AboutToFinishNoNode, Emitting, Running, Wanted, Notified, mainVars,
        lockVars, nodeVars, threadVars
  <2>6. CASE \E t \in Simulator : AboutToFinish(s, t)
    BY <2>6 DEF AboutToFinish, Emitting, Running, Wanted, Notified, simVars, nodeVars,
        threadVars
  <2>7. CASE AboutReleased(s)
    BY <2>7 DEF AboutReleased, Running, FreeNode, Goto, simVars, lockVars, wireVars,
        threadVars
  <2>8. CASE AboutDone(s)
    BY <2>8 DEF AboutDone, Running, Return, nodeVars, wireVars, threadVars
  <2>9. CASE \E t \in Simulator : AboutToFinishPanics(s, t)
    BY <2>9 DEF AboutToFinishPanics, Notified, mainVars, simVars, lockVars, nodeVars,
        threadVars
  <2> QED BY <1>8, <2>1, <2>2, <2>3, <2>4, <2>5, <2>6, <2>7, <2>8, <2>9 DEF QuitNext
<1>9. ASSUME NEW s \in Simulator, FinalizeNext(s) PROVE NodePointer'
  <2>1. CASE FinalizeNoNode(s)
    BY <2>1 DEF FinalizeNoNode, Finalizing, Running, ShutDown, Post, Return, nodeVars,
        wireVars, threadVars
  <2>2. CASE FinalizeRelease(s)
    BY <2>2 DEF FinalizeRelease, Finalizing, Running, ShutDown, Goto, nodeVars,
        wireVars, threadVars
  <2>3. CASE FinalizeBusy(s)
    BY <2>3 DEF FinalizeBusy, Finalizing, Running, ShutDown, Goto, nodeVars, wireVars,
        threadVars
  <2>4. CASE FinalizeLater(s)
    BY <2>4 DEF FinalizeLater, Running, Post, Return, simVars, nodeVars, threadVars
  <2>5. CASE FinalizeReleased(s)
    BY <2>5 DEF FinalizeReleased, Running, FreeNode, Goto, simVars, wireVars, threadVars
  <2>6. CASE FinalizeDone(s)
    BY <2>6 DEF FinalizeDone, Running, Post, Return, nodeVars, wireVars, threadVars
  <2> QED BY <1>9, <2>1, <2>2, <2>3, <2>4, <2>5, <2>6 DEF FinalizeNext
<1> QED BY <1>1, <1>2, <1>3, <1>4, <1>5, <1>6, <1>7, <1>8, <1>9
  DEF Next, SlotNext, CommonNext, Stopped

\* A node is acquired only when it is free and freed only by its owner.
LEMMA NodeOwnedByOneStep ==
  ASSUME TypeOK, OneSlotEach, NodePointer, NodeOwnedByOne, [Next]_vars
  PROVE  NodeOwnedByOne'
<1> USE ConstantsAssumption DEF TypeOK, MainTypes, SimulatorTypes, MapTypes,
    OneSlotEach, NodePointer, NodeOwnedByOne, Owns, Slots, TryPlaces, PollPlaces,
    LentPlaces, PollOf
<1>1. CASE UNCHANGED vars
  BY <1>1 DEF vars, mainVars, simVars, lockVars, nodeVars, wireVars, threadVars
<1>2. ASSUME NEW m \in MapThread, MapThreadNext(m) PROVE NodeOwnedByOne'
  BY <1>2, MapThreadFrame
<1>3. ASSUME NEW s \in Simulator, ClientNext(s) PROVE NodeOwnedByOne'
  <2>1. CASE DataArrives(s)
    BY <2>1 DEF DataArrives, Enter, ProcessingEvents, simVars, nodeVars, wireVars,
        threadVars
  <2>2. CASE SocketCloses(s)
    BY <2>2 DEF SocketCloses, Post, mainVars, lockVars, nodeVars, wireVars, threadVars
  <2> QED BY <1>3, <2>1, <2>2 DEF ClientNext
<1>4. ASSUME NEW s \in Simulator, EventNext(s) PROVE NodeOwnedByOne'
  <2>1. CASE \E slot \in Slots : PostedSlot(s, slot)
    BY <2>1 DEF PostedSlot, Enter, ProcessingEvents, simVars, nodeVars, wireVars,
        threadVars
  <2>2. CASE Run(s) \/ DropFinalize(s) \/ Delete(s)
    BY <2>2 DEF Run, mainVars, lockVars, nodeVars, wireVars, threadVars, DropFinalize,
        simVars, Delete
  <2> QED BY <1>4, <2>1, <2>2 DEF EventNext
<1>5. ASSUME NEW s \in Simulator, CommonNext(s) PROVE NodeOwnedByOne'
  <2>1. CASE ReturnShuttingDown(s)
    BY <2>1 DEF ReturnShuttingDown, Running, Return, simVars, nodeVars, wireVars,
        threadVars
  <2>2. CASE Poll(s)
    BY <2>2 DEF Poll, Running, Goto, simVars, lockVars, nodeVars, wireVars, threadVars
  <2>3. CASE EventsProcessed(s)
    BY <2>3 DEF EventsProcessed, Running, Goto, simVars, lockVars, nodeVars, wireVars,
        threadVars
  <2> QED BY <1>5, <2>1, <2>2, <2>3 DEF CommonNext
<1>6. ASSUME NEW s \in Simulator, ReadNext(s) PROVE NodeOwnedByOne'
  <2>1. CASE ReadNothing(s)
    BY <2>1 DEF ReadNothing, Reading, Running, Return, simVars, nodeVars, wireVars,
        threadVars
  <2>2. CASE ReadDisconnect(s)
    BY <2>2 DEF ReadDisconnect, Reading, Running, Return, nodeVars, wireVars, threadVars
  <2>3. CASE ReadMapRequest(s)
    BY <2>3 DEF ReadMapRequest, Reading, Running, Post, Return, nodeVars, wireVars,
        threadVars
  <2>4. CASE ReadNodeRequest(s)
    BY <2>4 DEF ReadNodeRequest, Reading, Running, Goto, lockVars, nodeVars, wireVars,
        threadVars
  <2>5. CASE AcquireNode(s)
    BY <2>5 DEF AcquireNode, Running, Return, wireVars, threadVars
  <2>6. CASE NodeNotAvailable(s)
    BY <2>6 DEF NodeNotAvailable, Running, Return, nodeVars, wireVars, threadVars
  <2>7. CASE StartSimulation(s)
    BY <2>7 DEF StartSimulation, Reading, Running, Return, nodeVars, wireVars,
        threadVars
  <2>8. CASE EmitCommand(s)
    BY <2>8 DEF EmitCommand, Reading, Running, Goto, simVars, nodeVars, wireVars
  <2>9. CASE CommandDone(s)
    BY <2>9 DEF CommandDone, Running, PostSendPending, Return, simVars, nodeVars,
        wireVars, threadVars
  <2>10. CASE SendPending(s)
    BY <2>10 DEF SendPending, Running, Return, simVars, nodeVars, wireVars, threadVars
  <2> QED BY <1>6, <2>1, <2>2, <2>3, <2>4, <2>5, <2>6, <2>7, <2>8, <2>9, <2>10 DEF ReadNext
<1>7. ASSUME NEW s \in Simulator, InstantiateNext(s) PROVE NodeOwnedByOne'
  <2>1. CASE InstantiateStale(s)
    BY <2>1 DEF InstantiateStale, Instantiating, Running, Return, nodeVars, wireVars,
        threadVars
  <2>2. CASE InstantiateBusy(s)
    BY <2>2 DEF InstantiateBusy, Instantiating, Running, Post, Return, simVars,
        nodeVars, wireVars, threadVars
  <2>3. CASE Refused(s)
    BY <2>3 DEF Refused, Requesting, Instantiating, Running, Return, nodeVars, wireVars,
        threadVars
  <2>4. CASE CreateMap(s)
    BY <2>4 DEF CreateMap, Requesting, Instantiating, Running, Wanted, Goto, simVars,
        nodeVars, wireVars
  <2>5. CASE MapCreated(s)
    BY <2>5 DEF MapCreated, Running, Wanted, Return, nodeVars, threadVars
  <2>6. CASE MapNotCreated(s)
    BY <2>6 DEF MapNotCreated, Running, Wanted, Return, nodeVars, wireVars
  <2>7. CASE JoinMap(s)
    BY <2>7 DEF JoinMap, Requesting, Instantiating, Running, Wanted, Return, nodeVars,
        threadVars
  <2> QED BY <1>7, <2>1, <2>2, <2>3, <2>4, <2>5, <2>6, <2>7 DEF InstantiateNext
<1>8. ASSUME NEW s \in Simulator, QuitNext(s) PROVE NodeOwnedByOne'
  <2>1. CASE DeleteMap(s)
    BY <2>1 DEF DeleteMap, Requesting, Instantiating, Running, Wanted, Goto, simVars,
        nodeVars, threadVars
  <2>2. CASE QuitLock(s)
    BY <2>2 DEF QuitLock, Running, Wanted, Goto, simVars, nodeVars, threadVars
  <2>3. CASE QuitDone(s)
    BY <2>3 DEF QuitDone, Running, Wanted, Goto, simVars, nodeVars, threadVars
  <2>4. CASE MapDeleted(s)
    BY <2>4 DEF MapDeleted, Running, Wanted, Return, nodeVars
  <2>5. CASE \E t \in Simulator : AboutToFinish(s, t)
    BY <2>5 DEF AboutToFinish, Emitting, Running, Wanted, Notified, simVars, nodeVars,
        threadVars
  <2>6. CASE AboutReleased(s)
    BY <2>6 DEF AboutReleased, Running, FreeNode, Goto, simVars, lockVars, wireVars,
        threadVars
  <2>7. CASE AboutDone(s)
    BY <2>7 DEF AboutDone, Running, Return, nodeVars, wireVars, threadVars
  <2>8. CASE (\E t \in Simulator : AboutToFinishPanics(s, t)) \/ (\E t \in Simulator :
            AboutToFinishNoNode(s, t))
    BY <2>8 DEF AboutToFinishPanics, Notified, mainVars, simVars, lockVars, nodeVars,
        threadVars, AboutToFinishNoNode
  <2> QED BY <1>8, <2>1, <2>2, <2>3, <2>4, <2>5, <2>6, <2>7, <2>8 DEF QuitNext
<1>9. ASSUME NEW s \in Simulator, FinalizeNext(s) PROVE NodeOwnedByOne'
  <2>1. CASE FinalizeNoNode(s)
    BY <2>1 DEF FinalizeNoNode, Finalizing, Running, ShutDown, Post, Return, nodeVars,
        wireVars, threadVars
  <2>2. CASE FinalizeRelease(s)
    BY <2>2 DEF FinalizeRelease, Finalizing, Running, ShutDown, Goto, nodeVars,
        wireVars, threadVars
  <2>3. CASE FinalizeBusy(s)
    BY <2>3 DEF FinalizeBusy, Finalizing, Running, ShutDown, Goto, nodeVars, wireVars,
        threadVars
  <2>4. CASE FinalizeLater(s)
    BY <2>4 DEF FinalizeLater, Running, Post, Return, simVars, nodeVars, threadVars
  <2>5. CASE FinalizeReleased(s)
    <3>1. node[s] \in Node /\ receiver[node[s]] = s
      BY <2>5 DEF FinalizeReleased
    <3> QED BY <2>5, <3>1 DEF FinalizeReleased, FreeNode, Goto, simVars
  <2>6. CASE FinalizeDone(s)
    BY <2>6 DEF FinalizeDone, Running, Post, Return, nodeVars, wireVars, threadVars
  <2> QED BY <1>9, <2>1, <2>2, <2>3, <2>4, <2>5, <2>6 DEF FinalizeNext
<1> QED BY <1>1, <1>2, <1>3, <1>4, <1>5, <1>6, <1>7, <1>8, <1>9
  DEF Next, SlotNext, CommonNext, Stopped

\* The caller of a blocking call stays where it called.
LEMMA CallersStep ==
  ASSUME TypeOK, Callers, NodePointer, OneSlotEach, [Next]_vars
  PROVE  Callers'
<1> USE ConstantsAssumption DEF TypeOK, MainTypes, SimulatorTypes, ThreadTypes,
    OneSlotEach, Callers, NodePointer, Slots, TryPlaces, PollPlaces, LentPlaces, PollOf
<1>1. CASE UNCHANGED vars
  BY <1>1 DEF vars, mainVars, simVars, lockVars, nodeVars, wireVars, threadVars
<1>2. ASSUME NEW m \in MapThread, MapThreadNext(m) PROVE Callers'
  <2>1. CASE SetUp(m)
    BY <2>1 DEF SetUp, MoveTo, mainVars, simVars, lockVars, nodeVars, wireVars
  <2>2. CASE \E n \in Node : FrameArrives(m, n)
    BY <2>2 DEF FrameArrives, MoveTo, mainVars, simVars, nodeVars, wireVars
  <2>3. CASE NotForSimulator(m)
    BY <2>3 DEF NotForSimulator, MoveTo, mainVars, simVars, nodeVars, wireVars
  <2>4. CASE EmitFrameReceived(m)
    BY <2>4 DEF EmitFrameReceived, MoveTo, mainVars, simVars, lockVars, nodeVars,
        wireVars
  <2>5. CASE TryMutex(m)
    BY <2>5 DEF TryMutex, Target, MoveTo, mainVars, simVars, nodeVars, wireVars
  <2>6. CASE TryMayBlock(m)
    BY <2>6 DEF TryMayBlock, Target, MoveTo, mainVars, simVars, nodeVars, wireVars
  <2>7. CASE Deliver(m)
    BY <2>7 DEF Deliver, Target, PostSendPending, MoveTo, mainVars, simVars, nodeVars,
        wireVars
  <2>8. CASE ServeSend(m)
    BY <2>8 DEF ServeSend, Reply, MoveTo, mainVars, simVars, lockVars, nodeVars,
        wireVars
  <2>9. CASE ServeInvalid(m)
    BY <2>9 DEF ServeInvalid, MoveTo, mainVars, simVars, lockVars, nodeVars, wireVars
  <2>10. CASE NotifyInvalid(m)
    BY <2>10 DEF NotifyInvalid, Reply, MoveTo, mainVars, simVars, lockVars, nodeVars,
        wireVars
  <2>11. CASE ServeChange(m)
    BY <2>11 DEF ServeChange, MoveTo, mainVars, simVars, lockVars, nodeVars, wireVars
  <2>12. CASE LockMapChanges(m)
    BY <2>12 DEF LockMapChanges, MoveTo, mainVars, simVars, nodeVars
  <2>13. CASE ChangeDone(m)
    BY <2>13 DEF ChangeDone, Reply, MoveTo, mainVars, simVars, nodeVars, wireVars
  <2>14. CASE LeaveLoop(m)
    BY <2>14 DEF LeaveLoop, MoveTo, mainVars, simVars, lockVars, nodeVars, wireVars
  <2>15. CASE \E o \in Simulator : NotifyObserver(m, o)
    BY <2>15 DEF NotifyObserver, mainVars, simVars, lockVars, nodeVars, threadVars
  <2> QED BY <1>2, <2>1, <2>2, <2>3, <2>4, <2>5, <2>6, <2>7, <2>8, <2>9, <2>10, <2>11,
      <2>12, <2>13, <2>14, <2>15 DEF MapThreadNext
<1>3. ASSUME NEW s \in Simulator, ClientNext(s) PROVE Callers'
  <2>1. CASE DataArrives(s)
    BY <2>1 DEF DataArrives, Enter, ProcessingEvents, simVars, nodeVars, wireVars,
        threadVars
  <2>2. CASE SocketCloses(s)
    BY <2>2 DEF SocketCloses, Post, mainVars, lockVars, nodeVars, wireVars, threadVars
  <2> QED BY <1>3, <2>1, <2>2 DEF ClientNext
<1>4. ASSUME NEW s \in Simulator, EventNext(s) PROVE Callers'
  <2>1. CASE \E slot \in Slots : PostedSlot(s, slot)
    BY <2>1 DEF PostedSlot, Enter, ProcessingEvents, simVars, nodeVars, wireVars,
        threadVars
  <2>2. CASE Run(s) \/ DropFinalize(s) \/ Delete(s)
    BY <2>2 DEF Run, mainVars, lockVars, nodeVars, wireVars, threadVars, DropFinalize,
        simVars, Delete
  <2> QED BY <1>4, <2>1, <2>2 DEF EventNext
<1>5. ASSUME NEW s \in Simulator, CommonNext(s) PROVE Callers'
  <2>1. CASE ReturnShuttingDown(s)
    BY <2>1 DEF ReturnShuttingDown, Running, Return, simVars, nodeVars, wireVars,
        threadVars
  <2>2. CASE Poll(s)
    BY <2>2 DEF Poll, Running, Goto, simVars, lockVars, nodeVars, wireVars, threadVars
  <2>3. CASE EventsProcessed(s)
    BY <2>3 DEF EventsProcessed, Running, Goto, simVars, lockVars, nodeVars, wireVars,
        threadVars
  <2> QED BY <1>5, <2>1, <2>2, <2>3 DEF CommonNext
<1>6. ASSUME NEW s \in Simulator, ReadNext(s) PROVE Callers'
  <2>1. CASE ReadNothing(s)
    BY <2>1 DEF ReadNothing, Reading, Running, Return, simVars, nodeVars, wireVars,
        threadVars
  <2>2. CASE ReadDisconnect(s)
    BY <2>2 DEF ReadDisconnect, Reading, Running, Return, nodeVars, wireVars, threadVars
  <2>3. CASE ReadMapRequest(s)
    BY <2>3 DEF ReadMapRequest, Reading, Running, Post, Return, nodeVars, wireVars,
        threadVars
  <2>4. CASE ReadNodeRequest(s)
    BY <2>4 DEF ReadNodeRequest, Reading, Running, Goto, lockVars, nodeVars, wireVars,
        threadVars
  <2>5. CASE AcquireNode(s)
    BY <2>5 DEF AcquireNode, Running, Return, wireVars, threadVars
  <2>6. CASE NodeNotAvailable(s)
    BY <2>6 DEF NodeNotAvailable, Running, Return, nodeVars, wireVars, threadVars
  <2>7. CASE StartSimulation(s)
    BY <2>7 DEF StartSimulation, Reading, Running, Return, nodeVars, wireVars,
        threadVars
  <2>8. CASE EmitCommand(s)
    BY <2>8 DEF EmitCommand, Reading, Running, Goto, simVars, nodeVars, wireVars
  <2>9. CASE CommandDone(s)
    BY <2>9 DEF CommandDone, Running, PostSendPending, Return, simVars, nodeVars,
        wireVars, threadVars
  <2>10. CASE SendPending(s)
    BY <2>10 DEF SendPending, Running, Return, simVars, nodeVars, wireVars, threadVars
  <2> QED BY <1>6, <2>1, <2>2, <2>3, <2>4, <2>5, <2>6, <2>7, <2>8, <2>9, <2>10 DEF ReadNext
<1>7. ASSUME NEW s \in Simulator, InstantiateNext(s) PROVE Callers'
  <2>1. CASE InstantiateStale(s)
    BY <2>1 DEF InstantiateStale, Instantiating, Running, Return, nodeVars, wireVars,
        threadVars
  <2>2. CASE InstantiateBusy(s)
    BY <2>2 DEF InstantiateBusy, Instantiating, Running, Post, Return, simVars,
        nodeVars, wireVars, threadVars
  <2>3. CASE Refused(s)
    BY <2>3 DEF Refused, Requesting, Instantiating, Running, Return, nodeVars, wireVars,
        threadVars
  <2>4. CASE CreateMap(s)
    BY <2>4 DEF CreateMap, Requesting, Instantiating, Running, Wanted, Goto, simVars,
        nodeVars, wireVars
  <2>5. CASE MapCreated(s)
    BY <2>5 DEF MapCreated, Running, Wanted, Return, nodeVars, threadVars
  <2>6. CASE MapNotCreated(s)
    BY <2>6 DEF MapNotCreated, Running, Wanted, Return, nodeVars, wireVars
  <2>7. CASE JoinMap(s)
    BY <2>7 DEF JoinMap, Requesting, Instantiating, Running, Wanted, Return, nodeVars,
        threadVars
  <2> QED BY <1>7, <2>1, <2>2, <2>3, <2>4, <2>5, <2>6, <2>7 DEF InstantiateNext
<1>8. ASSUME NEW s \in Simulator, QuitNext(s) PROVE Callers'
  <2>1. CASE DeleteMap(s)
    BY <2>1 DEF DeleteMap, Requesting, Instantiating, Running, Wanted, Goto, simVars,
        nodeVars, threadVars
  <2>2. CASE QuitLock(s)
    BY <2>2 DEF QuitLock, Running, Wanted, Goto, simVars, nodeVars, threadVars
  <2>3. CASE QuitDone(s)
    BY <2>3 DEF QuitDone, Running, Wanted, Goto, simVars, nodeVars, threadVars
  <2>4. CASE MapDeleted(s)
    BY <2>4 DEF MapDeleted, Running, Wanted, Return, nodeVars
  <2>5. CASE \E t \in Simulator : AboutToFinish(s, t)
    BY <2>5 DEF AboutToFinish, Emitting, Running, Wanted, Notified, simVars, nodeVars,
        threadVars
  <2>6. CASE AboutReleased(s)
    BY <2>6 DEF AboutReleased, Running, FreeNode, Goto, simVars, lockVars, wireVars,
        threadVars
  <2>7. CASE AboutDone(s)
    BY <2>7 DEF AboutDone, Running, Return, nodeVars, wireVars, threadVars
  <2>8. CASE (\E t \in Simulator : AboutToFinishPanics(s, t)) \/ (\E t \in Simulator :
            AboutToFinishNoNode(s, t))
    BY <2>8 DEF AboutToFinishPanics, Notified, mainVars, simVars, lockVars, nodeVars,
        threadVars, AboutToFinishNoNode
  <2> QED BY <1>8, <2>1, <2>2, <2>3, <2>4, <2>5, <2>6, <2>7, <2>8 DEF QuitNext
<1>9. ASSUME NEW s \in Simulator, FinalizeNext(s) PROVE Callers'
  <2>1. CASE FinalizeNoNode(s)
    BY <2>1 DEF FinalizeNoNode, Finalizing, Running, ShutDown, Post, Return, nodeVars,
        wireVars, threadVars
  <2>2. CASE FinalizeRelease(s)
    BY <2>2 DEF FinalizeRelease, Finalizing, Running, ShutDown, Goto, nodeVars,
        wireVars, threadVars
  <2>3. CASE FinalizeBusy(s)
    BY <2>3 DEF FinalizeBusy, Finalizing, Running, ShutDown, Goto, nodeVars, wireVars,
        threadVars
  <2>4. CASE FinalizeLater(s)
    BY <2>4 DEF FinalizeLater, Running, Post, Return, simVars, nodeVars, threadVars
  <2>5. CASE FinalizeReleased(s)
    BY <2>5 DEF FinalizeReleased, Running, FreeNode, Goto, simVars, wireVars, threadVars
  <2>6. CASE FinalizeDone(s)
    BY <2>6 DEF FinalizeDone, Running, Post, Return, nodeVars, wireVars, threadVars
  <2> QED BY <1>9, <2>1, <2>2, <2>3, <2>4, <2>5, <2>6 DEF FinalizeNext
<1> QED BY <1>1, <1>2, <1>3, <1>4, <1>5, <1>6, <1>7, <1>8, <1>9
  DEF Next, SlotNext, CommonNext, Stopped

\* The lock of the node is kept while its frame is handled.
LEMMA HandlingStep ==
  ASSUME TypeOK, Handling, [Next]_vars
  PROVE  Handling'
<1> USE ConstantsAssumption DEF TypeOK, ThreadTypes, LockTypes, Handling
<1>1. CASE UNCHANGED vars
  BY <1>1 DEF vars, mainVars, simVars, lockVars, nodeVars, wireVars, threadVars
<1>2. ASSUME NEW m \in MapThread, MapThreadNext(m) PROVE Handling'
  <2>1. CASE SetUp(m)
    BY <2>1 DEF SetUp, MoveTo, mainVars, simVars, lockVars, nodeVars, wireVars
  <2>2. CASE \E n \in Node : FrameArrives(m, n)
    BY <2>2 DEF FrameArrives, MoveTo, mainVars, simVars, nodeVars, wireVars
  <2>3. CASE NotForSimulator(m)
    BY <2>3 DEF NotForSimulator, MoveTo, mainVars, simVars, nodeVars, wireVars
  <2>4. CASE EmitFrameReceived(m)
    BY <2>4 DEF EmitFrameReceived, MoveTo, mainVars, simVars, lockVars, nodeVars,
        wireVars
  <2>5. CASE TryMutex(m)
    BY <2>5 DEF TryMutex, Target, MoveTo, mainVars, simVars, nodeVars, wireVars
  <2>6. CASE TryMayBlock(m)
    BY <2>6 DEF TryMayBlock, Target, MoveTo, mainVars, simVars, nodeVars, wireVars
  <2>7. CASE Deliver(m)
    BY <2>7 DEF Deliver, Target, PostSendPending, MoveTo, mainVars, simVars, nodeVars,
        wireVars
  <2>8. CASE ServeSend(m)
    BY <2>8 DEF ServeSend, Reply, MoveTo, mainVars, simVars, lockVars, nodeVars,
        wireVars
  <2>9. CASE ServeInvalid(m)
    BY <2>9 DEF ServeInvalid, MoveTo, mainVars, simVars, lockVars, nodeVars, wireVars
  <2>10. CASE NotifyInvalid(m)
    BY <2>10 DEF NotifyInvalid, Reply, MoveTo, mainVars, simVars, lockVars, nodeVars,
        wireVars
  <2>11. CASE ServeChange(m)
    BY <2>11 DEF ServeChange, MoveTo, mainVars, simVars, lockVars, nodeVars, wireVars
  <2>12. CASE LockMapChanges(m)
    BY <2>12 DEF LockMapChanges, MoveTo, mainVars, simVars, nodeVars
  <2>13. CASE ChangeDone(m)
    BY <2>13 DEF ChangeDone, Reply, MoveTo, mainVars, simVars, nodeVars, wireVars
  <2>14. CASE LeaveLoop(m)
    BY <2>14 DEF LeaveLoop, MoveTo, mainVars, simVars, lockVars, nodeVars, wireVars
  <2>15. CASE \E o \in Simulator : NotifyObserver(m, o)
    BY <2>15 DEF NotifyObserver, mainVars, simVars, lockVars, nodeVars, threadVars
  <2> QED BY <1>2, <2>1, <2>2, <2>3, <2>4, <2>5, <2>6, <2>7, <2>8, <2>9, <2>10, <2>11,
      <2>12, <2>13, <2>14, <2>15 DEF MapThreadNext
<1>3. ASSUME NEW s \in Simulator, ClientNext(s) PROVE Handling'
  BY <1>3, ClientFrame
<1>4. ASSUME NEW s \in Simulator, EventNext(s) PROVE Handling'
  BY <1>4, EventFrame
<1>5. ASSUME NEW s \in Simulator, CommonNext(s) PROVE Handling'
  BY <1>5, CommonFrame
<1>6. ASSUME NEW s \in Simulator, ReadNext(s) PROVE Handling'
  BY <1>6, ReadFrame
<1>7. ASSUME NEW s \in Simulator, InstantiateNext(s) PROVE Handling'
  <2>1. CASE CreateMap(s)
    BY <2>1 DEF CreateMap, Requesting, Instantiating, Running, Wanted, Goto, simVars,
        nodeVars, wireVars
  <2>2. CASE MapNotCreated(s)
    BY <2>2 DEF MapNotCreated, Running, Wanted, Return, nodeVars, wireVars
  <2>3. CASE InstantiateStale(s) \/ InstantiateBusy(s) \/ Refused(s) \/ MapCreated(s) \/
            JoinMap(s)
    BY <2>3 DEF InstantiateStale, Return, nodeVars, wireVars, threadVars,
        InstantiateBusy, Post, simVars, Refused, MapCreated, JoinMap
  <2> QED BY <1>7, <2>1, <2>2, <2>3 DEF InstantiateNext
<1>8. ASSUME NEW s \in Simulator, QuitNext(s) PROVE Handling'
  <2>1. CASE MapDeleted(s)
    BY <2>1 DEF MapDeleted, Running, Wanted, Return, nodeVars
  <2>2. CASE DeleteMap(s) \/ QuitLock(s) \/ QuitDone(s) \/ (\E t \in Simulator :
            AboutToFinishPanics(s, t)) \/ (\E t \in Simulator : AboutToFinishNoNode(s,
            t)) \/ (\E t \in Simulator : AboutToFinish(s, t)) \/ AboutReleased(s) \/
            AboutDone(s)
    BY <2>2 DEF DeleteMap, Goto, simVars, nodeVars, threadVars, QuitLock, QuitDone,
        AboutToFinishPanics, Notified, mainVars, lockVars, AboutToFinishNoNode,
        AboutToFinish, AboutReleased, FreeNode, wireVars, AboutDone, Return
  <2> QED BY <1>8, <2>1, <2>2 DEF QuitNext
<1>9. ASSUME NEW s \in Simulator, FinalizeNext(s) PROVE Handling'
  BY <1>9, FinalizeFrame
<1> QED BY <1>1, <1>2, <1>3, <1>4, <1>5, <1>6, <1>7, <1>8, <1>9
  DEF Next, SlotNext, CommonNext, Stopped

\* createOrRetrieveMap makes a map only when no thread of it exists.
LEMMA NoThreadYet ==
  ASSUME TypeOK, OneSlotEach, NestedPlaces, OneFactoryHolder, MapKnown,
         NEW s \in Simulator, CreateMap(s)
  PROVE  mpc[Wanted(s)] = "none"
<1> SUFFICES ASSUME mpc[Wanted(s)] # "none" PROVE FALSE
  OBVIOUS
<1> USE ConstantsAssumption DEF TypeOK, MainTypes
<1>1. Wanted(s) \in MapThread /\ Wanted(s) \notin managed
  BY WantedType DEF CreateMap, Requesting
<1>2. PICK t \in Simulator : pc[t] \in MapPlaces
  BY <1>1 DEF MapKnown
<1>3. pc[t] = "quitWait"
  BY <1>2 DEF MapPlaces, FactoryPlaces, OneFactoryHolder, CreateMap, Requesting
<1>4. PICK i \in 1..Len(stack) : stack[i] = t
  BY <1>3 DEF OneSlotEach
<1>5. i # 1
  BY <1>3, <1>4 DEF CreateMap, Requesting, Instantiating, Running
<1> QED BY <1>3, <1>4, <1>5 DEF NestedPlaces, PollPlaces

\* A step that takes no mutex from a map thread and leaves the threads and the
\* receivers of frames alone keeps Delivering.
LEMMA DeliveringKept ==
  ASSUME Delivering, mpc' = mpc, mnode' = mnode, receiver' = receiver,
         \A m \in MapThread, t \in Simulator :
           /\ simLock'[t] = m <=> simLock[t] = m
           /\ mayBlock[t] = m => mayBlock'[t] = m
  PROVE  Delivering'
BY DEF Delivering, Target

\* frameReceived keeps the mutex it got, and its simulator, until it is done.
LEMMA DeliveringStep ==
  ASSUME TypeOK, OneSlotEach, NestedPlaces, OneFactoryHolder, MapKnown, MainHolds, Leaving, Handling, Delivering, [Next]_vars
  PROVE  Delivering'
<1> USE ConstantsAssumption DEF TypeOK, MainTypes, LockTypes, ThreadTypes, MapTypes,
    OneSlotEach, Handling, Delivering, Target, Slots, PollPlaces
<1>1. CASE UNCHANGED vars
  BY <1>1 DEF vars, mainVars, simVars, lockVars, nodeVars, wireVars, threadVars
<1>2. ASSUME NEW m \in MapThread, MapThreadNext(m) PROVE Delivering'
  <2>1. CASE SetUp(m)
    BY <2>1 DEF SetUp, MoveTo, mainVars, simVars, lockVars, nodeVars, wireVars
  <2>2. CASE \E n \in Node : FrameArrives(m, n)
    BY <2>2 DEF FrameArrives, MoveTo, mainVars, simVars, nodeVars, wireVars
  <2>3. CASE NotForSimulator(m)
    BY <2>3 DEF NotForSimulator, MoveTo, mainVars, simVars, nodeVars, wireVars
  <2>4. CASE EmitFrameReceived(m)
    BY <2>4 DEF EmitFrameReceived, MoveTo, mainVars, simVars, lockVars, nodeVars,
        wireVars
  <2>5. CASE TryMutex(m)
    BY <2>5 DEF TryMutex, MoveTo, mainVars, simVars, nodeVars, wireVars
  <2>6. CASE TryMayBlock(m)
    BY <2>6 DEF TryMayBlock, MoveTo, mainVars, simVars, nodeVars, wireVars
  <2>7. CASE Deliver(m)
    BY <2>7 DEF Deliver, PostSendPending, MoveTo, mainVars, simVars, nodeVars, wireVars
  <2>8. CASE ServeSend(m)
    BY <2>8 DEF ServeSend, Reply, MoveTo, mainVars, simVars, lockVars, nodeVars,
        wireVars
  <2>9. CASE ServeInvalid(m)
    BY <2>9 DEF ServeInvalid, MoveTo, mainVars, simVars, lockVars, nodeVars, wireVars
  <2>10. CASE NotifyInvalid(m)
    BY <2>10 DEF NotifyInvalid, Reply, MoveTo, mainVars, simVars, lockVars, nodeVars,
        wireVars
  <2>11. CASE ServeChange(m)
    BY <2>11 DEF ServeChange, MoveTo, mainVars, simVars, lockVars, nodeVars, wireVars
  <2>12. CASE LockMapChanges(m)
    BY <2>12 DEF LockMapChanges, MoveTo, mainVars, simVars, nodeVars
  <2>13. CASE ChangeDone(m)
    BY <2>13 DEF ChangeDone, Reply, MoveTo, mainVars, simVars, nodeVars, wireVars
  <2>14. CASE LeaveLoop(m)
    BY <2>14 DEF LeaveLoop, MoveTo, mainVars, simVars, lockVars, nodeVars, wireVars
  <2>15. CASE \E o \in Simulator : NotifyObserver(m, o)
    BY <2>15 DEF NotifyObserver, mainVars, simVars, lockVars, nodeVars, threadVars
  <2> QED BY <1>2, <2>1, <2>2, <2>3, <2>4, <2>5, <2>6, <2>7, <2>8, <2>9, <2>10, <2>11,
      <2>12, <2>13, <2>14, <2>15 DEF MapThreadNext
<1>3. ASSUME NEW s \in Simulator, ClientNext(s) PROVE Delivering'
  <2>1. CASE DataArrives(s)
    BY <2>1 DEF DataArrives, Enter, ProcessingEvents, simVars, nodeVars, wireVars,
        threadVars
  <2>2. CASE SocketCloses(s)
    BY <2>2 DEF SocketCloses, Post, mainVars, lockVars, nodeVars, wireVars, threadVars
  <2> QED BY <1>3, <2>1, <2>2 DEF ClientNext
<1>4. ASSUME NEW s \in Simulator, EventNext(s) PROVE Delivering'
  <2>1. CASE Delete(s)
    <3>1. mayBlock[s] = Main
      BY <2>1 DEF Delete, MainHolds, Leaving, LentPlaces, Slots
    <3>2. \A m \in MapThread, t \in Simulator :
            (simLock'[t] = m <=> simLock[t] = m) /\ (mayBlock[t] = m => mayBlock'[t] = m)
      BY <2>1, <3>1 DEF Delete, TypeOK, LockTypes
    <3> QED BY <2>1, <3>2, DeliveringKept DEF Delete, nodeVars, threadVars
  <2>2. CASE \E slot \in Slots : PostedSlot(s, slot)
    BY <2>2 DEF PostedSlot, Enter, ProcessingEvents, simVars, nodeVars, wireVars,
        threadVars
  <2>3. CASE Run(s) \/ DropFinalize(s)
    BY <2>3 DEF Run, mainVars, lockVars, nodeVars, wireVars, threadVars, DropFinalize,
        simVars
  <2> QED BY <1>4, <2>1, <2>2, <2>3 DEF EventNext
<1>5. ASSUME NEW s \in Simulator, CommonNext(s) PROVE Delivering'
  <2>1. CASE ReturnShuttingDown(s)
    BY <2>1 DEF ReturnShuttingDown, Running, Return, simVars, nodeVars, wireVars,
        threadVars
  <2>2. CASE Poll(s) \/ EventsProcessed(s)
    BY <2>2 DEF Poll, Goto, simVars, lockVars, nodeVars, wireVars, threadVars,
        EventsProcessed
  <2> QED BY <1>5, <2>1, <2>2 DEF CommonNext
<1>6. ASSUME NEW s \in Simulator, ReadNext(s) PROVE Delivering'
  <2>1. CASE ReadNothing(s)
    BY <2>1 DEF ReadNothing, Reading, Running, Return, simVars, nodeVars, wireVars,
        threadVars
  <2>2. CASE ReadDisconnect(s)
    BY <2>2 DEF ReadDisconnect, Reading, Running, Return, nodeVars, wireVars, threadVars
  <2>3. CASE ReadMapRequest(s)
    BY <2>3 DEF ReadMapRequest, Reading, Running, Post, Return, nodeVars, wireVars,
        threadVars
  <2>4. CASE AcquireNode(s)
    BY <2>4 DEF AcquireNode, Running, Return, wireVars, threadVars
  <2>5. CASE NodeNotAvailable(s)
    BY <2>5 DEF NodeNotAvailable, Running, Return, nodeVars, wireVars, threadVars
  <2>6. CASE StartSimulation(s)
    BY <2>6 DEF StartSimulation, Reading, Running, Return, nodeVars, wireVars,
        threadVars
  <2>7. CASE EmitCommand(s)
    <3>1. mayBlock[s] = Main
      BY <2>7 DEF EmitCommand, Reading, MainHolds, Leaving, LentPlaces, Slots
    <3>2. \A m \in MapThread, t \in Simulator :
            (simLock'[t] = m <=> simLock[t] = m) /\ (mayBlock[t] = m => mayBlock'[t] = m)
      BY <2>7, <3>1 DEF EmitCommand, TypeOK, LockTypes
    <3> QED BY <2>7, <3>2, DeliveringKept DEF EmitCommand, nodeVars, threadVars
  <2>8. CASE CommandDone(s)
    BY <2>8 DEF CommandDone, Running, PostSendPending, Return, simVars, nodeVars,
        wireVars, threadVars
  <2>9. CASE SendPending(s)
    BY <2>9 DEF SendPending, Running, Return, simVars, nodeVars, wireVars, threadVars
  <2>10. CASE ReadNodeRequest(s)
    BY <2>10 DEF ReadNodeRequest, Goto, lockVars, nodeVars, wireVars, threadVars
  <2> QED BY <1>6, <2>1, <2>2, <2>3, <2>4, <2>5, <2>6, <2>7, <2>8, <2>9, <2>10 DEF ReadNext
<1>7. ASSUME NEW s \in Simulator, InstantiateNext(s) PROVE Delivering'
  <2>1. CASE InstantiateStale(s)
    BY <2>1 DEF InstantiateStale, Instantiating, Running, Return, nodeVars, wireVars,
        threadVars
  <2>2. CASE InstantiateBusy(s)
    BY <2>2 DEF InstantiateBusy, Instantiating, Running, Post, Return, simVars,
        nodeVars, wireVars, threadVars
  <2>3. CASE Refused(s)
    BY <2>3 DEF Refused, Requesting, Instantiating, Running, Return, nodeVars, wireVars,
        threadVars
  <2>4. CASE CreateMap(s)
    <3>1. mpc[Wanted(s)] = "none" BY <2>4, NoThreadYet
    <3> QED BY <2>4, <3>1 DEF CreateMap, nodeVars
  <2>5. CASE MapCreated(s)
    BY <2>5 DEF MapCreated, Running, Wanted, Return, nodeVars, threadVars
  <2>6. CASE MapNotCreated(s)
    BY <2>6 DEF MapNotCreated, Running, Wanted, Return, nodeVars, wireVars
  <2>7. CASE JoinMap(s)
    BY <2>7 DEF JoinMap, Requesting, Instantiating, Running, Wanted, Return, nodeVars,
        threadVars
  <2> QED BY <1>7, <2>1, <2>2, <2>3, <2>4, <2>5, <2>6, <2>7 DEF InstantiateNext
<1>8. ASSUME NEW s \in Simulator, QuitNext(s) PROVE Delivering'
  <2>1. CASE MapDeleted(s)
    BY <2>1 DEF MapDeleted, Running, Wanted, Return, nodeVars
  <2>2. CASE \E t \in Simulator : AboutToFinish(s, t)
    <3>1. PICK u \in Simulator : AboutToFinish(s, u) BY <2>2
    <3>2. pc[u] = "idle" /\ alive[u]
      BY <3>1 DEF AboutToFinish, OneSlotEach, Leaving
    <3>3. mayBlock[u] = Main BY <3>2 DEF MainHolds, LentPlaces
    <3>4. \A m \in MapThread, t \in Simulator :
            (simLock'[t] = m <=> simLock[t] = m) /\ (mayBlock[t] = m => mayBlock'[t] = m)
      BY <3>1, <3>3 DEF AboutToFinish, TypeOK, LockTypes
    <3> QED BY <3>1, <3>4, DeliveringKept DEF AboutToFinish, nodeVars, threadVars
  <2>3. CASE AboutReleased(s)
    BY <2>3 DEF AboutReleased, Running, FreeNode, Goto, simVars, lockVars, wireVars,
        threadVars
  <2>4. CASE AboutDone(s)
    BY <2>4 DEF AboutDone, Running, Return, nodeVars, wireVars, threadVars
  <2>5. CASE DeleteMap(s) \/ QuitLock(s) \/ QuitDone(s) \/ (\E t \in Simulator :
            AboutToFinishPanics(s, t)) \/ (\E t \in Simulator : AboutToFinishNoNode(s,
            t))
    BY <2>5 DEF DeleteMap, Goto, simVars, nodeVars, threadVars, QuitLock, QuitDone,
        AboutToFinishPanics, Notified, mainVars, lockVars, AboutToFinishNoNode
  <2> QED BY <1>8, <2>1, <2>2, <2>3, <2>4, <2>5 DEF QuitNext
<1>9. ASSUME NEW s \in Simulator, FinalizeNext(s) PROVE Delivering'
  <2>1. CASE FinalizeNoNode(s)
    BY <2>1 DEF FinalizeNoNode, Finalizing, Running, ShutDown, Post, Return, nodeVars,
        wireVars, threadVars
  <2>2. CASE FinalizeRelease(s)
    <3>1. mayBlock[s] = Main
      BY <2>2 DEF FinalizeRelease, Finalizing, MainHolds, Leaving, LentPlaces, Slots
    <3>2. \A m \in MapThread, t \in Simulator :
            (simLock'[t] = m <=> simLock[t] = m) /\ (mayBlock[t] = m => mayBlock'[t] = m)
      BY <2>2, <3>1 DEF FinalizeRelease, TypeOK, LockTypes
    <3> QED BY <2>2, <3>2, DeliveringKept DEF FinalizeRelease, nodeVars, threadVars
  <2>3. CASE FinalizeBusy(s)
    <3>1. mayBlock[s] = Main
      BY <2>3 DEF FinalizeBusy, Finalizing, MainHolds, Leaving, LentPlaces, Slots
    <3>2. \A m \in MapThread, t \in Simulator :
            (simLock'[t] = m <=> simLock[t] = m) /\ (mayBlock[t] = m => mayBlock'[t] = m)
      BY <2>3, <3>1 DEF FinalizeBusy, TypeOK, LockTypes
    <3> QED BY <2>3, <3>2, DeliveringKept DEF FinalizeBusy, nodeVars, threadVars
  <2>4. CASE FinalizeLater(s)
    BY <2>4 DEF FinalizeLater, Running, Post, Return, simVars, nodeVars, threadVars
  <2>5. CASE FinalizeReleased(s)
    BY <2>5 DEF FinalizeReleased, Running, FreeNode, Goto, simVars, wireVars, threadVars
  <2>6. CASE FinalizeDone(s)
    BY <2>6 DEF FinalizeDone, Running, Post, Return, nodeVars, wireVars, threadVars
  <2> QED BY <1>9, <2>1, <2>2, <2>3, <2>4, <2>5, <2>6 DEF FinalizeNext
<1> QED BY <1>1, <1>2, <1>3, <1>4, <1>5, <1>6, <1>7, <1>8, <1>9
  DEF Next, SlotNext, CommonNext, Stopped

\* An observer only waits for events.
LEMMA ObserversStep ==
  ASSUME TypeOK, NodePointer, NotStarted, OneSlotEach, Observers, [Next]_vars
  PROVE  Observers'
<1> USE ConstantsAssumption DEF TypeOK, MainTypes, SimulatorTypes, MapTypes, Observers,
    NotStarted, OneSlotEach, Slots, TryPlaces, PollPlaces, LentPlaces, PollOf
<1>1. CASE UNCHANGED vars
  BY <1>1 DEF vars, mainVars, simVars, lockVars, nodeVars, wireVars, threadVars
<1>2. ASSUME NEW m \in MapThread, MapThreadNext(m) PROVE Observers'
  BY <1>2, MapThreadFrame
<1>3. ASSUME NEW s \in Simulator, ClientNext(s) PROVE Observers'
  <2>1. CASE DataArrives(s)
    BY <2>1 DEF DataArrives, Enter, ProcessingEvents, simVars, nodeVars, wireVars,
        threadVars
  <2>2. CASE SocketCloses(s)
    BY <2>2 DEF SocketCloses, Post, mainVars, lockVars, nodeVars, wireVars, threadVars
  <2> QED BY <1>3, <2>1, <2>2 DEF ClientNext
<1>4. ASSUME NEW s \in Simulator, EventNext(s) PROVE Observers'
  <2>1. CASE Run(s)
    BY <2>1 DEF Run, ProcessingEvents, mainVars, lockVars, nodeVars, wireVars,
        threadVars
  <2>2. CASE Delete(s)
    BY <2>2 DEF Delete, ProcessingEvents, mainVars, nodeVars, threadVars
  <2>3. CASE \E slot \in Slots : PostedSlot(s, slot)
    BY <2>3 DEF PostedSlot, Enter, ProcessingEvents, simVars, nodeVars, wireVars,
        threadVars
  <2>4. CASE DropFinalize(s)
    BY <2>4 DEF DropFinalize, mainVars, simVars, lockVars, nodeVars, wireVars,
        threadVars
  <2> QED BY <1>4, <2>1, <2>2, <2>3, <2>4 DEF EventNext
<1>5. ASSUME NEW s \in Simulator, CommonNext(s) PROVE Observers'
  <2>1. CASE ReturnShuttingDown(s)
    BY <2>1 DEF ReturnShuttingDown, Running, Return, simVars, nodeVars, wireVars,
        threadVars
  <2>2. CASE Poll(s)
    BY <2>2 DEF Poll, Running, Goto, simVars, lockVars, nodeVars, wireVars, threadVars
  <2>3. CASE EventsProcessed(s)
    BY <2>3 DEF EventsProcessed, Running, Goto, simVars, lockVars, nodeVars, wireVars,
        threadVars
  <2> QED BY <1>5, <2>1, <2>2, <2>3 DEF CommonNext
<1>6. ASSUME NEW s \in Simulator, ReadNext(s) PROVE Observers'
  <2>1. CASE ReadNothing(s)
    BY <2>1 DEF ReadNothing, Reading, Running, Return, simVars, nodeVars, wireVars,
        threadVars
  <2>2. CASE ReadDisconnect(s)
    BY <2>2 DEF ReadDisconnect, Reading, Running, Return, nodeVars, wireVars, threadVars
  <2>3. CASE ReadMapRequest(s)
    BY <2>3 DEF ReadMapRequest, Reading, Running, Post, Return, nodeVars, wireVars,
        threadVars
  <2>4. CASE ReadNodeRequest(s)
    BY <2>4 DEF ReadNodeRequest, Reading, Running, Goto, lockVars, nodeVars, wireVars,
        threadVars
  <2>5. CASE AcquireNode(s)
    BY <2>5 DEF AcquireNode, Running, Return, wireVars, threadVars
  <2>6. CASE NodeNotAvailable(s)
    BY <2>6 DEF NodeNotAvailable, Running, Return, nodeVars, wireVars, threadVars
  <2>7. CASE StartSimulation(s)
    BY <2>7 DEF StartSimulation, Reading, Running, Return, nodeVars, wireVars,
        threadVars
  <2>8. CASE EmitCommand(s)
    BY <2>8 DEF EmitCommand, Reading, Running, Goto, simVars, nodeVars, wireVars
  <2>9. CASE CommandDone(s)
    BY <2>9 DEF CommandDone, Running, PostSendPending, Return, simVars, nodeVars,
        wireVars, threadVars
  <2>10. CASE SendPending(s)
    BY <2>10 DEF SendPending, Running, Return, simVars, nodeVars, wireVars, threadVars
  <2> QED BY <1>6, <2>1, <2>2, <2>3, <2>4, <2>5, <2>6, <2>7, <2>8, <2>9, <2>10 DEF ReadNext
<1>7. ASSUME NEW s \in Simulator, InstantiateNext(s) PROVE Observers'
  <2>1. CASE InstantiateStale(s)
    BY <2>1 DEF InstantiateStale, Instantiating, Running, Return, nodeVars, wireVars,
        threadVars
  <2>2. CASE InstantiateBusy(s)
    BY <2>2 DEF InstantiateBusy, Instantiating, Running, Post, Return, simVars,
        nodeVars, wireVars, threadVars
  <2>3. CASE Refused(s)
    BY <2>3 DEF Refused, Requesting, Instantiating, Running, Return, nodeVars, wireVars,
        threadVars
  <2>4. CASE CreateMap(s)
    BY <2>4 DEF CreateMap, Requesting, Instantiating, Running, Wanted, Goto, simVars,
        nodeVars, wireVars
  <2>5. CASE MapCreated(s)
    BY <2>5 DEF MapCreated, Running, Wanted, Return, nodeVars, threadVars
  <2>6. CASE MapNotCreated(s)
    BY <2>6 DEF MapNotCreated, Running, Wanted, Return, nodeVars, wireVars
  <2>7. CASE JoinMap(s)
    <3>1. /\ pc[s] = "instantiate" /\ comm[s] = "InstantiatingOrRetrievingMap"
          /\ request[s] # Nobody /\ node[s] = Nobody
      BY <2>7 DEF JoinMap, Requesting, Instantiating, NodePointer, RequestKnown
    <3>2. ASSUME NEW m \in MapThread, NEW o \in observers'[m]
          PROVE  /\ comm'[o] \in {"ObservingChangeEvents", "Disconnected"}
                 /\ request'[o] # Nobody /\ node'[o] = Nobody
                 /\ pc'[o] \in Slots \cup {"idle"}
      <4>1. s \notin observers[m] BY <3>1
      <4>2. CASE o \in observers[m] BY <2>7, <4>1, <4>2 DEF JoinMap, Return
      <4>3. CASE o \notin observers[m]
        <5>1. request[s].kind # "connect" /\ observers' = [observers EXCEPT ![Wanted(s)] = @ \cup {s}]
          BY <2>7, <4>3 DEF JoinMap
        <5>2. o = s BY <3>2, <4>3, <5>1
        <5>3. comm'[s] = "ObservingChangeEvents" BY <2>7, <5>1 DEF JoinMap
        <5> QED BY <2>7, <3>1, <5>2, <5>3 DEF JoinMap, Return
      <4> QED BY <4>2, <4>3
    <3> QED BY <3>2
  <2> QED BY <1>7, <2>1, <2>2, <2>3, <2>4, <2>5, <2>6, <2>7 DEF InstantiateNext
<1>8. ASSUME NEW s \in Simulator, QuitNext(s) PROVE Observers'
  <2>1. CASE DeleteMap(s)
    BY <2>1 DEF DeleteMap, Requesting, Instantiating, Running, Wanted, Goto, simVars,
        nodeVars, threadVars
  <2>2. CASE QuitLock(s)
    BY <2>2 DEF QuitLock, Running, Wanted, Goto, simVars, nodeVars, threadVars
  <2>3. CASE QuitDone(s)
    BY <2>3 DEF QuitDone, Running, Wanted, Goto, simVars, nodeVars, threadVars
  <2>4. CASE MapDeleted(s)
    BY <2>4 DEF MapDeleted, Running, Wanted, Return, nodeVars
  <2>5. CASE \E t \in Simulator : AboutToFinishNoNode(s, t)
    BY <2>5 DEF AboutToFinishNoNode, Emitting, Running, Wanted, Notified, mainVars,
        lockVars, nodeVars, threadVars
  <2>6. CASE \E t \in Simulator : AboutToFinish(s, t)
    BY <2>6 DEF AboutToFinish, Emitting, Running, Wanted, Notified, simVars, nodeVars,
        threadVars
  <2>7. CASE AboutReleased(s)
    BY <2>7 DEF AboutReleased, Running, FreeNode, Goto, simVars, lockVars, wireVars,
        threadVars
  <2>8. CASE AboutDone(s)
    BY <2>8 DEF AboutDone, Running, Return, nodeVars, wireVars, threadVars
  <2>9. CASE \E t \in Simulator : AboutToFinishPanics(s, t)
    BY <2>9 DEF AboutToFinishPanics, Notified, mainVars, simVars, lockVars, nodeVars,
        threadVars
  <2> QED BY <1>8, <2>1, <2>2, <2>3, <2>4, <2>5, <2>6, <2>7, <2>8, <2>9 DEF QuitNext
<1>9. ASSUME NEW s \in Simulator, FinalizeNext(s) PROVE Observers'
  <2>1. CASE FinalizeNoNode(s)
    BY <2>1 DEF FinalizeNoNode, Finalizing, Running, ShutDown, Post, Return, nodeVars,
        wireVars, threadVars
  <2>2. CASE FinalizeRelease(s)
    BY <2>2 DEF FinalizeRelease, Finalizing, Running, ShutDown, Goto, nodeVars,
        wireVars, threadVars
  <2>3. CASE FinalizeBusy(s)
    BY <2>3 DEF FinalizeBusy, Finalizing, Running, ShutDown, Goto, nodeVars, wireVars,
        threadVars
  <2>4. CASE FinalizeLater(s)
    BY <2>4 DEF FinalizeLater, Running, Post, Return, simVars, nodeVars, threadVars
  <2>5. CASE FinalizeReleased(s)
    BY <2>5 DEF FinalizeReleased, Running, FreeNode, Goto, simVars, wireVars, threadVars
  <2>6. CASE FinalizeDone(s)
    BY <2>6 DEF FinalizeDone, Running, Post, Return, nodeVars, wireVars, threadVars
  <2> QED BY <1>9, <2>1, <2>2, <2>3, <2>4, <2>5, <2>6 DEF FinalizeNext
<1> QED BY <1>1, <1>2, <1>3, <1>4, <1>5, <1>6, <1>7, <1>8, <1>9
  DEF Next, SlotNext, CommonNext, Stopped

\* Only the holder of the lock of a map emits its signals.
LEMMA EmissionsStep ==
  ASSUME TypeOK, OneFactoryHolder, Emissions, [Next]_vars
  PROVE  Emissions'
<1> USE ConstantsAssumption DEF TypeOK, MainTypes, SimulatorTypes, LockTypes,
    ThreadTypes, MapTypes, OneFactoryHolder, Emissions, Wanted, FactoryPlaces, Slots,
    TryPlaces, PollPlaces, LentPlaces, PollOf
<1>1. CASE UNCHANGED vars
  BY <1>1 DEF vars, mainVars, simVars, lockVars, nodeVars, wireVars, threadVars
<1>2. ASSUME NEW m \in MapThread, MapThreadNext(m) PROVE Emissions'
  <2>1. CASE SetUp(m)
    BY <2>1 DEF SetUp, MoveTo, mainVars, simVars, lockVars, nodeVars, wireVars
  <2>2. CASE \E n \in Node : FrameArrives(m, n)
    BY <2>2 DEF FrameArrives, MoveTo, mainVars, simVars, nodeVars, wireVars
  <2>3. CASE NotForSimulator(m)
    BY <2>3 DEF NotForSimulator, MoveTo, mainVars, simVars, nodeVars, wireVars
  <2>4. CASE EmitFrameReceived(m)
    BY <2>4 DEF EmitFrameReceived, MoveTo, mainVars, simVars, lockVars, nodeVars,
        wireVars
  <2>5. CASE TryMutex(m)
    BY <2>5 DEF TryMutex, Target, MoveTo, mainVars, simVars, nodeVars, wireVars
  <2>6. CASE TryMayBlock(m)
    BY <2>6 DEF TryMayBlock, Target, MoveTo, mainVars, simVars, nodeVars, wireVars
  <2>7. CASE Deliver(m)
    BY <2>7 DEF Deliver, Target, PostSendPending, MoveTo, mainVars, simVars, nodeVars,
        wireVars
  <2>8. CASE ServeSend(m)
    BY <2>8 DEF ServeSend, Reply, MoveTo, mainVars, simVars, lockVars, nodeVars,
        wireVars
  <2>9. CASE ServeInvalid(m)
    BY <2>9 DEF ServeInvalid, MoveTo, mainVars, simVars, lockVars, nodeVars, wireVars
  <2>10. CASE NotifyInvalid(m)
    BY <2>10 DEF NotifyInvalid, Reply, MoveTo, mainVars, simVars, lockVars, nodeVars,
        wireVars
  <2>11. CASE ServeChange(m)
    BY <2>11 DEF ServeChange, MoveTo, mainVars, simVars, lockVars, nodeVars, wireVars
  <2>12. CASE LockMapChanges(m)
    BY <2>12 DEF LockMapChanges, MoveTo, mainVars, simVars, nodeVars
  <2>13. CASE \E o \in Simulator : NotifyObserver(m, o)
    BY <2>13 DEF NotifyObserver, mainVars, simVars, lockVars, nodeVars, threadVars
  <2>14. CASE ChangeDone(m)
    BY <2>14 DEF ChangeDone, Reply, MoveTo, mainVars, simVars, nodeVars, wireVars
  <2>15. CASE LeaveLoop(m)
    BY <2>15 DEF LeaveLoop, MoveTo, mainVars, simVars, lockVars, nodeVars, wireVars
  <2> QED BY <1>2, <2>1, <2>2, <2>3, <2>4, <2>5, <2>6, <2>7, <2>8, <2>9, <2>10, <2>11,
      <2>12, <2>13, <2>14, <2>15 DEF MapThreadNext
<1>3. ASSUME NEW s \in Simulator, ClientNext(s) PROVE Emissions'
  <2>1. CASE DataArrives(s)
    BY <2>1 DEF DataArrives, Enter, ProcessingEvents, simVars, nodeVars, wireVars,
        threadVars
  <2>2. CASE SocketCloses(s)
    BY <2>2 DEF SocketCloses, Post, mainVars, lockVars, nodeVars, wireVars, threadVars
  <2> QED BY <1>3, <2>1, <2>2 DEF ClientNext
<1>4. ASSUME NEW s \in Simulator, EventNext(s) PROVE Emissions'
  <2>1. CASE Delete(s)
    BY <2>1 DEF Delete, ProcessingEvents, mainVars, nodeVars, threadVars
  <2>2. CASE \E slot \in Slots : PostedSlot(s, slot)
    BY <2>2 DEF PostedSlot, Enter, ProcessingEvents, simVars, nodeVars, wireVars,
        threadVars
  <2>3. CASE Run(s) \/ DropFinalize(s)
    BY <2>3 DEF Run, mainVars, lockVars, nodeVars, wireVars, threadVars, DropFinalize,
        simVars
  <2> QED BY <1>4, <2>1, <2>2, <2>3 DEF EventNext
<1>5. ASSUME NEW s \in Simulator, CommonNext(s) PROVE Emissions'
  <2>1. CASE ReturnShuttingDown(s)
    BY <2>1 DEF ReturnShuttingDown, Running, Return, simVars, nodeVars, wireVars,
        threadVars
  <2>2. CASE Poll(s)
    BY <2>2 DEF Poll, Running, Goto, simVars, lockVars, nodeVars, wireVars, threadVars
  <2>3. CASE EventsProcessed(s)
    BY <2>3 DEF EventsProcessed, Running, Goto, simVars, lockVars, nodeVars, wireVars,
        threadVars
  <2> QED BY <1>5, <2>1, <2>2, <2>3 DEF CommonNext
<1>6. ASSUME NEW s \in Simulator, ReadNext(s) PROVE Emissions'
  <2>1. CASE ReadNothing(s)
    BY <2>1 DEF ReadNothing, Reading, Running, Return, simVars, nodeVars, wireVars,
        threadVars
  <2>2. CASE ReadDisconnect(s)
    BY <2>2 DEF ReadDisconnect, Reading, Running, Return, nodeVars, wireVars, threadVars
  <2>3. CASE ReadMapRequest(s)
    BY <2>3 DEF ReadMapRequest, Reading, Running, Post, Return, nodeVars, wireVars,
        threadVars
  <2>4. CASE ReadNodeRequest(s)
    BY <2>4 DEF ReadNodeRequest, Reading, Running, Goto, lockVars, nodeVars, wireVars,
        threadVars
  <2>5. CASE AcquireNode(s)
    BY <2>5 DEF AcquireNode, Running, Return, wireVars, threadVars
  <2>6. CASE NodeNotAvailable(s)
    BY <2>6 DEF NodeNotAvailable, Running, Return, nodeVars, wireVars, threadVars
  <2>7. CASE StartSimulation(s)
    BY <2>7 DEF StartSimulation, Reading, Running, Return, nodeVars, wireVars,
        threadVars
  <2>8. CASE EmitCommand(s)
    BY <2>8 DEF EmitCommand, Reading, Running, Goto, simVars, nodeVars, wireVars
  <2>9. CASE CommandDone(s)
    BY <2>9 DEF CommandDone, Running, PostSendPending, Return, simVars, nodeVars,
        wireVars, threadVars
  <2>10. CASE SendPending(s)
    BY <2>10 DEF SendPending, Running, Return, simVars, nodeVars, wireVars, threadVars
  <2> QED BY <1>6, <2>1, <2>2, <2>3, <2>4, <2>5, <2>6, <2>7, <2>8, <2>9, <2>10 DEF ReadNext
<1>7. ASSUME NEW s \in Simulator, InstantiateNext(s) PROVE Emissions'
  <2>1. CASE InstantiateStale(s)
    BY <2>1 DEF InstantiateStale, Instantiating, Running, Return, nodeVars, wireVars,
        threadVars
  <2>2. CASE InstantiateBusy(s)
    BY <2>2 DEF InstantiateBusy, Instantiating, Running, Post, Return, simVars,
        nodeVars, wireVars, threadVars
  <2>3. CASE Refused(s)
    BY <2>3 DEF Refused, Requesting, Instantiating, Running, Return, nodeVars, wireVars,
        threadVars
  <2>4. CASE CreateMap(s)
    BY <2>4 DEF CreateMap, Requesting, Instantiating, Running, Goto, simVars, nodeVars,
        wireVars
  <2>5. CASE MapCreated(s)
    BY <2>5 DEF MapCreated, Running, Return, nodeVars, threadVars
  <2>6. CASE MapNotCreated(s)
    BY <2>6 DEF MapNotCreated, Running, Return, nodeVars, wireVars
  <2>7. CASE JoinMap(s)
    <3>1. /\ mpc' = mpc /\ mapLock' = mapLock /\ toNotify' = toNotify
          /\ request' = request
      BY <2>7 DEF JoinMap, threadVars
    <3>2. \A m \in MapThread : observers[m] \subseteq observers'[m] BY <2>7 DEF JoinMap
    <3>3. \A t \in Simulator : pc'[t] = "quitEmit" => pc[t] = "quitEmit"
      BY <2>7 DEF JoinMap, Return
    <3> QED BY <3>1, <3>2, <3>3
  <2> QED BY <1>7, <2>1, <2>2, <2>3, <2>4, <2>5, <2>6, <2>7 DEF InstantiateNext
<1>8. ASSUME NEW s \in Simulator, QuitNext(s) PROVE Emissions'
  <2>1. CASE DeleteMap(s)
    BY <2>1 DEF DeleteMap, Requesting, Instantiating, Running, Goto, simVars, nodeVars,
        threadVars
  <2>2. CASE QuitLock(s)
    <3>1. Wanted(s) \in MapThread BY <2>2, WantedType DEF QuitLock, Slots
    <3>2. ASSUME NEW m \in MapThread, mpc'[m] = "observe"
          PROVE  mapLock'[m] = m /\ toNotify'[m] \subseteq observers'[m]
      <4>1. mpc[m] = "observe" /\ mapLock[m] = m BY <2>2, <3>2 DEF QuitLock, threadVars
      <4>2. m # Wanted(s) BY <2>2, <4>1 DEF QuitLock
      <4> QED BY <2>2, <4>1, <4>2 DEF QuitLock
    <3>3. ASSUME NEW t \in Simulator, pc'[t] = "quitEmit" PROVE mapLock'[Wanted(t)'] = Main
      <4>1. Wanted(t)' = Wanted(t) BY <2>2 DEF QuitLock, simVars, Wanted
      <4>2. CASE t = s BY <2>2, <3>1, <4>1, <4>2 DEF QuitLock
      <4>3. CASE t # s
        <5>1. pc[t] = "quitEmit" BY <2>2, <3>3, <4>3 DEF QuitLock, Goto
        <5> QED BY <2>2, <3>1, <4>1, <5>1 DEF QuitLock
      <4> QED BY <4>2, <4>3
    <3> QED BY <3>2, <3>3
  <2>3. CASE QuitDone(s)
    BY <2>3 DEF QuitDone, Running, Goto, simVars, nodeVars, threadVars
  <2>4. CASE MapDeleted(s)
    BY <2>4 DEF MapDeleted, Running, Return, nodeVars
  <2>5. CASE \E t \in Simulator : AboutToFinishPanics(s, t)
    BY <2>5 DEF AboutToFinishPanics, Emitting, Running, Notified, mainVars, simVars,
        lockVars, nodeVars, threadVars
  <2>6. CASE \E t \in Simulator : AboutToFinishNoNode(s, t)
    BY <2>6 DEF AboutToFinishNoNode, Emitting, Running, Notified, mainVars, lockVars,
        nodeVars, threadVars
  <2>7. CASE \E t \in Simulator : AboutToFinish(s, t)
    BY <2>7 DEF AboutToFinish, Emitting, Running, Notified, simVars, nodeVars,
        threadVars
  <2>8. CASE AboutReleased(s)
    BY <2>8 DEF AboutReleased, Running, FreeNode, Goto, simVars, lockVars, wireVars,
        threadVars
  <2>9. CASE AboutDone(s)
    BY <2>9 DEF AboutDone, Running, Return, nodeVars, wireVars, threadVars
  <2> QED BY <1>8, <2>1, <2>2, <2>3, <2>4, <2>5, <2>6, <2>7, <2>8, <2>9 DEF QuitNext
<1>9. ASSUME NEW s \in Simulator, FinalizeNext(s) PROVE Emissions'
  <2>1. CASE FinalizeNoNode(s)
    BY <2>1 DEF FinalizeNoNode, Finalizing, Running, ShutDown, Post, Return, nodeVars,
        wireVars, threadVars
  <2>2. CASE FinalizeRelease(s)
    BY <2>2 DEF FinalizeRelease, Finalizing, Running, ShutDown, Goto, nodeVars,
        wireVars, threadVars
  <2>3. CASE FinalizeBusy(s)
    BY <2>3 DEF FinalizeBusy, Finalizing, Running, ShutDown, Goto, nodeVars, wireVars,
        threadVars
  <2>4. CASE FinalizeLater(s)
    BY <2>4 DEF FinalizeLater, Running, Post, Return, simVars, nodeVars, threadVars
  <2>5. CASE FinalizeReleased(s)
    BY <2>5 DEF FinalizeReleased, Running, FreeNode, Goto, simVars, wireVars, threadVars
  <2>6. CASE FinalizeDone(s)
    BY <2>6 DEF FinalizeDone, Running, Post, Return, nodeVars, wireVars, threadVars
  <2> QED BY <1>9, <2>1, <2>2, <2>3, <2>4, <2>5, <2>6 DEF FinalizeNext
<1> QED BY <1>1, <1>2, <1>3, <1>4, <1>5, <1>6, <1>7, <1>8, <1>9
  DEF Next, SlotNext, CommonNext, Stopped

\* A step that leaves threads, managed maps and waiting slots as they are keeps
\* MapKnown.
LEMMA MapKnownKept ==
  ASSUME MapKnown, managed \subseteq managed',
         \A m \in MapThread : mpc'[m] # "none" => mpc[m] # "none",
         \A t \in Simulator : pc[t] \in MapPlaces =>
           pc'[t] \in MapPlaces /\ Wanted(t)' = Wanted(t)
  PROVE  MapKnown'
BY DEF MapKnown

\* A map thread is always known to the factory or to the slot at work on it.
LEMMA MapKnownStep ==
  ASSUME TypeOK, OneSlotEach, NestedPlaces, OneFactoryHolder, MapKnown, [Next]_vars
  PROVE  MapKnown'
<1> USE ConstantsAssumption DEF TypeOK, MainTypes, SimulatorTypes, MapTypes,
    ThreadTypes, MapPlaces, Wanted, Slots, TryPlaces, PollPlaces, LentPlaces, PollOf
<1>1. CASE UNCHANGED vars
  BY <1>1, MapKnownKept DEF vars, mainVars, simVars, lockVars, nodeVars, wireVars,
      threadVars
<1>2. ASSUME NEW m \in MapThread, MapThreadNext(m) PROVE MapKnown'
  <2>1. CASE SetUp(m)
    BY <2>1, MapKnownKept DEF SetUp, MoveTo, mainVars, simVars, lockVars, nodeVars,
        wireVars
  <2>2. CASE \E n \in Node : FrameArrives(m, n)
    BY <2>2, MapKnownKept DEF FrameArrives, MoveTo, mainVars, simVars, nodeVars,
        wireVars
  <2>3. CASE NotForSimulator(m)
    BY <2>3, MapKnownKept DEF NotForSimulator, MoveTo, mainVars, simVars, nodeVars,
        wireVars
  <2>4. CASE EmitFrameReceived(m)
    BY <2>4, MapKnownKept DEF EmitFrameReceived, MoveTo, mainVars, simVars, lockVars,
        nodeVars, wireVars
  <2>5. CASE TryMutex(m)
    BY <2>5, MapKnownKept DEF TryMutex, Target, MoveTo, mainVars, simVars, nodeVars,
        wireVars
  <2>6. CASE TryMayBlock(m)
    BY <2>6, MapKnownKept DEF TryMayBlock, Target, MoveTo, mainVars, simVars, nodeVars,
        wireVars
  <2>7. CASE Deliver(m)
    BY <2>7, MapKnownKept DEF Deliver, Target, PostSendPending, MoveTo, mainVars,
        simVars, nodeVars, wireVars
  <2>8. CASE ServeSend(m)
    BY <2>8, MapKnownKept DEF ServeSend, Reply, MoveTo, mainVars, simVars, lockVars,
        nodeVars, wireVars
  <2>9. CASE ServeInvalid(m)
    BY <2>9, MapKnownKept DEF ServeInvalid, MoveTo, mainVars, simVars, lockVars,
        nodeVars, wireVars
  <2>10. CASE NotifyInvalid(m)
    BY <2>10, MapKnownKept DEF NotifyInvalid, Reply, MoveTo, mainVars, simVars,
        lockVars, nodeVars, wireVars
  <2>11. CASE ServeChange(m)
    BY <2>11, MapKnownKept DEF ServeChange, MoveTo, mainVars, simVars, lockVars,
        nodeVars, wireVars
  <2>12. CASE LockMapChanges(m)
    BY <2>12, MapKnownKept DEF LockMapChanges, MoveTo, mainVars, simVars, nodeVars
  <2>13. CASE ChangeDone(m)
    BY <2>13, MapKnownKept DEF ChangeDone, Reply, MoveTo, mainVars, simVars, nodeVars,
        wireVars
  <2>14. CASE LeaveLoop(m)
    BY <2>14, MapKnownKept DEF LeaveLoop, MoveTo, mainVars, simVars, lockVars, nodeVars,
        wireVars
  <2>15. CASE \E o \in Simulator : NotifyObserver(m, o)
    BY <2>15, MapKnownKept DEF NotifyObserver, mainVars, simVars, lockVars, nodeVars,
        threadVars
  <2> QED BY <1>2, <2>1, <2>2, <2>3, <2>4, <2>5, <2>6, <2>7, <2>8, <2>9, <2>10, <2>11,
      <2>12, <2>13, <2>14, <2>15 DEF MapThreadNext
<1>3. ASSUME NEW s \in Simulator, ClientNext(s) PROVE MapKnown'
  <2>1. CASE DataArrives(s)
    BY <2>1, MapKnownKept DEF DataArrives, Enter, ProcessingEvents, simVars, nodeVars,
        wireVars, threadVars, OneSlotEach
  <2>2. CASE SocketCloses(s)
    BY <2>2, MapKnownKept DEF SocketCloses, Post, mainVars, lockVars, nodeVars,
        wireVars, threadVars
  <2> QED BY <1>3, <2>1, <2>2 DEF ClientNext
<1>4. ASSUME NEW s \in Simulator, EventNext(s) PROVE MapKnown'
  <2>1. CASE \E slot \in Slots : PostedSlot(s, slot)
    BY <2>1, MapKnownKept DEF PostedSlot, Enter, ProcessingEvents, simVars, nodeVars,
        wireVars, threadVars, OneSlotEach
  <2>2. CASE Run(s) \/ DropFinalize(s) \/ Delete(s)
    BY <2>2, MapKnownKept DEF Run, mainVars, lockVars, nodeVars, wireVars, threadVars,
        DropFinalize, simVars, Delete
  <2> QED BY <1>4, <2>1, <2>2 DEF EventNext
<1>5. ASSUME NEW s \in Simulator, CommonNext(s) PROVE MapKnown'
  <2>1. CASE ReturnShuttingDown(s)
    BY <2>1, MapKnownKept DEF ReturnShuttingDown, Running, Return, simVars, nodeVars,
        wireVars, threadVars
  <2>2. CASE Poll(s)
    BY <2>2, MapKnownKept DEF Poll, Running, Goto, simVars, lockVars, nodeVars,
        wireVars, threadVars
  <2>3. CASE EventsProcessed(s)
    BY <2>3, MapKnownKept DEF EventsProcessed, Running, Goto, simVars, lockVars,
        nodeVars, wireVars, threadVars
  <2> QED BY <1>5, <2>1, <2>2, <2>3 DEF CommonNext
<1>6. ASSUME NEW s \in Simulator, ReadNext(s) PROVE MapKnown'
  <2>1. CASE ReadNothing(s)
    BY <2>1, MapKnownKept DEF ReadNothing, Reading, Running, Return, simVars, nodeVars,
        wireVars, threadVars
  <2>2. CASE ReadDisconnect(s)
    BY <2>2, MapKnownKept DEF ReadDisconnect, Reading, Running, Return, nodeVars,
        wireVars, threadVars
  <2>3. CASE ReadMapRequest(s)
    BY <2>3, MapKnownKept DEF ReadMapRequest, Reading, Running, Post, Return, nodeVars,
        wireVars, threadVars
  <2>4. CASE ReadNodeRequest(s)
    BY <2>4, MapKnownKept DEF ReadNodeRequest, Reading, Running, Goto, lockVars,
        nodeVars, wireVars, threadVars
  <2>5. CASE AcquireNode(s)
    BY <2>5, MapKnownKept DEF AcquireNode, Running, Return, wireVars, threadVars
  <2>6. CASE NodeNotAvailable(s)
    BY <2>6, MapKnownKept DEF NodeNotAvailable, Running, Return, nodeVars, wireVars,
        threadVars
  <2>7. CASE StartSimulation(s)
    BY <2>7, MapKnownKept DEF StartSimulation, Reading, Running, Return, nodeVars,
        wireVars, threadVars
  <2>8. CASE EmitCommand(s)
    BY <2>8, MapKnownKept DEF EmitCommand, Reading, Running, Goto, simVars, nodeVars,
        wireVars
  <2>9. CASE CommandDone(s)
    BY <2>9, MapKnownKept DEF CommandDone, Running, PostSendPending, Return, simVars,
        nodeVars, wireVars, threadVars
  <2>10. CASE SendPending(s)
    BY <2>10, MapKnownKept DEF SendPending, Running, Return, simVars, nodeVars,
        wireVars, threadVars
  <2> QED BY <1>6, <2>1, <2>2, <2>3, <2>4, <2>5, <2>6, <2>7, <2>8, <2>9, <2>10 DEF ReadNext
<1>7. ASSUME NEW s \in Simulator, InstantiateNext(s) PROVE MapKnown'
  <2>1. CASE InstantiateStale(s)
    BY <2>1, MapKnownKept DEF InstantiateStale, Instantiating, Running, Return,
        nodeVars, wireVars, threadVars
  <2>2. CASE InstantiateBusy(s)
    BY <2>2, MapKnownKept DEF InstantiateBusy, Instantiating, Running, Post, Return,
        simVars, nodeVars, wireVars, threadVars
  <2>3. CASE Refused(s)
    BY <2>3, MapKnownKept DEF Refused, Requesting, Instantiating, Running, Return,
        nodeVars, wireVars, threadVars
  <2>4. CASE CreateMap(s)
    BY <2>4 DEF CreateMap, Requesting, Instantiating, Running, Goto, simVars, nodeVars,
        wireVars, MapKnown, OneFactoryHolder, FactoryPlaces, OneSlotEach
  <2>5. CASE MapCreated(s)
    BY <2>5 DEF MapCreated, Running, Return, nodeVars, threadVars, MapKnown,
        OneFactoryHolder, FactoryPlaces, OneSlotEach
  <2>6. CASE MapNotCreated(s)
    BY <2>6 DEF MapNotCreated, Running, Return, nodeVars, wireVars, MapKnown,
        OneFactoryHolder, FactoryPlaces, OneSlotEach
  <2>7. CASE JoinMap(s)
    BY <2>7, MapKnownKept DEF JoinMap, Requesting, Instantiating, Running, Return,
        nodeVars, threadVars
  <2> QED BY <1>7, <2>1, <2>2, <2>3, <2>4, <2>5, <2>6, <2>7 DEF InstantiateNext
<1>8. ASSUME NEW s \in Simulator, QuitNext(s) PROVE MapKnown'
  <2>1. CASE DeleteMap(s)
    BY <2>1 DEF DeleteMap, Requesting, Instantiating, Running, Goto, simVars, nodeVars,
        threadVars, MapKnown, OneFactoryHolder, FactoryPlaces, OneSlotEach
  <2>2. CASE QuitLock(s)
    BY <2>2, MapKnownKept DEF QuitLock, Running, Goto, simVars, nodeVars, threadVars
  <2>3. CASE QuitDone(s)
    BY <2>3, MapKnownKept DEF QuitDone, Running, Goto, simVars, nodeVars, threadVars
  <2>4. CASE MapDeleted(s)
    BY <2>4 DEF MapDeleted, Running, Return, nodeVars, MapKnown, OneFactoryHolder,
        FactoryPlaces, OneSlotEach
  <2>5. CASE \E t \in Simulator : AboutToFinishNoNode(s, t)
    BY <2>5, MapKnownKept DEF AboutToFinishNoNode, Emitting, Running, Notified,
        mainVars, lockVars, nodeVars, threadVars
  <2>6. CASE \E t \in Simulator : AboutToFinish(s, t)
    BY <2>6, MapKnownKept DEF AboutToFinish, Emitting, Running, Notified, simVars, nodeVars,
        threadVars, OneSlotEach
  <2>7. CASE AboutReleased(s)
    BY <2>7, MapKnownKept DEF AboutReleased, Running, FreeNode, Goto, simVars, lockVars,
        wireVars, threadVars
  <2>8. CASE AboutDone(s)
    BY <2>8, MapKnownKept DEF AboutDone, Running, Return, nodeVars, wireVars, threadVars
  <2>9. CASE \E t \in Simulator : AboutToFinishPanics(s, t)
    BY <2>9, MapKnownKept DEF AboutToFinishPanics, Notified, mainVars, simVars,
        lockVars, nodeVars, threadVars
  <2> QED BY <1>8, <2>1, <2>2, <2>3, <2>4, <2>5, <2>6, <2>7, <2>8, <2>9 DEF QuitNext
<1>9. ASSUME NEW s \in Simulator, FinalizeNext(s) PROVE MapKnown'
  <2>1. CASE FinalizeNoNode(s)
    BY <2>1, MapKnownKept DEF FinalizeNoNode, Finalizing, Running, ShutDown, Post,
        Return, nodeVars, wireVars, threadVars
  <2>2. CASE FinalizeRelease(s)
    BY <2>2, MapKnownKept DEF FinalizeRelease, Finalizing, Running, ShutDown, Goto,
        nodeVars, wireVars, threadVars
  <2>3. CASE FinalizeBusy(s)
    BY <2>3, MapKnownKept DEF FinalizeBusy, Finalizing, Running, ShutDown, Goto,
        nodeVars, wireVars, threadVars
  <2>4. CASE FinalizeLater(s)
    BY <2>4, MapKnownKept DEF FinalizeLater, Running, Post, Return, simVars, nodeVars,
        threadVars
  <2>5. CASE FinalizeReleased(s)
    BY <2>5, MapKnownKept DEF FinalizeReleased, Running, FreeNode, Goto, simVars,
        wireVars, threadVars
  <2>6. CASE FinalizeDone(s)
    BY <2>6, MapKnownKept DEF FinalizeDone, Running, Post, Return, nodeVars, wireVars,
        threadVars
  <2> QED BY <1>9, <2>1, <2>2, <2>3, <2>4, <2>5, <2>6 DEF FinalizeNext
<1> QED BY <1>1, <1>2, <1>3, <1>4, <1>5, <1>6, <1>7, <1>8, <1>9
  DEF Next, SlotNext, CommonNext, Stopped

\* The factory's mutex is taken where a slot enters FactoryPlaces and released
\* where it leaves.
LEMMA OneFactoryHolderStep ==
  ASSUME TypeOK, OneSlotEach, OneFactoryHolder, [Next]_vars
  PROVE  OneFactoryHolder'
<1> USE ConstantsAssumption DEF TypeOK, MainTypes, LockTypes, OneSlotEach,
    OneFactoryHolder, FactoryPlaces, Slots, TryPlaces, PollPlaces, LentPlaces, PollOf
<1>1. CASE UNCHANGED vars
  BY <1>1 DEF vars, mainVars, simVars, lockVars, nodeVars, wireVars, threadVars
<1>2. ASSUME NEW m \in MapThread, MapThreadNext(m) PROVE OneFactoryHolder'
  BY <1>2, MapThreadFrame
<1>3. ASSUME NEW s \in Simulator, ClientNext(s) PROVE OneFactoryHolder'
  <2>1. CASE DataArrives(s)
    BY <2>1 DEF DataArrives, Enter, ProcessingEvents, simVars, nodeVars, wireVars,
        threadVars
  <2>2. CASE SocketCloses(s)
    BY <2>2 DEF SocketCloses, Post, mainVars, lockVars, nodeVars, wireVars, threadVars
  <2> QED BY <1>3, <2>1, <2>2 DEF ClientNext
<1>4. ASSUME NEW s \in Simulator, EventNext(s) PROVE OneFactoryHolder'
  <2>1. CASE \E slot \in Slots : PostedSlot(s, slot)
    BY <2>1 DEF PostedSlot, Enter, ProcessingEvents, simVars, nodeVars, wireVars,
        threadVars
  <2>2. CASE Run(s) \/ DropFinalize(s) \/ Delete(s)
    BY <2>2 DEF Run, mainVars, lockVars, nodeVars, wireVars, threadVars, DropFinalize,
        simVars, Delete
  <2> QED BY <1>4, <2>1, <2>2 DEF EventNext
<1>5. ASSUME NEW s \in Simulator, CommonNext(s) PROVE OneFactoryHolder'
  <2>1. CASE ReturnShuttingDown(s)
    BY <2>1 DEF ReturnShuttingDown, Running, Return, simVars, nodeVars, wireVars,
        threadVars
  <2>2. CASE Poll(s)
    BY <2>2 DEF Poll, Running, Goto, simVars, lockVars, nodeVars, wireVars, threadVars
  <2>3. CASE EventsProcessed(s)
    BY <2>3 DEF EventsProcessed, Running, Goto, simVars, lockVars, nodeVars, wireVars,
        threadVars
  <2> QED BY <1>5, <2>1, <2>2, <2>3 DEF CommonNext
<1>6. ASSUME NEW s \in Simulator, ReadNext(s) PROVE OneFactoryHolder'
  <2>1. CASE ReadNothing(s)
    BY <2>1 DEF ReadNothing, Reading, Running, Return, simVars, nodeVars, wireVars,
        threadVars
  <2>2. CASE ReadDisconnect(s)
    BY <2>2 DEF ReadDisconnect, Reading, Running, Return, nodeVars, wireVars, threadVars
  <2>3. CASE ReadMapRequest(s)
    BY <2>3 DEF ReadMapRequest, Reading, Running, Post, Return, nodeVars, wireVars,
        threadVars
  <2>4. CASE ReadNodeRequest(s)
    BY <2>4 DEF ReadNodeRequest, Reading, Running, Goto, lockVars, nodeVars, wireVars,
        threadVars
  <2>5. CASE AcquireNode(s)
    BY <2>5 DEF AcquireNode, Running, Return, wireVars, threadVars
  <2>6. CASE NodeNotAvailable(s)
    BY <2>6 DEF NodeNotAvailable, Running, Return, nodeVars, wireVars, threadVars
  <2>7. CASE StartSimulation(s)
    BY <2>7 DEF StartSimulation, Reading, Running, Return, nodeVars, wireVars,
        threadVars
  <2>8. CASE EmitCommand(s)
    BY <2>8 DEF EmitCommand, Reading, Running, Goto, simVars, nodeVars, wireVars
  <2>9. CASE CommandDone(s)
    BY <2>9 DEF CommandDone, Running, PostSendPending, Return, simVars, nodeVars,
        wireVars, threadVars
  <2>10. CASE SendPending(s)
    BY <2>10 DEF SendPending, Running, Return, simVars, nodeVars, wireVars, threadVars
  <2> QED BY <1>6, <2>1, <2>2, <2>3, <2>4, <2>5, <2>6, <2>7, <2>8, <2>9, <2>10 DEF ReadNext
<1>7. ASSUME NEW s \in Simulator, InstantiateNext(s) PROVE OneFactoryHolder'
  <2>1. CASE InstantiateStale(s)
    BY <2>1 DEF InstantiateStale, Instantiating, Running, Return, nodeVars, wireVars,
        threadVars
  <2>2. CASE InstantiateBusy(s)
    BY <2>2 DEF InstantiateBusy, Instantiating, Running, Post, Return, simVars,
        nodeVars, wireVars, threadVars
  <2>3. CASE Refused(s)
    BY <2>3 DEF Refused, Requesting, Instantiating, Running, Return, nodeVars, wireVars,
        threadVars
  <2>4. CASE CreateMap(s)
    BY <2>4 DEF CreateMap, Requesting, Instantiating, Running, Wanted, Goto, simVars,
        nodeVars, wireVars
  <2>5. CASE MapCreated(s)
    BY <2>5 DEF MapCreated, Running, Wanted, Return, nodeVars, threadVars
  <2>6. CASE MapNotCreated(s)
    BY <2>6 DEF MapNotCreated, Running, Wanted, Return, nodeVars, wireVars
  <2>7. CASE JoinMap(s)
    BY <2>7 DEF JoinMap, Requesting, Instantiating, Running, Wanted, Return, nodeVars,
        threadVars
  <2> QED BY <1>7, <2>1, <2>2, <2>3, <2>4, <2>5, <2>6, <2>7 DEF InstantiateNext
<1>8. ASSUME NEW s \in Simulator, QuitNext(s) PROVE OneFactoryHolder'
  <2>1. CASE DeleteMap(s)
    BY <2>1 DEF DeleteMap, Requesting, Instantiating, Running, Wanted, Goto, simVars,
        nodeVars, threadVars
  <2>2. CASE QuitLock(s)
    BY <2>2 DEF QuitLock, Running, Wanted, Goto, simVars, nodeVars, threadVars
  <2>3. CASE QuitDone(s)
    BY <2>3 DEF QuitDone, Running, Wanted, Goto, simVars, nodeVars, threadVars
  <2>4. CASE MapDeleted(s)
    BY <2>4 DEF MapDeleted, Running, Wanted, Return, nodeVars
  <2>5. CASE \E t \in Simulator : AboutToFinish(s, t)
    BY <2>5 DEF AboutToFinish, Emitting, Running, Wanted, Notified, simVars, nodeVars,
        threadVars
  <2>6. CASE AboutReleased(s)
    BY <2>6 DEF AboutReleased, Running, FreeNode, Goto, simVars, lockVars, wireVars,
        threadVars
  <2>7. CASE AboutDone(s)
    BY <2>7 DEF AboutDone, Running, Return, nodeVars, wireVars, threadVars
  <2>8. CASE (\E t \in Simulator : AboutToFinishPanics(s, t)) \/ (\E t \in Simulator :
            AboutToFinishNoNode(s, t))
    BY <2>8 DEF AboutToFinishPanics, Notified, mainVars, simVars, lockVars, nodeVars,
        threadVars, AboutToFinishNoNode
  <2> QED BY <1>8, <2>1, <2>2, <2>3, <2>4, <2>5, <2>6, <2>7, <2>8 DEF QuitNext
<1>9. ASSUME NEW s \in Simulator, FinalizeNext(s) PROVE OneFactoryHolder'
  <2>1. CASE FinalizeNoNode(s)
    BY <2>1 DEF FinalizeNoNode, Finalizing, Running, ShutDown, Post, Return, nodeVars,
        wireVars, threadVars
  <2>2. CASE FinalizeRelease(s)
    BY <2>2 DEF FinalizeRelease, Finalizing, Running, ShutDown, Goto, nodeVars,
        wireVars, threadVars
  <2>3. CASE FinalizeBusy(s)
    BY <2>3 DEF FinalizeBusy, Finalizing, Running, ShutDown, Goto, nodeVars, wireVars,
        threadVars
  <2>4. CASE FinalizeLater(s)
    BY <2>4 DEF FinalizeLater, Running, Post, Return, simVars, nodeVars, threadVars
  <2>5. CASE FinalizeReleased(s)
    BY <2>5 DEF FinalizeReleased, Running, FreeNode, Goto, simVars, wireVars, threadVars
  <2>6. CASE FinalizeDone(s)
    BY <2>6 DEF FinalizeDone, Running, Post, Return, nodeVars, wireVars, threadVars
  <2> QED BY <1>9, <2>1, <2>2, <2>3, <2>4, <2>5, <2>6 DEF FinalizeNext
<1> QED BY <1>1, <1>2, <1>3, <1>4, <1>5, <1>6, <1>7, <1>8, <1>9
  DEF Next, SlotNext, CommonNext, Stopped

-----------------------------------------------------------------------------
(* The theorems.                                                            *)

\* The server starts within the inductive invariant.
LEMMA InitInvariant == Init => IInv
<1> SUFFICES ASSUME Init PROVE IInv
  OBVIOUS
<1> USE ConstantsAssumption DEF Init
<1>1. TypeOK BY TypeInit
<1>2. OneSlotEach /\ NestedPlaces BY DEF OneSlotEach, NestedPlaces
<1>3. MainHolds /\ Leaving BY DEF MainHolds, Leaving, LentPlaces
<1>4. NotStarted /\ NodePointer
  BY DEF NotStarted, NodePointer, MapPlaces, LentPlaces
<1>5. NodeOwnedByOne BY DEF NodeOwnedByOne, Owns
<1>6. Callers /\ Handling /\ Delivering BY DEF Callers, Handling, Delivering
<1>7. Observers /\ Emissions /\ MapKnown BY DEF Observers, Emissions, MapKnown
<1>8. OneFactoryHolder BY DEF OneFactoryHolder, FactoryPlaces
<1> QED BY <1>1, <1>2, <1>3, <1>4, <1>5, <1>6, <1>7, <1>8 DEF IInv

\* IInv is inductive: it holds in every reachable state.
THEOREM Invariance == Spec => []IInv
<1>1. Init => IInv BY InitInvariant
<1>2. IInv /\ [Next]_vars => IInv'
  <2> SUFFICES ASSUME IInv, [Next]_vars PROVE IInv'
    OBVIOUS
  <2> USE DEF IInv
  <2>1. TypeOK'
    <3>1. MainTypes' BY MainTypesStep
    <3>2. SimulatorTypes' BY SimulatorTypesStep
    <3>3. LockTypes' BY LockTypesStep
    <3>4. MapTypes' BY MapTypesStep
    <3>5. ThreadTypes' BY ThreadTypesStep
    <3>6. RequestKnown' BY RequestKnownStep
    <3> QED BY <3>1, <3>2, <3>3, <3>4, <3>5, <3>6 DEF TypeOK
  <2>2. OneSlotEach' /\ NestedPlaces' BY ActivationsStep
  <2>3. MainHolds' BY MainHoldsStep
  <2>4. Leaving' BY LeavingStep
  <2>5. NotStarted' BY NotStartedStep
  <2>6. NodePointer' BY NodePointerStep
  <2>7. NodeOwnedByOne' BY NodeOwnedByOneStep
  <2>8. Callers' BY CallersStep
  <2>9. Handling' BY HandlingStep
  <2>10. Delivering' BY DeliveringStep
  <2>11. Observers' BY ObserversStep
  <2>12. Emissions' BY EmissionsStep
  <2>13. MapKnown' BY MapKnownStep
  <2>14. OneFactoryHolder' BY OneFactoryHolderStep
  <2> QED BY <2>1, <2>2, <2>3, <2>4, <2>5, <2>6, <2>7, <2>8, <2>9, <2>10, <2>11, <2>12,
      <2>13, <2>14
<1> QED BY <1>1, <1>2, PTL DEF Spec

\* OneSlotEach: however slots nest, a simulator has one active slot at a time, the
\* one that holds its mutex (the "NonBlockingLocker locker(mutex, false)" with
\* which the slots of Simulator begin).
THEOREM SlotsExclusive == Spec => []OneSlotEach
<1>1. IInv => OneSlotEach BY DEF IInv
<1> QED BY <1>1, Invariance, PTL

\* NodeOwnedByOne: a node is taken exactly while one simulator has it and listens
\* to its frames (SimulatedNode::acquireNode and releaseNode).
THEOREM OwnershipExclusive == Spec => []NodeOwnedByOne
<1>1. IInv => NodeOwnedByOne BY DEF IInv
<1> QED BY <1>1, Invariance, PTL

\* The slot that a blocking call waits in is the running one.
LEMMA CallerRuns ==
  ASSUME IInv, NEW t \in Simulator, pc[t] \in {"emit", "walk"}
  PROVE  \A o \in Simulator : o # t => pc[o] \in PollPlaces \cup {"quitEmit", "idle"}
<1> USE DEF IInv, TypeOK, MainTypes
<1>1. PICK i \in 1..Len(stack) : stack[i] = t BY DEF OneSlotEach
<1>2. i = 1 BY <1>1 DEF NestedPlaces, PollPlaces
<1>3. ASSUME NEW o \in Simulator, o # t, pc[o] # "idle"
      PROVE  pc[o] \in PollPlaces \cup {"quitEmit"}
  <2>1. PICK j \in 1..Len(stack) : stack[j] = o BY <1>3 DEF OneSlotEach
  <2>2. j # 1 BY <1>1, <1>2, <1>3, <2>1
  <2> QED BY <2>1, <2>2 DEF NestedPlaces
<1> QED BY <1>3

\* An observer that a map thread is about to call has no active slot.
LEMMA ObserverIdle ==
  ASSUME IInv, NEW m \in MapThread, mpc[m] = "observe", NEW o \in toNotify[m]
  PROVE  o \in Simulator /\ o \in observers[m] /\ pc[o] = "idle"
<1> USE ConstantsAssumption DEF IInv, TypeOK, MainTypes, MapTypes, ThreadTypes
<1>1. o \in Simulator /\ o \in observers[m] BY DEF Emissions
<1>2. pc[o] \in Slots \cup {"idle"} BY <1>1 DEF Observers
<1>3. callFrom[m] \in Simulator /\ pc[callFrom[m]] \in {"emit", "walk"}
  BY DEF Callers
<1>4. pc[o] \in PollPlaces \cup {"quitEmit", "idle", "emit", "walk"}
  BY <1>1, <1>3, CallerRuns
<1> QED BY <1>1, <1>2, <1>4 DEF Slots, PollPlaces

\* NoRaceWithMain: whenever a map thread is about to append to a simulator's
\* pendingMessage, the main thread is not using that simulator, although one of
\* the three paths takes no lock at all.
THEOREM RaceFree == Spec => []NoRaceWithMain
<1>1. IInv => NoRaceWithMain
  <2> SUFFICES ASSUME IInv, NEW m \in MapThread, NEW s \in Simulator,
                      MapTouches(m, s), MainTouches(s)
               PROVE  FALSE
    BY DEF NoRaceWithMain
  <2> USE ConstantsAssumption DEF IInv, TypeOK, MainTypes, SimulatorTypes, LockTypes,
        ThreadTypes, MapTypes
  <2>1. CASE mpc[m] = "deliver" /\ Target(m) = s
    <3>1. mnode[m] \in Node /\ receiver[mnode[m]] = s BY <2>1 DEF Handling, Target
    <3>2. node[s] = mnode[m] BY <3>1 DEF NodeOwnedByOne, Owns
    <3>3. "run" \notin posted[s] BY <3>1, <3>2 DEF NotStarted, RequestKnown
    <3>4. pc[s] \notin LentPlaces \cup {"idle"} BY <3>3 DEF MainTouches
    <3>5. simLock[s] = Main BY <3>4 DEF OneSlotEach
    <3>6. mayBlock[s] = Main BY <3>4 DEF MainHolds, Leaving
    <3>7. m \in {simLock[s], mayBlock[s]} BY <2>1 DEF Delivering
    <3> QED BY <3>5, <3>6, <3>7
  <2>2. CASE mpc[m] = "invalid" /\ callFrom[m] = s
    <3>1. pc[s] \in {"emit", "walk"} BY <2>2 DEF Callers
    <3>2. "run" \notin posted[s] BY <3>1 DEF NotStarted, RequestKnown, Slots
    <3> QED BY <3>1, <3>2 DEF MainTouches, LentPlaces
  <2>3. CASE mpc[m] = "observe" /\ s \in toNotify[m]
    <3>1. pc[s] = "idle" /\ s \in observers[m] BY <2>3, ObserverIdle
    <3>2. "run" \notin posted[s] BY <3>1 DEF NotStarted, Observers
    <3> QED BY <3>1, <3>2 DEF MainTouches
  <2> QED BY <2>1, <2>2, <2>3 DEF MapTouches
<1> QED BY <1>1, Invariance, PTL

\* ObserverUnlocked: the qFatal of nodeIPAddressChanged and nodeNetmaskChanged is
\* never reached.
THEOREM ObserversReachable == Spec => []ObserverUnlocked
<1>1. IInv => ObserverUnlocked
  <2> SUFFICES ASSUME IInv, NEW m \in MapThread, mpc[m] = "observe", NEW o \in toNotify[m]
               PROVE  simLock[o] = Nobody
    BY DEF ObserverUnlocked
  <2> USE ConstantsAssumption DEF IInv, TypeOK, LockTypes
  <2>1. o \in Simulator /\ o \in observers[m] /\ pc[o] = "idle" BY ObserverIdle
  <2>2. simLock[o] # Main BY <2>1 DEF OneSlotEach
  <2>3. ASSUME NEW k \in MapThread, simLock[o] = k PROVE FALSE
    <3>1. mpc[k] \in {"tryMayBlock", "deliver"} /\ receiver[mnode[k]] = o
      BY <2>1, <2>3 DEF Delivering, Target
    <3>2. mnode[k] \in Node BY <3>1 DEF Handling
    <3>3. node[o] = mnode[k] BY <2>1, <3>1, <3>2 DEF NodeOwnedByOne, Owns
    <3>4. node[o] = Nobody BY <2>1 DEF Observers
    <3> QED BY <3>2, <3>3, <3>4
  <2> QED BY <2>1, <2>2, <2>3
<1> QED BY <1>1, Invariance, PTL

-----------------------------------------------------------------------------
(* The invariant about maps.                                                *)

\* The map of a node is the map of the simulator that has the node.
NodeOfMap == \A s \in Simulator : node[s] # Nobody => map[s] = hostOf[node[s]]

\* Whoever has a map pointer hears of the end of the map.
Listening == \A s \in Simulator : map[s] # Nobody => s \in listeners[map[s]]

AboutPlaces == {"aboutTry", "aboutPoll", "aboutRelock"}

\* A slot is about to end the map of s, and s has still to hear of it or deals with it.
EndToBeTold(s) ==
  \E t \in Simulator :
    /\ \/ pc[t] = "quitLock"
       \/ /\ pc[t] = "quitEmit"
          /\ s \in toNotify[map[s]] \/ pc[s] \in AboutPlaces \/ panic
    /\ Wanted(t) = map[s]

\* The map that a pointer leads to is managed, or about to end and its end yet to be told.
MapReached ==
  \A s \in Simulator : map[s] # Nobody => map[s] \in managed \/ EndToBeTold(s)

\* A slot that was told of the end of a map runs above the one that ends it.
AboutAbove ==
  \A i \in 1..Len(stack) : pc[stack[i]] \in AboutPlaces =>
    \E j \in i+1..Len(stack) : pc[stack[j]] = "quitEmit"

\* The pointer is set after the dialogue has come to it, and not kept.
MapPointer ==
  \A s \in Simulator :
    /\ request[s] = Nobody
         \/ comm[s] \in {"NotSignedIn", "JustSignedIn", "InstantiatingOrRetrievingMap"}
         \/ ~alive[s] \/ "delete" \in posted[s] => map[s] = Nobody
    /\ comm[s] \in {"MapSelected", "ConnectedToAMapNode", "SimulatingNode",
                    "ObservingChangeEvents"} => shuttingDown[s] \/ map[s] # Nobody

RunsItsLoop(m) == mpc[m] \notin {"none", "setup", "failed", "finished"}

\* The threads of maps that are managed run; a map that is not is made or ended by one slot.
ManagedRun == \A m \in managed : RunsItsLoop(m) /\ m \notin quitting
MadeOrEnded ==
  \A s \in Simulator :
    /\ pc[s] \in MapPlaces => Wanted(s) \notin managed
    /\ pc[s] \in {"initTry", "initPoll"} => mpc[Wanted(s)] \notin {"none", "finished"}
    /\ pc[s] \in {"quitLock", "quitEmit"} => RunsItsLoop(Wanted(s))
    /\ pc[s] = "quitWait" => factoryLock = Nobody

\* A thread that was told to quit, or whose lock the main thread has, is being ended.
Quitting == \A m \in quitting : \E s \in Simulator : pc[s] = "quitWait" /\ Wanted(s) = m
LockedByQuit ==
  \A m \in MapThread :
    mapLock[m] = Main => \E s \in Simulator : pc[s] = "quitEmit" /\ Wanted(s) = m

Selected == NodeOfMap /\ MapPointer
ThreadsOfMaps == ManagedRun /\ MadeOrEnded /\ Quitting /\ LockedByQuit

MapInv == Selected /\ Listening /\ MapReached /\ AboutAbove /\ ThreadsOfMaps

-----------------------------------------------------------------------------
(* The stack of activations and the ends of maps.                           *)

\* A slot that does not wait is on top of the stack.
LEMMA OnTop ==
  ASSUME TypeOK, OneSlotEach, NestedPlaces, NEW t \in Simulator,
         pc[t] \notin PollPlaces \cup {"quitEmit", "idle"}
  PROVE  stack # <<>> /\ Head(stack) = t
<1> USE DEF TypeOK, MainTypes
<1>1. PICK i \in 1..Len(stack) : stack[i] = t BY DEF OneSlotEach
<1>2. i = 1 BY <1>1 DEF NestedPlaces
<1> QED BY <1>1, <1>2

\* The running slot ends.
LEMMA AboutReturn ==
  ASSUME TypeOK, OneSlotEach, AboutAbove, NEW s \in Simulator, Running(s), Return(s)
  PROVE  AboutAbove'
<1> USE DEF TypeOK, MainTypes, Running, Return
<1>1. /\ Len(stack) \in Nat /\ Len(stack) # 0 /\ stack[1] = s
      /\ Len(stack') = Len(stack) - 1
      /\ \A i \in 1..Len(stack') : stack'[i] = stack[i + 1]
  BY PopStack
<1>2. \A i \in 2..Len(stack) : stack[i] # s
  BY <1>1 DEF OneSlotEach
<1>3. ASSUME NEW i \in 1..Len(stack'), pc'[stack'[i]] \in AboutPlaces
      PROVE  \E j \in i+1..Len(stack') : pc'[stack'[j]] = "quitEmit"
  <2>1. i + 1 \in 2..Len(stack) /\ stack'[i] = stack[i + 1] BY <1>1
  <2>2. pc[stack[i + 1]] \in AboutPlaces BY <1>2, <1>3, <2>1
  <2>3. PICK j \in i+1+1..Len(stack) : pc[stack[j]] = "quitEmit"
    BY <2>1, <2>2 DEF AboutAbove
  <2>4. j \in 2..Len(stack) /\ j - 1 \in i+1..Len(stack') /\ stack'[j - 1] = stack[j]
    BY <1>1, <2>1, <2>3
  <2>5. stack[j] \in Simulator BY <2>4
  <2>6. pc'[stack[j]] = "quitEmit" BY <1>2, <2>3, <2>4, <2>5
  <2> QED BY <2>4, <2>6
<1> QED BY <1>3 DEF AboutAbove

\* A slot starts.
LEMMA AboutStart ==
  ASSUME TypeOK, OneSlotEach, AboutAbove, NEW s \in Simulator, simLock[s] = Nobody,
         NEW place \in Places,
         place \in AboutPlaces => stack # <<>> /\ pc[Head(stack)] = "quitEmit",
         stack' = <<s>> \o stack, pc' = [pc EXCEPT ![s] = place]
  PROVE  AboutAbove'
<1> USE ConstantsAssumption DEF TypeOK, MainTypes
<1>1. /\ Len(stack) \in Nat
      /\ Len(stack') = Len(stack) + 1 /\ stack'[1] = s
      /\ \A i \in 2..Len(stack') : stack'[i] = stack[i - 1]
  BY PushStack
<1>2. \A i \in 1..Len(stack) : stack[i] # s
  BY DEF OneSlotEach
<1>3. \A i \in 1..Len(stack) : i + 1 \in 2..Len(stack') /\ stack'[i + 1] = stack[i]
                                 /\ pc'[stack[i]] = pc[stack[i]]
  BY <1>1, <1>2
<1>4. ASSUME NEW i \in 1..Len(stack'), pc'[stack'[i]] \in AboutPlaces
      PROVE  \E j \in i+1..Len(stack') : pc'[stack'[j]] = "quitEmit"
  <2>1. CASE i = 1
    <3>1. place \in AboutPlaces BY <1>1, <1>4, <2>1
    <3>2. 1 \in 1..Len(stack) /\ pc[stack[1]] = "quitEmit" BY <1>1, <3>1
    <3>3. 2 \in i+1..Len(stack') /\ stack'[2] = stack[1] BY <1>1, <2>1, <3>2
    <3>4. pc'[stack[1]] = pc[stack[1]] BY <1>3, <3>2
    <3> QED BY <3>2, <3>3, <3>4
  <2>2. CASE i # 1
    <3>1. i - 1 \in 1..Len(stack) /\ stack'[i] = stack[i - 1] BY <1>1, <2>2
    <3>2. pc[stack[i - 1]] \in AboutPlaces BY <1>3, <1>4, <3>1
    <3>3. PICK j \in i-1+1..Len(stack) : pc[stack[j]] = "quitEmit"
      BY <3>1, <3>2 DEF AboutAbove
    <3>4. j \in 1..Len(stack) BY <3>1, <3>3
    <3>5. j + 1 \in i+1..Len(stack') BY <1>1, <3>1, <3>3
    <3> QED BY <1>3, <3>3, <3>4, <3>5
  <2> QED BY <2>1, <2>2
<1> QED BY <1>4 DEF AboutAbove

\* The running slot moves on.
LEMMA AboutGoto ==
  ASSUME TypeOK, OneSlotEach, AboutAbove, NEW s \in Simulator, Running(s),
         NEW place \in Places, Goto(s, place),
         place \in AboutPlaces => pc[s] \in AboutPlaces
  PROVE  AboutAbove'
<1> USE DEF TypeOK, MainTypes, Running, Goto
<1>1. /\ Len(stack) \in Nat /\ Len(stack) # 0 /\ stack[1] = s
      /\ \A i \in 2..Len(stack) : stack[i] \in Simulator /\ stack[i] # s
  BY DEF OneSlotEach
<1>2. ASSUME NEW i \in 1..Len(stack'), pc'[stack'[i]] \in AboutPlaces
      PROVE  \E j \in i+1..Len(stack') : pc'[stack'[j]] = "quitEmit"
  <2>1. pc[stack[i]] \in AboutPlaces BY <1>1, <1>2
  <2>2. PICK j \in i+1..Len(stack) : pc[stack[j]] = "quitEmit" BY <2>1 DEF AboutAbove
  <2>3. j \in 2..Len(stack) BY <1>1, <2>2
  <2> QED BY <1>1, <2>2, <2>3
<1> QED BY <1>2 DEF AboutAbove

\* A slot that makes or ends a map knows which.
LEMMA WantedKnown ==
  ASSUME TypeOK, NEW t \in Simulator, pc[t] \in MapPlaces
  PROVE  Wanted(t) \in MapThread
BY DEF TypeOK, RequestKnown, SimulatorTypes, RequestType, Wanted, MapPlaces, Slots

\* One slot at most is making or ending maps.
LEMMA OneMapSlot ==
  ASSUME IInv, MapInv, NEW s \in Simulator, NEW t \in Simulator,
         pc[s] \in MapPlaces, pc[t] \in MapPlaces
  PROVE  s = t
<1> USE DEF IInv, MapInv, MapPlaces, FactoryPlaces, PollPlaces
<1>1. CASE pc[s] = "quitWait" /\ pc[t] = "quitWait" BY <1>1, OnTop
<1>2. CASE pc[s] # "quitWait" /\ pc[t] # "quitWait" BY <1>2 DEF OneFactoryHolder
<1>3. CASE pc[s] = "quitWait" /\ pc[t] # "quitWait"
  BY <1>3, ConstantsAssumption DEF OneFactoryHolder, ThreadsOfMaps, MadeOrEnded
<1>4. CASE pc[s] # "quitWait" /\ pc[t] = "quitWait"
  BY <1>4, ConstantsAssumption DEF OneFactoryHolder, ThreadsOfMaps, MadeOrEnded
<1> QED BY <1>1, <1>2, <1>3, <1>4

\* The main thread waits for the end of a map only in its running slot.
LEMMA NoneWaits ==
  ASSUME IInv, NEW s \in Simulator, Running(s), pc[s] # "quitWait", NEW t \in Simulator
  PROVE  pc[t] # "quitWait"
BY OnTop DEF IInv, Running, PollPlaces

\* While the factory's mutex is free and another slot runs, no slot makes or ends a map.
LEMMA NoMapSlot ==
  ASSUME IInv, NEW s \in Simulator, Running(s), pc[s] # "quitWait", factoryLock = Nobody,
         NEW t \in Simulator
  PROVE  pc[t] \notin MapPlaces
BY NoneWaits, ConstantsAssumption DEF IInv, OneFactoryHolder, FactoryPlaces, MapPlaces

\* A slot that was told of the end of its map ends before the emission goes on.
LEMMA AboutStep ==
  ASSUME TypeOK, OneSlotEach, AboutAbove, [Next]_vars
  PROVE  AboutAbove'
<1> USE ConstantsAssumption DEF AboutPlaces, Slots, TryPlaces, PollPlaces, LentPlaces,
    Places
<1>1. CASE UNCHANGED vars
  BY <1>1 DEF vars, mainVars, simVars, lockVars, nodeVars, wireVars, threadVars, AboutAbove
<1>2. ASSUME NEW m \in MapThread, MapThreadNext(m) PROVE AboutAbove'
  <2>1. CASE SetUp(m) \/ (\E n \in Node : FrameArrives(m, n)) \/ NotForSimulator(m) \/
      EmitFrameReceived(m) \/ TryMutex(m) \/ TryMayBlock(m) \/ Deliver(m) \/
      ServeSend(m) \/ ServeInvalid(m) \/ NotifyInvalid(m) \/ ServeChange(m) \/
      LockMapChanges(m) \/ (\E o \in Simulator : NotifyObserver(m, o)) \/ ChangeDone(m)
      \/ LeaveLoop(m)
    BY <2>1 DEF SetUp, MoveTo, mainVars, simVars, lockVars, nodeVars, wireVars,
        FrameArrives, NotForSimulator, EmitFrameReceived, TryMutex, Target, TryMayBlock,
        Deliver, PostSendPending, ServeSend, Reply, ServeInvalid, NotifyInvalid,
        ServeChange, LockMapChanges, NotifyObserver, threadVars, ChangeDone, LeaveLoop,
        AboutAbove
  <2> QED BY <1>2, <2>1 DEF MapThreadNext
<1>3. ASSUME NEW s \in Simulator, ClientNext(s) PROVE AboutAbove'
  <2>1. CASE DataArrives(s)
    BY <2>1, AboutStart DEF DataArrives, Enter
  <2>2. CASE SocketCloses(s)
    BY <2>2 DEF SocketCloses, Post, mainVars, lockVars, nodeVars, wireVars, threadVars,
        AboutAbove
  <2> QED BY <1>3, <2>1, <2>2 DEF ClientNext
<1>4. ASSUME NEW s \in Simulator, EventNext(s) PROVE AboutAbove'
  <2>1. CASE \E slot \in Slots : PostedSlot(s, slot)
    BY <2>1, AboutStart DEF PostedSlot, Enter
  <2>2. CASE Run(s) \/ DropFinalize(s) \/ Delete(s)
    BY <2>2 DEF Run, mainVars, lockVars, nodeVars, wireVars, threadVars, DropFinalize,
        simVars, Delete, AboutAbove
  <2> QED BY <1>4, <2>1, <2>2 DEF EventNext
<1>5. ASSUME NEW s \in Simulator, CommonNext(s) PROVE AboutAbove'
  <2>1. CASE ReturnShuttingDown(s)
    BY <2>1, AboutReturn DEF ReturnShuttingDown
  <2>2. CASE Poll(s)
    BY <2>2, AboutGoto DEF Poll, PollOf
  <2>3. CASE EventsProcessed(s)
    BY <2>3, AboutGoto DEF EventsProcessed, PollOf
  <2> QED BY <1>5, <2>1, <2>2, <2>3 DEF CommonNext
<1>6. ASSUME NEW s \in Simulator, ReadNext(s) PROVE AboutAbove'
  <2>1. CASE ReadNothing(s)
    BY <2>1, AboutReturn DEF ReadNothing, Reading
  <2>2. CASE ReadDisconnect(s)
    BY <2>2, AboutReturn DEF ReadDisconnect, Reading
  <2>3. CASE ReadMapRequest(s)
    BY <2>3, AboutReturn DEF ReadMapRequest, Reading
  <2>4. CASE ReadNodeRequest(s)
    BY <2>4, AboutGoto DEF ReadNodeRequest, Reading
  <2>5. CASE AcquireNode(s)
    BY <2>5, AboutReturn DEF AcquireNode
  <2>6. CASE NodeNotAvailable(s)
    BY <2>6, AboutReturn DEF NodeNotAvailable
  <2>7. CASE StartSimulation(s)
    BY <2>7, AboutReturn DEF StartSimulation, Reading
  <2>8. CASE EmitCommand(s)
    BY <2>8, AboutGoto DEF EmitCommand, Reading
  <2>9. CASE CommandDone(s)
    BY <2>9, AboutReturn DEF CommandDone
  <2>10. CASE SendPending(s)
    BY <2>10, AboutReturn DEF SendPending
  <2> QED BY <1>6, <2>1, <2>2, <2>3, <2>4, <2>5, <2>6, <2>7, <2>8, <2>9, <2>10 DEF
      ReadNext
<1>7. ASSUME NEW s \in Simulator, InstantiateNext(s) PROVE AboutAbove'
  <2>1. CASE InstantiateStale(s)
    BY <2>1, AboutReturn DEF InstantiateStale, Instantiating
  <2>2. CASE InstantiateBusy(s)
    BY <2>2, AboutReturn DEF InstantiateBusy, Instantiating
  <2>3. CASE Refused(s)
    BY <2>3, AboutReturn DEF Refused, Requesting, Instantiating
  <2>4. CASE CreateMap(s)
    BY <2>4, AboutGoto DEF CreateMap, Requesting, Instantiating
  <2>5. CASE MapCreated(s)
    BY <2>5, AboutReturn DEF MapCreated
  <2>6. CASE MapNotCreated(s)
    BY <2>6, AboutReturn DEF MapNotCreated
  <2>7. CASE JoinMap(s)
    BY <2>7, AboutReturn DEF JoinMap, Requesting, Instantiating
  <2> QED BY <1>7, <2>1, <2>2, <2>3, <2>4, <2>5, <2>6, <2>7 DEF InstantiateNext
<1>8. ASSUME NEW s \in Simulator, QuitNext(s) PROVE AboutAbove'
  <2>1. CASE DeleteMap(s)
    BY <2>1, AboutGoto DEF DeleteMap, Requesting, Instantiating
  <2>2. CASE QuitLock(s)
    BY <2>2, AboutGoto DEF QuitLock
  <2>3. CASE QuitDone(s)
    BY <2>3, AboutGoto DEF QuitDone
  <2>4. CASE MapDeleted(s)
    BY <2>4, AboutReturn DEF MapDeleted
  <2>5. CASE \E t \in Simulator : AboutToFinish(s, t)
    BY <2>5, AboutStart DEF AboutToFinish, Emitting, Running
  <2>6. CASE AboutReleased(s)
    BY <2>6, AboutGoto DEF AboutReleased
  <2>7. CASE AboutDone(s)
    BY <2>7, AboutReturn DEF AboutDone
  <2>8. CASE (\E t \in Simulator : AboutToFinishPanics(s, t)) \/ (\E t \in Simulator :
      AboutToFinishNoNode(s, t))
    BY <2>8 DEF AboutToFinishPanics, Emitting, Running, Wanted, Notified, mainVars,
        simVars, lockVars, nodeVars, threadVars, AboutToFinishNoNode, AboutAbove
  <2> QED BY <1>8, <2>1, <2>2, <2>3, <2>4, <2>5, <2>6, <2>7, <2>8 DEF QuitNext
<1>9. ASSUME NEW s \in Simulator, FinalizeNext(s) PROVE AboutAbove'
  <2>1. CASE FinalizeNoNode(s)
    BY <2>1, AboutReturn DEF FinalizeNoNode, Finalizing
  <2>2. CASE FinalizeRelease(s)
    BY <2>2, AboutGoto DEF FinalizeRelease, Finalizing
  <2>3. CASE FinalizeBusy(s)
    BY <2>3, AboutGoto DEF FinalizeBusy, Finalizing
  <2>4. CASE FinalizeLater(s)
    BY <2>4, AboutReturn DEF FinalizeLater
  <2>5. CASE FinalizeReleased(s)
    BY <2>5, AboutGoto DEF FinalizeReleased
  <2>6. CASE FinalizeDone(s)
    BY <2>6, AboutReturn DEF FinalizeDone
  <2> QED BY <1>9, <2>1, <2>2, <2>3, <2>4, <2>5, <2>6 DEF FinalizeNext
<1> QED BY <1>1, <1>2, <1>3, <1>4, <1>5, <1>6, <1>7, <1>8, <1>9
  DEF Next, SlotNext, Stopped

\* The map pointer and the node pointer of a simulator agree with its dialogue.
LEMMA SelectedStep ==
  ASSUME IInv, MapInv, [Next]_vars
  PROVE  Selected'
<1> USE ConstantsAssumption DEF IInv, TypeOK, MainTypes, SimulatorTypes, ThreadTypes,
    LockTypes, MapTypes, RequestType, RequestKnown, Slots, TryPlaces, PollPlaces,
    LentPlaces, PollOf, MapInv, MapPlaces, Wanted, Selected, NodeOfMap, MapPointer,
    NodePointer, Leaving, NotStarted
<1>1. CASE UNCHANGED vars
  BY <1>1 DEF vars, mainVars, simVars, lockVars, nodeVars, wireVars, threadVars
<1>2. ASSUME NEW m \in MapThread, MapThreadNext(m) PROVE Selected'
  <2>1. CASE SetUp(m) \/ (\E n \in Node : FrameArrives(m, n)) \/ NotForSimulator(m) \/
      EmitFrameReceived(m) \/ TryMutex(m) \/ TryMayBlock(m) \/ Deliver(m) \/
      ServeSend(m) \/ ServeInvalid(m) \/ NotifyInvalid(m) \/ ServeChange(m) \/
      LockMapChanges(m) \/ (\E o \in Simulator : NotifyObserver(m, o)) \/ ChangeDone(m)
      \/ LeaveLoop(m)
    BY <2>1 DEF SetUp, MoveTo, mainVars, simVars, lockVars, nodeVars, wireVars,
        FrameArrives, NotForSimulator, EmitFrameReceived, TryMutex, Target, TryMayBlock,
        Deliver, PostSendPending, ServeSend, Reply, ServeInvalid, NotifyInvalid,
        ServeChange, LockMapChanges, NotifyObserver, threadVars, ChangeDone, LeaveLoop
  <2> QED BY <1>2, <2>1 DEF MapThreadNext
<1>3. ASSUME NEW s \in Simulator, ClientNext(s) PROVE Selected'
  <2>1. CASE DataArrives(s)
    BY <2>1 DEF DataArrives, Enter, ProcessingEvents, simVars, nodeVars, wireVars,
        threadVars
  <2>2. CASE SocketCloses(s)
    BY <2>2 DEF SocketCloses, Post, mainVars, lockVars, nodeVars, wireVars, threadVars
  <2> QED BY <1>3, <2>1, <2>2 DEF ClientNext
<1>4. ASSUME NEW s \in Simulator, EventNext(s) PROVE Selected'
  <2>1. CASE (\E slot \in Slots : PostedSlot(s, slot)) \/ Run(s) \/ DropFinalize(s) \/
      Delete(s)
    BY <2>1 DEF PostedSlot, Enter, ProcessingEvents, simVars, nodeVars, wireVars,
        threadVars, Run, mainVars, lockVars, DropFinalize, Delete
  <2> QED BY <1>4, <2>1 DEF EventNext
<1>5. ASSUME NEW s \in Simulator, CommonNext(s) PROVE Selected'
  <2>1. CASE ReturnShuttingDown(s) \/ Poll(s) \/ EventsProcessed(s)
    BY <2>1 DEF ReturnShuttingDown, Running, Return, simVars, nodeVars, wireVars,
        threadVars, Poll, Goto, lockVars, EventsProcessed
  <2> QED BY <1>5, <2>1 DEF CommonNext
<1>6. ASSUME NEW s \in Simulator, ReadNext(s) PROVE Selected'
  <2>1. CASE ReadNothing(s)
    BY <2>1 DEF ReadNothing, Reading, Running, Return, simVars, nodeVars, wireVars,
        threadVars
  <2>2. CASE ReadDisconnect(s)
    BY <2>2 DEF ReadDisconnect, Reading, Running, Return, nodeVars, wireVars, threadVars
  <2>3. CASE ReadMapRequest(s)
    BY <2>3 DEF ReadMapRequest, Reading, Running, Post, Return, nodeVars, wireVars,
        threadVars
  <2>4. CASE ReadNodeRequest(s)
    BY <2>4 DEF ReadNodeRequest, Reading, Running, Goto, lockVars, nodeVars, wireVars,
        threadVars
  <2>5. CASE AcquireNode(s)
    BY <2>5 DEF AcquireNode, Running, Return, wireVars, threadVars
  <2>6. CASE NodeNotAvailable(s)
    BY <2>6 DEF NodeNotAvailable, Running, Return, nodeVars, wireVars, threadVars
  <2>7. CASE StartSimulation(s)
    BY <2>7 DEF StartSimulation, Reading, Running, Return, nodeVars, wireVars,
        threadVars
  <2>8. CASE EmitCommand(s)
    BY <2>8 DEF EmitCommand, Reading, Running, Goto, simVars, nodeVars, wireVars
  <2>9. CASE CommandDone(s)
    BY <2>9 DEF CommandDone, Running, PostSendPending, Return, simVars, nodeVars,
        wireVars, threadVars
  <2>10. CASE SendPending(s)
    BY <2>10 DEF SendPending, Running, Return, simVars, nodeVars, wireVars, threadVars
  <2> QED BY <1>6, <2>1, <2>2, <2>3, <2>4, <2>5, <2>6, <2>7, <2>8, <2>9, <2>10 DEF
      ReadNext
<1>7. ASSUME NEW s \in Simulator, InstantiateNext(s) PROVE Selected'
  <2>1. CASE MapCreated(s)
    <3>1. /\ pc[s] = "initTry" /\ request[s] # Nobody
          /\ comm[s] = "InstantiatingOrRetrievingMap"
      BY <2>1 DEF MapCreated
    <3>2. node[s] = Nobody /\ alive[s] /\ "delete" \notin posted[s] BY <3>1
    <3>3. request[s].map \in MapThread BY <3>1
    <3>4. /\ map' = [map EXCEPT ![s] = request[s].map]
          /\ comm' = [comm EXCEPT ![s] = "MapSelected"]
          /\ UNCHANGED <<posted, shuttingDown, alive, request, node>>
      BY <2>1 DEF MapCreated
    <3>5. NodeOfMap' BY <3>2, <3>3, <3>4
    <3>6. MapPointer' BY <3>1, <3>2, <3>3, <3>4
    <3> QED BY <3>5, <3>6
  <2>2. CASE InstantiateStale(s) \/ InstantiateBusy(s) \/ Refused(s) \/ CreateMap(s) \/
      MapNotCreated(s) \/ JoinMap(s)
    BY <2>2 DEF InstantiateStale, Instantiating, Running, Return, nodeVars, wireVars,
        threadVars, InstantiateBusy, Post, simVars, Refused, Requesting, CreateMap,
        Wanted, Goto, MapNotCreated, JoinMap
  <2> QED BY <1>7, <2>1, <2>2 DEF InstantiateNext
<1>8. ASSUME NEW s \in Simulator, QuitNext(s) PROVE Selected'
  <2>1. CASE DeleteMap(s)
    BY <2>1 DEF DeleteMap, Requesting, Instantiating, Running, Wanted, Goto, simVars,
        nodeVars, threadVars
  <2>2. CASE QuitLock(s)
    BY <2>2 DEF QuitLock, Running, Wanted, Goto, simVars, nodeVars, threadVars
  <2>3. CASE QuitDone(s)
    BY <2>3 DEF QuitDone, Running, Wanted, Goto, simVars, nodeVars, threadVars
  <2>4. CASE MapDeleted(s)
    BY <2>4 DEF MapDeleted, Running, Wanted, Return, nodeVars
  <2>5. CASE \E t \in Simulator : AboutToFinishPanics(s, t)
    BY <2>5 DEF AboutToFinishPanics, Emitting, Running, Wanted, Notified, mainVars,
        simVars, lockVars, nodeVars, threadVars
  <2>6. CASE \E t \in Simulator : AboutToFinishNoNode(s, t)
    BY <2>6 DEF AboutToFinishNoNode, Emitting, Running, Wanted, Notified, mainVars,
        lockVars, nodeVars, threadVars
  <2>7. CASE \E t \in Simulator : AboutToFinish(s, t)
    BY <2>7 DEF AboutToFinish, Emitting, Running, Wanted, Notified, simVars, nodeVars,
        threadVars
  <2>8. CASE AboutReleased(s)
    BY <2>8 DEF AboutReleased, Running, FreeNode, Goto, simVars, lockVars, wireVars,
        threadVars
  <2>9. CASE AboutDone(s)
    BY <2>9 DEF AboutDone, Running, Return, nodeVars, wireVars, threadVars
  <2> QED BY <1>8, <2>1, <2>2, <2>3, <2>4, <2>5, <2>6, <2>7, <2>8, <2>9 DEF QuitNext
<1>9. ASSUME NEW s \in Simulator, FinalizeNext(s) PROVE Selected'
  <2>1. CASE FinalizeNoNode(s)
    BY <2>1 DEF FinalizeNoNode, Finalizing, Running, ShutDown, Post, Return, nodeVars,
        wireVars, threadVars
  <2>2. CASE FinalizeRelease(s)
    BY <2>2 DEF FinalizeRelease, Finalizing, Running, ShutDown, Goto, nodeVars,
        wireVars, threadVars
  <2>3. CASE FinalizeBusy(s)
    BY <2>3 DEF FinalizeBusy, Finalizing, Running, ShutDown, Goto, nodeVars, wireVars,
        threadVars
  <2>4. CASE FinalizeLater(s)
    BY <2>4 DEF FinalizeLater, Running, Post, Return, simVars, nodeVars, threadVars
  <2>5. CASE FinalizeReleased(s)
    BY <2>5 DEF FinalizeReleased, Running, FreeNode, Goto, simVars, wireVars, threadVars
  <2>6. CASE FinalizeDone(s)
    BY <2>6 DEF FinalizeDone, Running, Post, Return, nodeVars, wireVars, threadVars
  <2> QED BY <1>9, <2>1, <2>2, <2>3, <2>4, <2>5, <2>6 DEF FinalizeNext
<1> QED BY <1>1, <1>2, <1>3, <1>4, <1>5, <1>6, <1>7, <1>8, <1>9
  DEF Next, SlotNext, Stopped

\* A simulator keeps listening as long as it has the map.
LEMMA ListeningStep ==
  ASSUME IInv, MapInv, [Next]_vars
  PROVE  Listening'
<1> USE ConstantsAssumption DEF IInv, TypeOK, MainTypes, SimulatorTypes, ThreadTypes,
    LockTypes, MapTypes, RequestType, RequestKnown, Slots, TryPlaces, PollPlaces,
    LentPlaces, PollOf, MapInv, MapPlaces, Wanted, Listening, Selected, MapPointer
<1>1. CASE UNCHANGED vars
  BY <1>1 DEF vars, mainVars, simVars, lockVars, nodeVars, wireVars, threadVars
<1>2. ASSUME NEW m \in MapThread, MapThreadNext(m) PROVE Listening'
  <2>1. CASE SetUp(m) \/ (\E n \in Node : FrameArrives(m, n)) \/ NotForSimulator(m) \/
      EmitFrameReceived(m) \/ TryMutex(m) \/ TryMayBlock(m) \/ Deliver(m) \/
      ServeSend(m) \/ ServeInvalid(m) \/ NotifyInvalid(m) \/ ServeChange(m) \/
      LockMapChanges(m) \/ (\E o \in Simulator : NotifyObserver(m, o)) \/ ChangeDone(m)
      \/ LeaveLoop(m)
    BY <2>1 DEF SetUp, MoveTo, mainVars, simVars, lockVars, nodeVars, wireVars,
        FrameArrives, NotForSimulator, EmitFrameReceived, TryMutex, Target, TryMayBlock,
        Deliver, PostSendPending, ServeSend, Reply, ServeInvalid, NotifyInvalid,
        ServeChange, LockMapChanges, NotifyObserver, threadVars, ChangeDone, LeaveLoop
  <2> QED BY <1>2, <2>1 DEF MapThreadNext
<1>3. ASSUME NEW s \in Simulator, ClientNext(s) PROVE Listening'
  <2>1. CASE DataArrives(s) \/ SocketCloses(s)
    BY <2>1 DEF DataArrives, Enter, ProcessingEvents, simVars, nodeVars, wireVars,
        threadVars, SocketCloses, Post, mainVars, lockVars
  <2> QED BY <1>3, <2>1 DEF ClientNext
<1>4. ASSUME NEW s \in Simulator, EventNext(s) PROVE Listening'
  <2>1. CASE (\E slot \in Slots : PostedSlot(s, slot)) \/ Run(s) \/ DropFinalize(s) \/
      Delete(s)
    BY <2>1 DEF PostedSlot, Enter, ProcessingEvents, simVars, nodeVars, wireVars,
        threadVars, Run, mainVars, lockVars, DropFinalize, Delete
  <2> QED BY <1>4, <2>1 DEF EventNext
<1>5. ASSUME NEW s \in Simulator, CommonNext(s) PROVE Listening'
  <2>1. CASE ReturnShuttingDown(s) \/ Poll(s) \/ EventsProcessed(s)
    BY <2>1 DEF ReturnShuttingDown, Running, Return, simVars, nodeVars, wireVars,
        threadVars, Poll, Goto, lockVars, EventsProcessed
  <2> QED BY <1>5, <2>1 DEF CommonNext
<1>6. ASSUME NEW s \in Simulator, ReadNext(s) PROVE Listening'
  <2>1. CASE ReadNothing(s) \/ ReadDisconnect(s) \/ ReadMapRequest(s) \/
      ReadNodeRequest(s) \/ AcquireNode(s) \/ NodeNotAvailable(s) \/ StartSimulation(s)
      \/ EmitCommand(s) \/ CommandDone(s) \/ SendPending(s)
    BY <2>1 DEF ReadNothing, Reading, Running, Return, simVars, nodeVars, wireVars,
        threadVars, ReadDisconnect, ReadMapRequest, Post, ReadNodeRequest, Goto,
        lockVars, AcquireNode, NodeNotAvailable, StartSimulation, EmitCommand,
        CommandDone, PostSendPending, SendPending
  <2> QED BY <1>6, <2>1 DEF ReadNext
<1>7. ASSUME NEW s \in Simulator, InstantiateNext(s) PROVE Listening'
  <2>1. CASE MapCreated(s)
    <3>1. request[s].map \in MapThread
      BY <2>1 DEF MapCreated
    <3>2. /\ map' = [map EXCEPT ![s] = request[s].map]
          /\ listeners' = [listeners EXCEPT ![request[s].map] = @ \cup {s}]
      BY <2>1 DEF MapCreated
    <3> QED BY <3>1, <3>2
  <2>2. CASE InstantiateStale(s) \/ InstantiateBusy(s) \/ Refused(s) \/ CreateMap(s) \/
      MapNotCreated(s) \/ JoinMap(s)
    BY <2>2 DEF InstantiateStale, Instantiating, Running, Return, nodeVars, wireVars,
        threadVars, InstantiateBusy, Post, simVars, Refused, Requesting, CreateMap,
        Wanted, Goto, MapNotCreated, JoinMap
  <2> QED BY <1>7, <2>1, <2>2 DEF InstantiateNext
<1>8. ASSUME NEW s \in Simulator, QuitNext(s) PROVE Listening'
  <2>1. CASE DeleteMap(s)
    BY <2>1 DEF DeleteMap, Requesting, Instantiating, Running, Wanted, Goto, simVars,
        nodeVars, threadVars
  <2>2. CASE QuitLock(s)
    BY <2>2 DEF QuitLock, Running, Wanted, Goto, simVars, nodeVars, threadVars
  <2>3. CASE QuitDone(s)
    BY <2>3 DEF QuitDone, Running, Wanted, Goto, simVars, nodeVars, threadVars
  <2>4. CASE MapDeleted(s)
    <3>1. pc[s] = "quitWait" /\ Wanted(s) \notin managed
      BY <2>4 DEF MapDeleted, ThreadsOfMaps, MadeOrEnded
    <3>2. \A t \in Simulator : pc[t] \notin {"quitLock", "quitEmit"}
      BY <3>1, OneMapSlot
    <3>3. \A t \in Simulator : map[t] # Nobody => map[t] # Wanted(s)
      BY <3>1, <3>2 DEF MapReached, EndToBeTold
    <3>4. /\ map' = [map EXCEPT ![s] = Nobody]
          /\ listeners' = [listeners EXCEPT ![Wanted(s)] = {}]
      BY <2>4 DEF MapDeleted
    <3> QED BY <3>3, <3>4
  <2>5. CASE \E t \in Simulator : AboutToFinishPanics(s, t)
    BY <2>5 DEF AboutToFinishPanics, Emitting, Running, Wanted, Notified, mainVars,
        simVars, lockVars, nodeVars, threadVars
  <2>6. CASE \E t \in Simulator : AboutToFinishNoNode(s, t)
    BY <2>6 DEF AboutToFinishNoNode, Emitting, Running, Wanted, Notified, mainVars,
        lockVars, nodeVars, threadVars
  <2>7. CASE \E t \in Simulator : AboutToFinish(s, t)
    BY <2>7 DEF AboutToFinish, Emitting, Running, Wanted, Notified, simVars, nodeVars,
        threadVars
  <2>8. CASE AboutReleased(s)
    BY <2>8 DEF AboutReleased, Running, FreeNode, Goto, simVars, lockVars, wireVars,
        threadVars
  <2>9. CASE AboutDone(s)
    BY <2>9 DEF AboutDone, Running, Return, nodeVars, wireVars, threadVars
  <2> QED BY <1>8, <2>1, <2>2, <2>3, <2>4, <2>5, <2>6, <2>7, <2>8, <2>9 DEF QuitNext
<1>9. ASSUME NEW s \in Simulator, FinalizeNext(s) PROVE Listening'
  <2>1. CASE FinalizeNoNode(s)
    BY <2>1 DEF FinalizeNoNode, Finalizing, Running, ShutDown, Post, Return, nodeVars,
        wireVars, threadVars
  <2>2. CASE FinalizeRelease(s)
    BY <2>2 DEF FinalizeRelease, Finalizing, Running, ShutDown, Goto, nodeVars,
        wireVars, threadVars
  <2>3. CASE FinalizeBusy(s)
    BY <2>3 DEF FinalizeBusy, Finalizing, Running, ShutDown, Goto, nodeVars, wireVars,
        threadVars
  <2>4. CASE FinalizeLater(s)
    BY <2>4 DEF FinalizeLater, Running, Post, Return, simVars, nodeVars, threadVars
  <2>5. CASE FinalizeReleased(s)
    BY <2>5 DEF FinalizeReleased, Running, FreeNode, Goto, simVars, wireVars, threadVars
  <2>6. CASE FinalizeDone(s)
    BY <2>6 DEF FinalizeDone, Running, Post, Return, nodeVars, wireVars, threadVars
  <2> QED BY <1>9, <2>1, <2>2, <2>3, <2>4, <2>5, <2>6 DEF FinalizeNext
<1> QED BY <1>1, <1>2, <1>3, <1>4, <1>5, <1>6, <1>7, <1>8, <1>9
  DEF Next, SlotNext, Stopped

\* Slots that neither make nor end a map leave the threads of maps alone.
LEMMA ThreadsKept ==
  ASSUME IInv, MapInv, NEW s \in Simulator,
         \A t \in Simulator \ {s} : pc'[t] = pc[t] /\ request'[t] = request[t],
         pc[s] \notin MapPlaces, pc'[s] \notin MapPlaces,
         UNCHANGED <<mpc, managed, quitting, mapLock>>,
         factoryLock' = factoryLock \/ \A t \in Simulator : pc[t] # "quitWait"
  PROVE  ThreadsOfMaps'
<1> USE DEF MapInv, ThreadsOfMaps, MapPlaces, Wanted, RunsItsLoop
<1>1. ManagedRun' BY DEF ManagedRun
<1>2. MadeOrEnded' BY DEF MadeOrEnded
<1>3. Quitting' BY DEF Quitting
<1>4. LockedByQuit' BY DEF LockedByQuit
<1> QED BY <1>1, <1>2, <1>3, <1>4

\* The threads of managed maps run until a slot ends them.
LEMMA ThreadsStep ==
  ASSUME IInv, MapInv, [Next]_vars
  PROVE  ThreadsOfMaps'
<1> USE ConstantsAssumption DEF IInv, TypeOK, MainTypes, SimulatorTypes, ThreadTypes,
    LockTypes, MapTypes, RequestType, RequestKnown, Slots, TryPlaces, PollPlaces,
    LentPlaces, PollOf, MapInv, MapPlaces, Wanted, ThreadsOfMaps, ManagedRun,
    MadeOrEnded, Quitting, LockedByQuit, RunsItsLoop
<1>1. CASE UNCHANGED vars
  BY <1>1 DEF vars, mainVars, simVars, lockVars, nodeVars, wireVars, threadVars
<1>2. ASSUME NEW m \in MapThread, MapThreadNext(m) PROVE ThreadsOfMaps'
  <2>1. CASE SetUp(m)
    <3>1. /\ mpc[m] = "setup"
          /\ \E place \in {"loop", "failed"} : mpc' = [mpc EXCEPT ![m] = place]
          /\ UNCHANGED <<pc, request, managed, quitting, mapLock, factoryLock>>
      BY <2>1 DEF SetUp, MoveTo, mainVars, simVars, lockVars, wireVars
    <3>2. m \notin managed BY <3>1
    <3>3. \A t \in Simulator : pc[t] \in {"quitLock", "quitEmit"} => Wanted(t) # m BY <3>1
    <3>4. \A t \in Simulator : pc[t] \in MapPlaces => Wanted(t) \in MapThread BY WantedKnown
    <3>5. ManagedRun' BY <3>1, <3>2, <3>3, <3>4
    <3>6. MadeOrEnded' BY <3>1, <3>2, <3>3, <3>4
    <3>7. Quitting' /\ LockedByQuit' BY <3>1, <3>2, <3>3, <3>4
    <3> QED BY <3>5, <3>6, <3>7
  <2>2. CASE \E n \in Node : FrameArrives(m, n)
    BY <2>2 DEF FrameArrives, MoveTo, mainVars, simVars, nodeVars, wireVars
  <2>3. CASE NotForSimulator(m)
    BY <2>3 DEF NotForSimulator, MoveTo, mainVars, simVars, nodeVars, wireVars
  <2>4. CASE EmitFrameReceived(m)
    BY <2>4 DEF EmitFrameReceived, MoveTo, mainVars, simVars, lockVars, nodeVars,
        wireVars
  <2>5. CASE TryMutex(m)
    BY <2>5 DEF TryMutex, Target, MoveTo, mainVars, simVars, nodeVars, wireVars
  <2>6. CASE TryMayBlock(m)
    BY <2>6 DEF TryMayBlock, Target, MoveTo, mainVars, simVars, nodeVars, wireVars
  <2>7. CASE Deliver(m)
    BY <2>7 DEF Deliver, Target, PostSendPending, MoveTo, mainVars, simVars, nodeVars,
        wireVars
  <2>8. CASE ServeSend(m)
    BY <2>8 DEF ServeSend, Reply, MoveTo, mainVars, simVars, lockVars, nodeVars,
        wireVars
  <2>9. CASE ServeInvalid(m)
    BY <2>9 DEF ServeInvalid, MoveTo, mainVars, simVars, lockVars, nodeVars, wireVars
  <2>10. CASE NotifyInvalid(m)
    BY <2>10 DEF NotifyInvalid, Reply, MoveTo, mainVars, simVars, lockVars, nodeVars,
        wireVars
  <2>11. CASE ServeChange(m)
    BY <2>11 DEF ServeChange, MoveTo, mainVars, simVars, lockVars, nodeVars, wireVars
  <2>12. CASE LockMapChanges(m)
    BY <2>12 DEF LockMapChanges, MoveTo, mainVars, simVars, nodeVars
  <2>13. CASE \E o \in Simulator : NotifyObserver(m, o)
    BY <2>13 DEF NotifyObserver, mainVars, simVars, lockVars, nodeVars, threadVars
  <2>14. CASE ChangeDone(m)
    BY <2>14 DEF ChangeDone, Reply, MoveTo, mainVars, simVars, nodeVars, wireVars
  <2>15. CASE LeaveLoop(m)
    <3>1. /\ m \in quitting /\ mpc' = [mpc EXCEPT ![m] = "finished"]
          /\ UNCHANGED <<pc, request, managed, quitting, mapLock, factoryLock>>
      BY <2>15 DEF LeaveLoop, MoveTo, mainVars, simVars, lockVars, wireVars
    <3>2. \A t \in Simulator : pc[t] \in MapPlaces => pc[t] = "quitWait"
      BY <3>1, OneMapSlot
    <3>3. ManagedRun' BY <3>1, <3>2
    <3>4. MadeOrEnded' BY <3>1, <3>2
    <3>5. Quitting' /\ LockedByQuit' BY <3>1, <3>2
    <3> QED BY <3>3, <3>4, <3>5
  <2> QED BY <1>2, <2>1, <2>2, <2>3, <2>4, <2>5, <2>6, <2>7, <2>8, <2>9, <2>10, <2>11,
      <2>12, <2>13, <2>14, <2>15 DEF MapThreadNext
<1>3. ASSUME NEW s \in Simulator, ClientNext(s) PROVE ThreadsOfMaps'
  <2>1. CASE DataArrives(s)
    <3>1. PICK slot \in Slots :
            /\ simLock[s] = Nobody /\ pc' = [pc EXCEPT ![s] = slot]
            /\ UNCHANGED <<mpc, request, managed, quitting, mapLock, factoryLock>>
      BY <2>1 DEF DataArrives, Enter, simVars, wireVars, threadVars
    <3>2. pc[s] = "idle" /\ pc'[s] \notin MapPlaces BY <3>1 DEF OneSlotEach
    <3> QED BY <3>1, <3>2, ThreadsKept
  <2>2. CASE SocketCloses(s)
    BY <2>2 DEF SocketCloses, Post, mainVars, lockVars, nodeVars, wireVars, threadVars
  <2> QED BY <1>3, <2>1, <2>2 DEF ClientNext
<1>4. ASSUME NEW s \in Simulator, EventNext(s) PROVE ThreadsOfMaps'
  <2>1. CASE \E slot \in Slots : PostedSlot(s, slot)
    <3>1. PICK slot \in Slots :
            /\ simLock[s] = Nobody /\ pc' = [pc EXCEPT ![s] = slot]
            /\ UNCHANGED <<mpc, request, managed, quitting, mapLock, factoryLock>>
      BY <2>1 DEF PostedSlot, Enter, simVars, wireVars, threadVars
    <3>2. pc[s] = "idle" /\ pc'[s] \notin MapPlaces BY <3>1 DEF OneSlotEach
    <3> QED BY <3>1, <3>2, ThreadsKept
  <2>2. CASE Run(s)
    BY <2>2 DEF Run, mainVars, lockVars, nodeVars, wireVars, threadVars
  <2>3. CASE DropFinalize(s)
    BY <2>3 DEF DropFinalize, mainVars, simVars, lockVars, nodeVars, wireVars,
        threadVars
  <2>4. CASE Delete(s)
    BY <2>4 DEF Delete, mainVars, nodeVars, threadVars
  <2> QED BY <1>4, <2>1, <2>2, <2>3, <2>4 DEF EventNext
<1>5. ASSUME NEW s \in Simulator, CommonNext(s) PROVE ThreadsOfMaps'
  <2>1. CASE ReturnShuttingDown(s)
    BY <2>1 DEF ReturnShuttingDown, Running, Return, simVars, nodeVars, wireVars,
        threadVars
  <2>2. CASE Poll(s)
    BY <2>2 DEF Poll, Running, Goto, simVars, lockVars, nodeVars, wireVars, threadVars
  <2>3. CASE EventsProcessed(s)
    BY <2>3 DEF EventsProcessed, Running, Goto, simVars, lockVars, nodeVars, wireVars,
        threadVars
  <2> QED BY <1>5, <2>1, <2>2, <2>3 DEF CommonNext
<1>6. ASSUME NEW s \in Simulator, ReadNext(s) PROVE ThreadsOfMaps'
  <2>1. CASE ReadNothing(s)
    BY <2>1 DEF ReadNothing, Reading, Running, Return, simVars, nodeVars, wireVars,
        threadVars
  <2>2. CASE ReadDisconnect(s)
    BY <2>2 DEF ReadDisconnect, Reading, Running, Return, nodeVars, wireVars, threadVars
  <2>3. CASE ReadMapRequest(s)
    BY <2>3 DEF ReadMapRequest, Reading, Running, Post, Return, nodeVars, wireVars,
        threadVars
  <2>4. CASE ReadNodeRequest(s)
    BY <2>4 DEF ReadNodeRequest, Reading, Running, Goto, lockVars, nodeVars, wireVars,
        threadVars
  <2>5. CASE AcquireNode(s)
    BY <2>5 DEF AcquireNode, Running, Return, wireVars, threadVars
  <2>6. CASE NodeNotAvailable(s)
    BY <2>6 DEF NodeNotAvailable, Running, Return, nodeVars, wireVars, threadVars
  <2>7. CASE StartSimulation(s)
    BY <2>7 DEF StartSimulation, Reading, Running, Return, nodeVars, wireVars,
        threadVars
  <2>8. CASE EmitCommand(s)
    BY <2>8 DEF EmitCommand, Reading, Running, Goto, simVars, nodeVars, wireVars
  <2>9. CASE CommandDone(s)
    BY <2>9 DEF CommandDone, Running, PostSendPending, Return, simVars, nodeVars,
        wireVars, threadVars
  <2>10. CASE SendPending(s)
    BY <2>10 DEF SendPending, Running, Return, simVars, nodeVars, wireVars, threadVars
  <2> QED BY <1>6, <2>1, <2>2, <2>3, <2>4, <2>5, <2>6, <2>7, <2>8, <2>9, <2>10 DEF
      ReadNext
<1>7. ASSUME NEW s \in Simulator, InstantiateNext(s) PROVE ThreadsOfMaps'
  <2>1. CASE InstantiateStale(s)
    BY <2>1 DEF InstantiateStale, Instantiating, Running, Return, nodeVars, wireVars,
        threadVars
  <2>2. CASE InstantiateBusy(s)
    BY <2>2 DEF InstantiateBusy, Instantiating, Running, Post, Return, simVars,
        nodeVars, wireVars, threadVars
  <2>3. CASE Refused(s)
    BY <2>3 DEF Refused, Requesting, Instantiating, Running, Return, nodeVars, wireVars,
        threadVars
  <2>4. CASE CreateMap(s)
    <3>1. /\ Running(s) /\ pc[s] = "instantiate" /\ factoryLock = Nobody
          /\ comm[s] = "InstantiatingOrRetrievingMap" /\ request[s].map \notin managed
          /\ mpc' = [mpc EXCEPT ![request[s].map] = "setup"]
          /\ pc' = [pc EXCEPT ![s] = "initTry"]
          /\ UNCHANGED <<request, managed, quitting, mapLock>>
      BY <2>4 DEF CreateMap, Requesting, Instantiating, Goto, simVars, wireVars
    <3>2. request[s] # Nobody BY <3>1
    <3>3. request[s].map \in MapThread BY <3>2
    <3>4. \A t \in Simulator : pc[t] \notin MapPlaces
      BY <3>1, NoMapSlot
    <3>5. ManagedRun' BY <3>1, <3>3, <3>4
    <3>6. MadeOrEnded' BY <3>1, <3>3, <3>4
    <3>7. Quitting' /\ LockedByQuit' BY <3>1, <3>3, <3>4
    <3> QED BY <3>5, <3>6, <3>7
  <2>5. CASE MapCreated(s)
    <3>1. /\ pc[s] = "initTry" /\ mpc[request[s].map] \notin {"setup", "failed"}
          /\ managed' = managed \cup {request[s].map}
          /\ pc' = [pc EXCEPT ![s] = "idle"]
          /\ UNCHANGED <<mpc, request, quitting, mapLock>>
      BY <2>5 DEF MapCreated, Return, threadVars
    <3>2. \A t \in Simulator : pc[t] \in MapPlaces => t = s BY <3>1, OneMapSlot
    <3>3. quitting = {} BY <3>1, <3>2
    <3>4. ManagedRun' BY <3>1, <3>2, <3>3
    <3>5. MadeOrEnded' BY <3>1, <3>2, <3>3
    <3>6. Quitting' /\ LockedByQuit' BY <3>1, <3>2, <3>3
    <3> QED BY <3>4, <3>5, <3>6
  <2>6. CASE MapNotCreated(s)
    <3>1. /\ pc[s] = "initTry" /\ mpc' = [mpc EXCEPT ![request[s].map] = "none"]
          /\ pc' = [pc EXCEPT ![s] = "idle"]
          /\ UNCHANGED <<managed, request, quitting, mapLock>>
      BY <2>6 DEF MapNotCreated, Return, wireVars
    <3>2. \A t \in Simulator : pc[t] \in MapPlaces => t = s BY <3>1, OneMapSlot
    <3>3. quitting = {} /\ request[s].map \notin managed BY <3>1, <3>2
    <3>4. ManagedRun' BY <3>1, <3>2, <3>3
    <3>5. MadeOrEnded' BY <3>1, <3>2, <3>3
    <3>6. Quitting' /\ LockedByQuit' BY <3>1, <3>2, <3>3
    <3> QED BY <3>4, <3>5, <3>6
  <2>7. CASE JoinMap(s)
    BY <2>7 DEF JoinMap, Requesting, Instantiating, Running, Wanted, Return, nodeVars,
        threadVars
  <2> QED BY <1>7, <2>1, <2>2, <2>3, <2>4, <2>5, <2>6, <2>7 DEF InstantiateNext
<1>8. ASSUME NEW s \in Simulator, QuitNext(s) PROVE ThreadsOfMaps'
  <2>1. CASE DeleteMap(s)
    <3>1. /\ Running(s) /\ pc[s] = "instantiate" /\ factoryLock = Nobody
          /\ request[s].map \in managed /\ managed' = managed \ {request[s].map}
          /\ pc' = [pc EXCEPT ![s] = "quitLock"]
          /\ UNCHANGED <<mpc, request, quitting, mapLock>>
      BY <2>1 DEF DeleteMap, Requesting, Instantiating, Goto, simVars, threadVars
    <3>2. \A t \in Simulator : pc[t] \notin MapPlaces
      BY <3>1, NoMapSlot
    <3>3. ManagedRun' BY <3>1, <3>2
    <3>4. MadeOrEnded' BY <3>1, <3>2
    <3>5. Quitting' /\ LockedByQuit' BY <3>1, <3>2
    <3> QED BY <3>3, <3>4, <3>5
  <2>2. CASE QuitLock(s)
    BY <2>2 DEF QuitLock, Running, Wanted, Goto, simVars, nodeVars, threadVars
  <2>3. CASE QuitDone(s)
    BY <2>3 DEF QuitDone, Running, Wanted, Goto, simVars, nodeVars, threadVars
  <2>4. CASE MapDeleted(s)
    BY <2>4 DEF MapDeleted, Running, Wanted, Return, nodeVars
  <2>5. CASE \E t \in Simulator : AboutToFinishPanics(s, t)
    BY <2>5 DEF AboutToFinishPanics, Emitting, Running, Wanted, Notified, mainVars,
        simVars, lockVars, nodeVars, threadVars
  <2>6. CASE \E t \in Simulator : AboutToFinishNoNode(s, t)
    BY <2>6 DEF AboutToFinishNoNode, Emitting, Running, Wanted, Notified, mainVars,
        lockVars, nodeVars, threadVars
  <2>7. CASE \E t \in Simulator : AboutToFinish(s, t)
    <3>1. PICK u \in Simulator : AboutToFinish(s, u) BY <2>7
    <3>2. /\ simLock[u] = Nobody /\ pc' = [pc EXCEPT ![u] = "aboutTry"]
          /\ UNCHANGED <<mpc, request, managed, quitting, mapLock, factoryLock>>
      BY <3>1 DEF AboutToFinish, Emitting, simVars, threadVars
    <3>3. pc[u] = "idle" BY <3>2 DEF OneSlotEach
    <3>4. pc[u] \notin MapPlaces /\ pc'[u] \notin MapPlaces BY <3>2, <3>3
    <3> QED BY <3>2, <3>4, ThreadsKept
  <2>8. CASE AboutReleased(s)
    BY <2>8 DEF AboutReleased, Running, FreeNode, Goto, simVars, lockVars, wireVars,
        threadVars
  <2>9. CASE AboutDone(s)
    BY <2>9 DEF AboutDone, Running, Return, nodeVars, wireVars, threadVars
  <2> QED BY <1>8, <2>1, <2>2, <2>3, <2>4, <2>5, <2>6, <2>7, <2>8, <2>9 DEF QuitNext
<1>9. ASSUME NEW s \in Simulator, FinalizeNext(s) PROVE ThreadsOfMaps'
  <2>1. CASE FinalizeNoNode(s)
    BY <2>1 DEF FinalizeNoNode, Finalizing, Running, ShutDown, Post, Return, nodeVars,
        wireVars, threadVars
  <2>2. CASE FinalizeRelease(s)
    <3>1. /\ Running(s) /\ pc[s] = "finalize" /\ pc' = [pc EXCEPT ![s] = "finTry"]
          /\ UNCHANGED <<mpc, request, managed, quitting, mapLock>>
      BY <2>2 DEF FinalizeRelease, Finalizing, Goto, wireVars, threadVars
    <3>2. \A t \in Simulator : pc[t] # "quitWait" BY <3>1, NoneWaits
    <3> QED BY <3>1, <3>2, ThreadsKept
  <2>3. CASE FinalizeBusy(s)
    BY <2>3 DEF FinalizeBusy, Finalizing, Running, ShutDown, Goto, nodeVars, wireVars,
        threadVars
  <2>4. CASE FinalizeLater(s)
    BY <2>4 DEF FinalizeLater, Running, Post, Return, simVars, nodeVars, threadVars
  <2>5. CASE FinalizeReleased(s)
    BY <2>5 DEF FinalizeReleased, Running, FreeNode, Goto, simVars, wireVars, threadVars
  <2>6. CASE FinalizeDone(s)
    BY <2>6 DEF FinalizeDone, Running, Post, Return, nodeVars, wireVars, threadVars
  <2> QED BY <1>9, <2>1, <2>2, <2>3, <2>4, <2>5, <2>6 DEF FinalizeNext
<1> QED BY <1>1, <1>2, <1>3, <1>4, <1>5, <1>6, <1>7, <1>8, <1>9
  DEF Next, SlotNext, Stopped

\* Whatever leaves the slots that end maps alone, and their messages, keeps MapReached.
LEMMA ReachedKept ==
  ASSUME IInv, MapInv, NEW s \in Simulator,
         \A t \in Simulator \ {s} :
           pc'[t] = pc[t] /\ request'[t] = request[t] /\ map'[t] = map[t],
         pc[s] \notin {"quitLock", "quitEmit"},
         pc[s] \in AboutPlaces => map'[s] = Nobody \/ pc'[s] \in AboutPlaces,
         map'[s] \in {map[s], Nobody} \cup managed',
         managed \subseteq managed', toNotify' = toNotify, panic' = panic
  PROVE  MapReached'
<1> SUFFICES ASSUME NEW x \in Simulator, map'[x] # Nobody, map'[x] \notin managed'
             PROVE  EndToBeTold(x)'
  BY DEF MapReached
<1>1. map'[x] = map[x] /\ map[x] \notin managed OBVIOUS
<1>2. PICK t \in Simulator :
        /\ \/ pc[t] = "quitLock"
           \/ /\ pc[t] = "quitEmit"
              /\ x \in toNotify[map[x]] \/ pc[x] \in AboutPlaces \/ panic
        /\ Wanted(t) = map[x]
  BY <1>1 DEF MapInv, MapReached, EndToBeTold
<1>3. pc'[t] = pc[t] /\ Wanted(t)' = Wanted(t) BY <1>2 DEF Wanted
<1>4. pc[x] \in AboutPlaces => pc'[x] \in AboutPlaces BY <1>1
<1> QED BY <1>1, <1>2, <1>3, <1>4 DEF EndToBeTold

\* The map of a pointer is managed, or its end is yet to be told.
LEMMA ReachedStep ==
  ASSUME IInv, MapInv, [Next]_vars
  PROVE  MapReached'
<1> USE ConstantsAssumption DEF IInv, TypeOK, MainTypes, SimulatorTypes, ThreadTypes,
    LockTypes, MapTypes, RequestType, RequestKnown, Slots, TryPlaces, PollPlaces,
    LentPlaces, PollOf, MapInv, MapPlaces, Wanted, AboutPlaces, EndToBeTold
<1>1. CASE UNCHANGED vars
  BY <1>1 DEF vars, mainVars, simVars, lockVars, nodeVars, wireVars, threadVars, MapReached
<1>2. ASSUME NEW m \in MapThread, MapThreadNext(m) PROVE MapReached'
  <2>1. CASE SetUp(m)
    BY <2>1 DEF SetUp, MoveTo, mainVars, simVars, lockVars, nodeVars, wireVars,
        MapReached
  <2>2. CASE \E n \in Node : FrameArrives(m, n)
    BY <2>2 DEF FrameArrives, MoveTo, mainVars, simVars, nodeVars, wireVars, MapReached
  <2>3. CASE NotForSimulator(m)
    BY <2>3 DEF NotForSimulator, MoveTo, mainVars, simVars, nodeVars, wireVars,
        MapReached
  <2>4. CASE EmitFrameReceived(m)
    BY <2>4 DEF EmitFrameReceived, MoveTo, mainVars, simVars, lockVars, nodeVars,
        wireVars, MapReached
  <2>5. CASE TryMutex(m)
    BY <2>5 DEF TryMutex, Target, MoveTo, mainVars, simVars, nodeVars, wireVars,
        MapReached
  <2>6. CASE TryMayBlock(m)
    BY <2>6 DEF TryMayBlock, Target, MoveTo, mainVars, simVars, nodeVars, wireVars,
        MapReached
  <2>7. CASE Deliver(m)
    BY <2>7 DEF Deliver, Target, PostSendPending, MoveTo, mainVars, simVars, nodeVars,
        wireVars, MapReached
  <2>8. CASE ServeSend(m)
    BY <2>8 DEF ServeSend, Reply, MoveTo, mainVars, simVars, lockVars, nodeVars,
        wireVars, MapReached
  <2>9. CASE ServeInvalid(m)
    BY <2>9 DEF ServeInvalid, MoveTo, mainVars, simVars, lockVars, nodeVars, wireVars,
        MapReached
  <2>10. CASE NotifyInvalid(m)
    BY <2>10 DEF NotifyInvalid, Reply, MoveTo, mainVars, simVars, lockVars, nodeVars,
        wireVars, MapReached
  <2>11. CASE ServeChange(m)
    BY <2>11 DEF ServeChange, MoveTo, mainVars, simVars, lockVars, nodeVars, wireVars,
        MapReached
  <2>12. CASE LockMapChanges(m)
    <3>1. /\ mapLock[m] = Nobody /\ toNotify' = [toNotify EXCEPT ![m] = observers[m]]
          /\ UNCHANGED <<pc, managed, map, request, panic>>
      BY <2>12 DEF LockMapChanges, mainVars, simVars
    <3>2. \A t \in Simulator : pc[t] = "quitEmit" => Wanted(t) # m BY <3>1 DEF Emissions
    <3> SUFFICES ASSUME NEW x \in Simulator, map'[x] # Nobody, map'[x] \notin managed'
                 PROVE  EndToBeTold(x)'
      BY DEF MapReached
    <3>3. PICK t \in Simulator :
            /\ \/ pc[t] = "quitLock"
               \/ /\ pc[t] = "quitEmit"
                  /\ x \in toNotify[map[x]] \/ pc[x] \in AboutPlaces \/ panic
            /\ Wanted(t) = map[x]
      BY <3>1 DEF MapReached
    <3> QED BY <3>1, <3>2, <3>3
  <2>13. CASE \E o \in Simulator : NotifyObserver(m, o)
    <3>1. /\ mapLock[m] = m /\ ~panic /\ UNCHANGED <<pc, managed, map, request>>
          /\ \E o \in Simulator : toNotify' = [toNotify EXCEPT ![m] = @ \ {o}]
      BY <2>13 DEF NotifyObserver, mainVars, simVars, Emissions
    <3>2. \A t \in Simulator : pc[t] = "quitEmit" => Wanted(t) # m BY <3>1 DEF Emissions
    <3> SUFFICES ASSUME NEW x \in Simulator, map'[x] # Nobody, map'[x] \notin managed'
                 PROVE  EndToBeTold(x)'
      BY DEF MapReached
    <3>3. PICK t \in Simulator :
            /\ \/ pc[t] = "quitLock"
               \/ /\ pc[t] = "quitEmit"
                  /\ x \in toNotify[map[x]] \/ pc[x] \in AboutPlaces \/ panic
            /\ Wanted(t) = map[x]
      BY <3>1 DEF MapReached
    <3> QED BY <3>1, <3>2, <3>3
  <2>14. CASE ChangeDone(m)
    BY <2>14 DEF ChangeDone, Reply, MoveTo, mainVars, simVars, nodeVars, wireVars,
        MapReached
  <2>15. CASE LeaveLoop(m)
    BY <2>15 DEF LeaveLoop, MoveTo, mainVars, simVars, lockVars, nodeVars, wireVars,
        MapReached
  <2> QED BY <1>2, <2>1, <2>2, <2>3, <2>4, <2>5, <2>6, <2>7, <2>8, <2>9, <2>10, <2>11,
      <2>12, <2>13, <2>14, <2>15 DEF MapThreadNext
<1>3. ASSUME NEW s \in Simulator, ClientNext(s) PROVE MapReached'
  <2>1. CASE DataArrives(s)
    BY <2>1, ReachedKept DEF DataArrives, Enter, ProcessingEvents, simVars, nodeVars,
        wireVars, threadVars, OneSlotEach
  <2>2. CASE SocketCloses(s)
    BY <2>2 DEF SocketCloses, Post, mainVars, lockVars, nodeVars, wireVars, threadVars,
        MapReached
  <2> QED BY <1>3, <2>1, <2>2 DEF ClientNext
<1>4. ASSUME NEW s \in Simulator, EventNext(s) PROVE MapReached'
  <2>1. CASE \E slot \in Slots : PostedSlot(s, slot)
    <3>1. PICK slot \in Slots :
            /\ simLock[s] = Nobody /\ pc' = [pc EXCEPT ![s] = slot]
            /\ UNCHANGED <<map, request, managed, toNotify, panic>>
      BY <2>1 DEF PostedSlot, Enter, simVars, wireVars
    <3>2. pc[s] = "idle" BY <3>1 DEF OneSlotEach
    <3> QED BY <3>1, <3>2, ReachedKept
  <2>2. CASE Run(s)
    BY <2>2 DEF Run, mainVars, lockVars, nodeVars, wireVars, threadVars, MapReached
  <2>3. CASE DropFinalize(s)
    BY <2>3 DEF DropFinalize, mainVars, simVars, lockVars, nodeVars, wireVars,
        threadVars, MapReached
  <2>4. CASE Delete(s)
    <3>1. /\ "delete" \in posted[s] /\ toNotify' = [m \in MapThread |-> toNotify[m] \ {s}]
          /\ UNCHANGED <<pc, managed, map, request, panic>>
      BY <2>4 DEF Delete, mainVars
    <3>2. map[s] = Nobody BY <3>1 DEF Selected, MapPointer
    <3> SUFFICES ASSUME NEW x \in Simulator, map'[x] # Nobody, map'[x] \notin managed'
                 PROVE  EndToBeTold(x)'
      BY DEF MapReached
    <3>3. map[x] # Nobody /\ x # s BY <3>1, <3>2
    <3>4. x \in toNotify[map[x]] => x \in toNotify'[map[x]] BY <3>1, <3>3
    <3> QED BY <3>1, <3>3, <3>4 DEF MapReached
  <2> QED BY <1>4, <2>1, <2>2, <2>3, <2>4 DEF EventNext
<1>5. ASSUME NEW s \in Simulator, CommonNext(s) PROVE MapReached'
  <2>1. CASE ReturnShuttingDown(s)
    BY <2>1, ReachedKept DEF ReturnShuttingDown, Running, Return, simVars, nodeVars,
        wireVars, threadVars
  <2>2. CASE Poll(s)
    <3>1. /\ pc[s] \in TryPlaces /\ pc' = [pc EXCEPT ![s] = PollOf(pc[s])]
          /\ UNCHANGED <<map, request, managed, toNotify, panic>>
      BY <2>2 DEF Poll, Goto, simVars, wireVars
    <3>2. pc[s] \in AboutPlaces => pc'[s] \in AboutPlaces BY <3>1
    <3> QED BY <3>1, <3>2, ReachedKept
  <2>3. CASE EventsProcessed(s)
    <3>1. PICK p \in TryPlaces :
            /\ pc[s] = PollOf(p) /\ pc' = [pc EXCEPT ![s] = p]
            /\ UNCHANGED <<map, request, managed, toNotify, panic>>
      BY <2>3 DEF EventsProcessed, Goto, simVars, wireVars
    <3>2. pc[s] \in AboutPlaces => pc'[s] \in AboutPlaces BY <3>1
    <3> QED BY <3>1, <3>2, ReachedKept
  <2> QED BY <1>5, <2>1, <2>2, <2>3 DEF CommonNext
<1>6. ASSUME NEW s \in Simulator, ReadNext(s) PROVE MapReached'
  <2>1. CASE ReadNothing(s)
    BY <2>1, ReachedKept DEF ReadNothing, Reading, Running, Return, simVars, nodeVars,
        wireVars, threadVars
  <2>2. CASE ReadDisconnect(s)
    BY <2>2, ReachedKept DEF ReadDisconnect, Reading, Running, Return, nodeVars,
        wireVars, threadVars
  <2>3. CASE ReadMapRequest(s)
    BY <2>3, ReachedKept DEF ReadMapRequest, Reading, Running, Post, Return, nodeVars,
        wireVars, threadVars
  <2>4. CASE ReadNodeRequest(s)
    BY <2>4, ReachedKept DEF ReadNodeRequest, Reading, Running, Goto, lockVars,
        nodeVars, wireVars, threadVars
  <2>5. CASE AcquireNode(s)
    BY <2>5, ReachedKept DEF AcquireNode, Running, Return, wireVars, threadVars
  <2>6. CASE NodeNotAvailable(s)
    BY <2>6, ReachedKept DEF NodeNotAvailable, Running, Return, nodeVars, wireVars,
        threadVars
  <2>7. CASE StartSimulation(s)
    BY <2>7, ReachedKept DEF StartSimulation, Reading, Running, Return, nodeVars,
        wireVars, threadVars
  <2>8. CASE EmitCommand(s)
    <3>1. pc[s] = "readData" /\ \E place : pc' = [pc EXCEPT ![s] = place]
      BY <2>8 DEF EmitCommand, Reading, Goto
    <3>2. UNCHANGED <<map, request, managed, toNotify, panic>>
      BY <2>8 DEF EmitCommand, simVars, wireVars
    <3>3. \A t \in Simulator \ {s} : pc'[t] = pc[t] BY <3>1
    <3>4. pc[s] \notin {"quitLock", "quitEmit"} /\ pc[s] \notin AboutPlaces BY <3>1
    <3> QED BY <3>2, <3>3, <3>4, ReachedKept
  <2>9. CASE CommandDone(s)
    BY <2>9, ReachedKept DEF CommandDone, Running, PostSendPending, Return, simVars,
        nodeVars, wireVars, threadVars
  <2>10. CASE SendPending(s)
    BY <2>10, ReachedKept DEF SendPending, Running, Return, simVars, nodeVars, wireVars,
        threadVars
  <2> QED BY <1>6, <2>1, <2>2, <2>3, <2>4, <2>5, <2>6, <2>7, <2>8, <2>9, <2>10 DEF
      ReadNext
<1>7. ASSUME NEW s \in Simulator, InstantiateNext(s) PROVE MapReached'
  <2>1. CASE InstantiateStale(s)
    BY <2>1, ReachedKept DEF InstantiateStale, Instantiating, Running, Return, nodeVars,
        wireVars, threadVars
  <2>2. CASE InstantiateBusy(s)
    BY <2>2, ReachedKept DEF InstantiateBusy, Instantiating, Running, Post, Return,
        simVars, nodeVars, wireVars, threadVars
  <2>3. CASE Refused(s)
    BY <2>3, ReachedKept DEF Refused, Requesting, Instantiating, Running, Return,
        nodeVars, wireVars, threadVars
  <2>4. CASE CreateMap(s)
    BY <2>4, ReachedKept DEF CreateMap, Requesting, Instantiating, Running, Wanted,
        Goto, simVars, nodeVars, wireVars
  <2>5. CASE MapCreated(s)
    BY <2>5, ReachedKept DEF MapCreated, Running, Wanted, Return, nodeVars, threadVars
  <2>6. CASE MapNotCreated(s)
    <3>1. /\ pc[s] = "initTry" /\ pc' = [pc EXCEPT ![s] = "idle"]
          /\ UNCHANGED <<map, request, managed, toNotify, panic>>
      BY <2>6 DEF MapNotCreated, Return, wireVars
    <3> QED BY <3>1, ReachedKept
  <2>7. CASE JoinMap(s)
    BY <2>7, ReachedKept DEF JoinMap, Requesting, Instantiating, Running, Wanted,
        Return, nodeVars, threadVars
  <2> QED BY <1>7, <2>1, <2>2, <2>3, <2>4, <2>5, <2>6, <2>7 DEF InstantiateNext
<1>8. ASSUME NEW s \in Simulator, QuitNext(s) PROVE MapReached'
  <2>1. CASE DeleteMap(s)
    <3>1. /\ Running(s) /\ pc[s] = "instantiate" /\ pc' = [pc EXCEPT ![s] = "quitLock"]
          /\ managed' = managed \ {Wanted(s)}
          /\ UNCHANGED <<map, request, toNotify, panic>>
      BY <2>1 DEF DeleteMap, Requesting, Instantiating, Goto, simVars
    <3> SUFFICES ASSUME NEW x \in Simulator, map'[x] # Nobody, map'[x] \notin managed'
                 PROVE  EndToBeTold(x)'
      BY DEF MapReached
    <3>2. CASE map[x] = Wanted(s) BY <3>1, <3>2
    <3>3. CASE map[x] # Wanted(s)
      <4>1. map[x] # Nobody /\ map[x] \notin managed BY <3>1, <3>3
      <4>2. PICK t \in Simulator :
              /\ \/ pc[t] = "quitLock"
                 \/ /\ pc[t] = "quitEmit"
                    /\ x \in toNotify[map[x]] \/ pc[x] \in AboutPlaces \/ panic
              /\ Wanted(t) = map[x]
        BY <4>1 DEF MapReached
      <4>3. t # s BY <3>1, <4>2
      <4> QED BY <3>1, <4>2, <4>3
    <3> QED BY <3>2, <3>3
  <2>2. CASE QuitLock(s)
    <3>1. /\ Running(s) /\ pc[s] = "quitLock" /\ pc' = [pc EXCEPT ![s] = "quitEmit"]
          /\ toNotify' = [toNotify EXCEPT ![Wanted(s)] = listeners[Wanted(s)]]
          /\ UNCHANGED <<managed, map, request, panic>>
      BY <2>2 DEF QuitLock, Goto, simVars
    <3> SUFFICES ASSUME NEW x \in Simulator, map'[x] # Nobody, map'[x] \notin managed'
                 PROVE  EndToBeTold(x)'
      BY DEF MapReached
    <3>2. map[x] # Nobody /\ map[x] \notin managed BY <3>1
    <3>3. PICK t \in Simulator :
            /\ \/ pc[t] = "quitLock"
               \/ /\ pc[t] = "quitEmit"
                  /\ x \in toNotify[map[x]] \/ pc[x] \in AboutPlaces \/ panic
            /\ Wanted(t) = map[x]
      BY <3>2 DEF MapReached
    <3>4. t = s BY <3>1, <3>3, OneMapSlot
    <3>5. x \in listeners[Wanted(s)] /\ Wanted(s) \in MapThread BY <3>2, <3>3, <3>4
      DEF Listening
    <3> QED BY <3>1, <3>3, <3>4, <3>5
  <2>3. CASE QuitDone(s)
    <3>1. /\ Running(s) /\ pc[s] = "quitEmit" /\ toNotify[Wanted(s)] = {}
          /\ UNCHANGED <<managed, map>>
      BY <2>3 DEF QuitDone, simVars
    <3> SUFFICES ASSUME NEW x \in Simulator, map'[x] # Nobody, map'[x] \notin managed'
                 PROVE  EndToBeTold(x)'
      BY DEF MapReached
    <3>2. map[x] # Nobody /\ map[x] \notin managed BY <3>1
    <3>3. PICK t \in Simulator :
            /\ \/ pc[t] = "quitLock"
               \/ /\ pc[t] = "quitEmit"
                  /\ x \in toNotify[map[x]] \/ pc[x] \in AboutPlaces \/ panic
            /\ Wanted(t) = map[x]
      BY <3>2 DEF MapReached
    <3>4. t = s BY <3>1, <3>3, OneMapSlot
    <3>5. pc[x] \in AboutPlaces BY <3>1, <3>3, <3>4 DEF Running
    <3>6. PICK i \in 1..Len(stack) : stack[i] = x BY <3>5 DEF OneSlotEach
    <3>7. PICK j \in i+1..Len(stack) : pc[stack[j]] = "quitEmit"
      BY <3>5, <3>6 DEF AboutAbove
    <3>8. j \in 1..Len(stack) /\ 1 \in 1..Len(stack) /\ j # 1 BY <3>7
    <3>9. stack[j] = s BY <3>1, <3>7, <3>8, OneMapSlot
    <3>10. stack[1] = s BY <3>1 DEF Running
    <3>11. \A k, l \in 1..Len(stack) : stack[k] = stack[l] => k = l BY DEF OneSlotEach
    <3> QED BY <3>8, <3>9, <3>10, <3>11
  <2>4. CASE MapDeleted(s)
    <3>1. pc[s] = "quitWait" /\ pc' = [pc EXCEPT ![s] = "idle"] /\ map' = [map EXCEPT ![s] = Nobody]
      BY <2>4 DEF MapDeleted, Return
    <3>2. UNCHANGED <<request, managed, toNotify, panic>> BY <2>4 DEF MapDeleted
    <3>3. \A t \in Simulator \ {s} : pc'[t] = pc[t] /\ map'[t] = map[t] BY <3>1
    <3>4. pc[s] \notin {"quitLock", "quitEmit"} /\ pc[s] \notin AboutPlaces BY <3>1
    <3>5. map'[s] = Nobody BY <3>1
    <3> QED BY <3>2, <3>3, <3>4, <3>5, ReachedKept
  <2>5. CASE \E t \in Simulator : AboutToFinishPanics(s, t)
    BY <2>5 DEF AboutToFinishPanics, Emitting, Running, Wanted, Notified, mainVars,
        simVars, lockVars, nodeVars, threadVars, MapReached
  <2>6. CASE \E t \in Simulator : AboutToFinishNoNode(s, t)
    <3>1. PICK u \in Simulator : AboutToFinishNoNode(s, u) BY <2>6
    <3>2. /\ Running(s) /\ pc[s] = "quitEmit"
          /\ toNotify' = [toNotify EXCEPT ![Wanted(s)] = @ \ {u}]
          /\ map' = [map EXCEPT ![u] = Nobody]
          /\ UNCHANGED <<pc, managed, request, panic>>
      BY <3>1 DEF AboutToFinishNoNode, Emitting, Notified, mainVars
    <3> SUFFICES ASSUME NEW x \in Simulator, map'[x] # Nobody, map'[x] \notin managed'
                 PROVE  EndToBeTold(x)'
      BY DEF MapReached
    <3>3. x # u /\ map'[x] = map[x] BY <3>2
    <3>4. PICK t \in Simulator :
            /\ \/ pc[t] = "quitLock"
               \/ /\ pc[t] = "quitEmit"
                  /\ x \in toNotify[map[x]] \/ pc[x] \in AboutPlaces \/ panic
            /\ Wanted(t) = map[x]
      BY <3>2, <3>3 DEF MapReached
    <3>5. x \in toNotify[map[x]] => x \in toNotify'[map[x]] BY <3>2, <3>3
    <3> QED BY <3>2, <3>3, <3>4, <3>5
  <2>7. CASE \E t \in Simulator : AboutToFinish(s, t)
    <3>1. PICK u \in Simulator : AboutToFinish(s, u) BY <2>7
    <3>2. /\ Running(s) /\ pc[s] = "quitEmit" /\ simLock[u] = Nobody
          /\ toNotify' = [toNotify EXCEPT ![Wanted(s)] = @ \ {u}]
          /\ pc' = [pc EXCEPT ![u] = "aboutTry"]
          /\ UNCHANGED <<map, managed, request, panic>>
      BY <3>1 DEF AboutToFinish, Emitting, Notified, simVars
    <3>3. pc[u] = "idle" BY <3>2 DEF OneSlotEach
    <3> SUFFICES ASSUME NEW x \in Simulator, map'[x] # Nobody, map'[x] \notin managed'
                 PROVE  EndToBeTold(x)'
      BY DEF MapReached
    <3>4. PICK t \in Simulator :
            /\ \/ pc[t] = "quitLock"
               \/ /\ pc[t] = "quitEmit"
                  /\ x \in toNotify[map[x]] \/ pc[x] \in AboutPlaces \/ panic
            /\ Wanted(t) = map[x]
      BY <3>2 DEF MapReached
    <3>5. t # u /\ t \in Simulator BY <3>3, <3>4
    <3>6. x # u /\ x \in toNotify[map[x]] => x \in toNotify'[map[x]] BY <3>2
    <3>7. x # u => pc'[x] = pc[x] BY <3>2
    <3>8. x = u => pc'[x] \in AboutPlaces BY <3>2
    <3> QED BY <3>2, <3>4, <3>5, <3>6, <3>7, <3>8
  <2>8. CASE AboutReleased(s)
    BY <2>8, ReachedKept DEF AboutReleased, Running, FreeNode, Goto, simVars, lockVars,
        wireVars, threadVars
  <2>9. CASE AboutDone(s)
    BY <2>9, ReachedKept DEF AboutDone, Running, Return, nodeVars, wireVars, threadVars
  <2> QED BY <1>8, <2>1, <2>2, <2>3, <2>4, <2>5, <2>6, <2>7, <2>8, <2>9 DEF QuitNext
<1>9. ASSUME NEW s \in Simulator, FinalizeNext(s) PROVE MapReached'
  <2>1. CASE FinalizeNoNode(s)
    BY <2>1, ReachedKept DEF FinalizeNoNode, Finalizing, Running, ShutDown, Post,
        Return, nodeVars, wireVars, threadVars
  <2>2. CASE FinalizeRelease(s)
    BY <2>2, ReachedKept DEF FinalizeRelease, Finalizing, Running, ShutDown, Goto,
        nodeVars, wireVars, threadVars
  <2>3. CASE FinalizeBusy(s)
    BY <2>3, ReachedKept DEF FinalizeBusy, Finalizing, Running, ShutDown, Goto,
        nodeVars, wireVars, threadVars
  <2>4. CASE FinalizeLater(s)
    BY <2>4, ReachedKept DEF FinalizeLater, Running, Post, Return, simVars, nodeVars,
        threadVars
  <2>5. CASE FinalizeReleased(s)
    BY <2>5, ReachedKept DEF FinalizeReleased, Running, FreeNode, Goto, simVars,
        wireVars, threadVars
  <2>6. CASE FinalizeDone(s)
    BY <2>6, ReachedKept DEF FinalizeDone, Running, Post, Return, nodeVars, wireVars,
        threadVars
  <2> QED BY <1>9, <2>1, <2>2, <2>3, <2>4, <2>5, <2>6 DEF FinalizeNext
<1> QED BY <1>1, <1>2, <1>3, <1>4, <1>5, <1>6, <1>7, <1>8, <1>9
  DEF Next, SlotNext, Stopped

-----------------------------------------------------------------------------
(* The properties.                                                          *)

\* Every step keeps the invariant of the map threads.
LEMMA MapStep ==
  ASSUME IInv, MapInv, [Next]_vars
  PROVE  MapInv'
<1>1. AboutAbove' BY AboutStep DEF IInv, MapInv
<1> QED BY <1>1, SelectedStep, ListeningStep, ThreadsStep, ReachedStep DEF MapInv

\* The thread of a map that a pointer leads to runs.
LEMMA ReachedRuns ==
  ASSUME MapInv, NEW s \in Simulator, map[s] # Nobody
  PROVE  RunsItsLoop(map[s])
BY DEF MapInv, MapReached, EndToBeTold, ThreadsOfMaps, ManagedRun, MadeOrEnded

\* Within the invariants no frame, command or answer reaches what was deleted.
LEMMA PointersInvariant ==
  ASSUME IInv, MapInv
  PROVE  PointersValid
<1> USE ConstantsAssumption DEF IInv, TypeOK, SimulatorTypes, MapTypes, ThreadTypes, MapInv,
    Selected
<1>1. ASSUME NEW n \in Node, receiver[n] # Nobody
      PROVE  /\ alive[receiver[n]] /\ map[receiver[n]] = hostOf[n]
             /\ mpc[hostOf[n]] \notin {"none", "setup", "failed", "finished"}
  <2>1. receiver[n] \in Simulator /\ node[receiver[n]] = n
    BY <1>1 DEF NodeOwnedByOne, Owns
  <2>2. alive[receiver[n]] BY <2>1 DEF Leaving
  <2>3. map[receiver[n]] = hostOf[n] /\ hostOf[n] # Nobody BY <2>1 DEF NodeOfMap
  <2> QED BY <2>1, <2>2, <2>3, ReachedRuns DEF RunsItsLoop
<1>2. ASSUME NEW m \in MapThread, callFrom[m] # Nobody
      PROVE  mpc[m] \notin {"none", "setup", "failed", "finished"}
  <2>1. /\ callFrom[m] \in Simulator /\ pc[callFrom[m]] \in LentPlaces
        /\ hostOf[node[callFrom[m]]] = m
    BY <1>2 DEF Callers, LentPlaces
  <2>2. node[callFrom[m]] # Nobody BY <2>1 DEF NodePointer
  <2>3. map[callFrom[m]] = m BY <2>1, <2>2 DEF NodeOfMap
  <2> QED BY <2>1, <2>3, ReachedRuns DEF RunsItsLoop
<1>3. \A s \in Simulator : map[s] # Nobody => mpc[map[s]] \notin {"none", "setup", "failed"}
  BY ReachedRuns DEF RunsItsLoop
<1>4. MapPointerValid BY <1>2, <1>3 DEF MapPointer, MapPointerValid
<1> QED BY <1>1, <1>4 DEF PointersValid, OwnerAndMapLive

\* Within the invariants no thread waits for a lock of its own.
LEMMA DeadlockInvariant ==
  ASSUME IInv, MapInv
  PROVE  NoSelfDeadlock
<1> USE ConstantsAssumption DEF IInv, MapInv, ThreadsOfMaps
<1>1. ASSUME NEW s \in Simulator, pc[s] = "quitLock" PROVE mapLock[Wanted(s)] # Main
  <2>1. SUFFICES ASSUME mapLock[Wanted(s)] = Main PROVE FALSE OBVIOUS
  <2>2. Wanted(s) \in MapThread
    BY <1>1, WantedKnown DEF MapPlaces
  <2>3. PICK t \in Simulator : pc[t] = "quitEmit" BY <2>1, <2>2 DEF LockedByQuit
  <2> QED BY <1>1, <2>3, OneMapSlot DEF MapPlaces
<1>2. \A s \in Simulator : pc[s] = "quitWait" => factoryLock # Main BY DEF MadeOrEnded
<1>3. \A s \in Simulator : pc[s] \in LentPlaces => mayBlock[s] # Main BY DEF MainHolds
<1> QED BY <1>1, <1>2, <1>3 DEF NoSelfDeadlock

\* Spec implies that MapInv always holds.
LEMMA MapInvariance == Spec => []MapInv
<1>1. Init => MapInv
  BY ConstantsAssumption DEF Init, MapInv, Selected, ThreadsOfMaps, NodeOfMap, Listening,
      MapReached, AboutAbove, MapPointer, ManagedRun, MadeOrEnded, Quitting, LockedByQuit,
      MapPlaces, AboutPlaces
<1>2. IInv /\ MapInv /\ [Next]_vars => MapInv' BY MapStep
<1> QED BY <1>1, <1>2, Invariance, PTL DEF Spec

\* PointersValid: whoever leaves, ends or deletes what, frames, commands and the answers of
\* the factory reach clients that are alive and threads that run.
THEOREM NothingDeletedReached == Spec => []PointersValid
<1>1. IInv /\ MapInv => PointersValid BY PointersInvariant
<1> QED BY <1>1, Invariance, MapInvariance, PTL

\* NoSelfDeadlock: QMutex::lock () of the main thread never waits for one of its own slots.
THEOREM MainNeverWaitsForItself == Spec => []NoSelfDeadlock
<1>1. IInv /\ MapInv => NoSelfDeadlock BY DeadlockInvariant
<1> QED BY <1>1, Invariance, MapInvariance, PTL

-----------------------------------------------------------------------------
(* Frames that wait for a simulator.                                        *)

\* The node of a frame that waits stays taken, since its lock is held.
FrameWaits ==
  \A m \in MapThread :
    mpc[m] \in {"tryMutex", "tryMayBlock", "deliver"} => ~available[mnode[m]]

\* A node is neither taken nor given back while a frame waits in it.
LEMMA FrameStep ==
  ASSUME IInv, FrameWaits, [Next]_vars
  PROVE  FrameWaits'
<1> USE ConstantsAssumption DEF IInv, TypeOK, MapTypes, ThreadTypes, SimulatorTypes,
    FrameWaits, Handling, TryPlaces, PollPlaces, LentPlaces
<1>1. CASE UNCHANGED vars
  BY <1>1 DEF vars, mainVars, simVars, lockVars, nodeVars, wireVars, threadVars
<1>2. ASSUME NEW m \in MapThread, MapThreadNext(m) PROVE FrameWaits'
  <2>1. CASE SetUp(m) \/ (\E n \in Node : FrameArrives(m, n)) \/ NotForSimulator(m) \/
      EmitFrameReceived(m) \/ TryMutex(m) \/ TryMayBlock(m) \/ Deliver(m) \/
      ServeSend(m) \/ ServeInvalid(m) \/ NotifyInvalid(m) \/ ServeChange(m) \/
      LockMapChanges(m) \/ (\E o \in Simulator : NotifyObserver(m, o)) \/ ChangeDone(m)
      \/ LeaveLoop(m)
    BY <2>1 DEF SetUp, MoveTo, mainVars, simVars, lockVars, nodeVars, wireVars,
        FrameArrives, NotForSimulator, EmitFrameReceived, TryMutex, Target, TryMayBlock,
        Deliver, PostSendPending, ServeSend, Reply, ServeInvalid, NotifyInvalid,
        ServeChange, LockMapChanges, NotifyObserver, threadVars, ChangeDone, LeaveLoop
  <2> QED BY <1>2, <2>1 DEF MapThreadNext
<1>3. ASSUME NEW s \in Simulator, ClientNext(s) PROVE FrameWaits'
  <2>1. CASE DataArrives(s) \/ SocketCloses(s)
    BY <2>1 DEF DataArrives, Enter, ProcessingEvents, simVars, nodeVars, wireVars,
        threadVars, SocketCloses, Post, mainVars, lockVars
  <2> QED BY <1>3, <2>1 DEF ClientNext
<1>4. ASSUME NEW s \in Simulator, EventNext(s) PROVE FrameWaits'
  <2>1. CASE (\E slot \in Slots : PostedSlot(s, slot)) \/ Run(s) \/ DropFinalize(s) \/
      Delete(s)
    BY <2>1 DEF PostedSlot, Enter, ProcessingEvents, simVars, nodeVars, wireVars,
        threadVars, Run, mainVars, lockVars, DropFinalize, Delete
  <2> QED BY <1>4, <2>1 DEF EventNext
<1>5. ASSUME NEW s \in Simulator, CommonNext(s) PROVE FrameWaits'
  <2>1. CASE ReturnShuttingDown(s) \/ Poll(s) \/ EventsProcessed(s)
    BY <2>1 DEF ReturnShuttingDown, Running, Return, simVars, nodeVars, wireVars,
        threadVars, Poll, Goto, lockVars, EventsProcessed
  <2> QED BY <1>5, <2>1 DEF CommonNext
<1>6. ASSUME NEW s \in Simulator, ReadNext(s) PROVE FrameWaits'
  <2>1. CASE AcquireNode(s)
    BY <2>1 DEF AcquireNode, Running, Return, wireVars, threadVars, NodePointer
  <2>2. CASE ReadNothing(s) \/ ReadDisconnect(s) \/ ReadMapRequest(s) \/
      ReadNodeRequest(s) \/ NodeNotAvailable(s) \/ StartSimulation(s) \/ EmitCommand(s)
      \/ CommandDone(s) \/ SendPending(s)
    BY <2>2 DEF ReadNothing, Reading, Running, Return, simVars, nodeVars, wireVars,
        threadVars, ReadDisconnect, ReadMapRequest, Post, ReadNodeRequest, Goto,
        lockVars, NodeNotAvailable, StartSimulation, EmitCommand, CommandDone,
        PostSendPending, SendPending
  <2> QED BY <1>6, <2>1, <2>2 DEF ReadNext
<1>7. ASSUME NEW s \in Simulator, InstantiateNext(s) PROVE FrameWaits'
  <2>1. CASE InstantiateStale(s) \/ InstantiateBusy(s) \/ Refused(s) \/ CreateMap(s) \/
      MapCreated(s) \/ MapNotCreated(s) \/ JoinMap(s)
    BY <2>1 DEF InstantiateStale, Instantiating, Running, Return, nodeVars, wireVars,
        threadVars, InstantiateBusy, Post, simVars, Refused, Requesting, CreateMap,
        Wanted, Goto, MapCreated, MapNotCreated, JoinMap
  <2> QED BY <1>7, <2>1 DEF InstantiateNext
<1>8. ASSUME NEW s \in Simulator, QuitNext(s) PROVE FrameWaits'
  <2>1. CASE DeleteMap(s)
    BY <2>1 DEF DeleteMap, Requesting, Instantiating, Running, Wanted, Goto, simVars,
        nodeVars, threadVars
  <2>2. CASE QuitLock(s)
    BY <2>2 DEF QuitLock, Running, Wanted, Goto, simVars, nodeVars, threadVars
  <2>3. CASE QuitDone(s)
    BY <2>3 DEF QuitDone, Running, Wanted, Goto, simVars, nodeVars, threadVars
  <2>4. CASE MapDeleted(s)
    BY <2>4 DEF MapDeleted, Running, Wanted, Return, nodeVars
  <2>5. CASE \E t \in Simulator : AboutToFinishPanics(s, t)
    BY <2>5 DEF AboutToFinishPanics, Emitting, Running, Wanted, Notified, mainVars,
        simVars, lockVars, nodeVars, threadVars
  <2>6. CASE \E t \in Simulator : AboutToFinishNoNode(s, t)
    BY <2>6 DEF AboutToFinishNoNode, Emitting, Running, Wanted, Notified, mainVars,
        lockVars, nodeVars, threadVars
  <2>7. CASE \E t \in Simulator : AboutToFinish(s, t)
    BY <2>7 DEF AboutToFinish, Emitting, Running, Wanted, Notified, simVars, nodeVars,
        threadVars
  <2>8. CASE AboutReleased(s)
    BY <2>8 DEF AboutReleased, Running, FreeNode, Goto, simVars, lockVars, wireVars,
        threadVars, NodePointer
  <2>9. CASE AboutDone(s)
    BY <2>9 DEF AboutDone, Running, Return, nodeVars, wireVars, threadVars
  <2> QED BY <1>8, <2>1, <2>2, <2>3, <2>4, <2>5, <2>6, <2>7, <2>8, <2>9 DEF QuitNext
<1>9. ASSUME NEW s \in Simulator, FinalizeNext(s) PROVE FrameWaits'
  <2>1. CASE FinalizeNoNode(s) \/ FinalizeRelease(s) \/ FinalizeBusy(s) \/
      FinalizeLater(s) \/ FinalizeReleased(s) \/ FinalizeDone(s)
    BY <2>1 DEF FinalizeNoNode, Finalizing, Running, ShutDown, Post, Return, nodeVars,
        wireVars, threadVars, FinalizeRelease, Goto, FinalizeBusy, FinalizeLater,
        simVars, FinalizeReleased, FreeNode, FinalizeDone
  <2> QED BY <1>9, <2>1 DEF FinalizeNext
<1> QED BY <1>1, <1>2, <1>3, <1>4, <1>5, <1>6, <1>7, <1>8, <1>9
  DEF Next, SlotNext, Stopped

\* While the main thread waits, a spinning map thread finds the mutex or mayBlock free.
LEMMA SpinInvariant ==
  ASSUME IInv, FrameWaits
  PROVE  SpinnerCanEnter
<1> USE ConstantsAssumption DEF IInv
<1> SUFFICES ASSUME NEW m \in MapThread, mpc[m] \in {"tryMutex", "tryMayBlock"}, MainWaits,
                    simLock[Target(m)] = Main, mayBlock[Target(m)] = Main
             PROVE  FALSE
  BY DEF SpinnerCanEnter
<1> DEFINE s == Target(m)
<1>1. mnode[m] \in Node /\ ~available[mnode[m]] BY DEF Handling, FrameWaits
<1>2. s \in Simulator /\ Owns(s, mnode[m])
  BY <1>1 DEF TypeOK, MapTypes, NodeOwnedByOne, Target
<1>3. pc[s] \notin LentPlaces \cup {"idle"} BY <1>2 DEF MainHolds, OneSlotEach
<1>4. pc[s] \notin MapPlaces \cup {"acquireTry", "acquirePoll"}
  BY <1>1, <1>2 DEF NodePointer, Owns
<1>5. pc[s] \in Slots
  BY <1>2, <1>3, <1>4 DEF TypeOK, MainTypes, Places, MapPlaces, TryPlaces, PollPlaces,
      LentPlaces
<1>6. stack # <<>> /\ Head(stack) = s BY <1>2, <1>5, OnTop DEF Slots, PollPlaces
<1> QED BY <1>5, <1>6 DEF MainWaits, ProcessingEvents, Slots, PollPlaces

\* SpinnerCanEnter: while the main thread waits, frameReceived gets mutex or mayBlock.
THEOREM FramesEnter == Spec => []SpinnerCanEnter
<1>1. Init => FrameWaits BY DEF Init, FrameWaits
<1>2. IInv /\ FrameWaits /\ [Next]_vars => FrameWaits' BY FrameStep
<1>3. IInv /\ FrameWaits => SpinnerCanEnter BY SpinInvariant
<1> QED BY <1>1, <1>2, <1>3, Invariance, PTL DEF Spec

(***************************************************************************)
(* No message that a map thread leaves for a client is forgotten.          *)
(***************************************************************************)

\* The main thread, which waits for m, sends what is left to send when it goes on: unless
\* it waits for walk, which leaves no message.
Served ==
  \A m \in MapThread :
    /\ callFrom[m] # Nobody => (pc[callFrom[m]] = "walk" <=> callCmd[m] = "walk")
    /\ mpc[m] \in {"invalid", "changeLock", "observe"} => callCmd[m] # "walk"

MailInv == Served /\ NoMessageForgotten

\* Whatever leaves a message also sees to it that it is sent.
LEMMA MailStep ==
  ASSUME IInv, MailInv, [Next]_vars
  PROVE  MailInv'
<1> USE ConstantsAssumption DEF IInv, TypeOK, MainTypes, SimulatorTypes, ThreadTypes,
    OneSlotEach, Callers, MailInv, Served, NoMessageForgotten, Slots, TryPlaces, PollPlaces,
    LentPlaces, PollOf
<1>1. CASE UNCHANGED vars
  BY <1>1 DEF vars, mainVars, simVars, lockVars, nodeVars, wireVars, threadVars
<1>2. ASSUME NEW m \in MapThread, MapThreadNext(m) PROVE MailInv'
  <2>1. CASE SetUp(m)
    BY <2>1 DEF SetUp, MoveTo, mainVars, simVars, lockVars, nodeVars, wireVars
  <2>2. CASE \E n \in Node : FrameArrives(m, n)
    BY <2>2 DEF FrameArrives, MoveTo, mainVars, simVars, nodeVars, wireVars
  <2>3. CASE NotForSimulator(m)
    BY <2>3 DEF NotForSimulator, MoveTo, mainVars, simVars, nodeVars, wireVars
  <2>4. CASE EmitFrameReceived(m)
    BY <2>4 DEF EmitFrameReceived, MoveTo, mainVars, simVars, lockVars, nodeVars,
        wireVars
  <2>5. CASE TryMutex(m)
    BY <2>5 DEF TryMutex, Target, MoveTo, mainVars, simVars, nodeVars, wireVars
  <2>6. CASE TryMayBlock(m)
    BY <2>6 DEF TryMayBlock, Target, MoveTo, mainVars, simVars, nodeVars, wireVars
  <2>7. CASE Deliver(m)
    BY <2>7 DEF Deliver, Target, PostSendPending, MoveTo, mainVars, simVars, nodeVars,
        wireVars
  <2>8. CASE ServeSend(m)
    BY <2>8 DEF ServeSend, Reply, MoveTo, mainVars, simVars, lockVars, nodeVars,
        wireVars
  <2>9. CASE ServeInvalid(m)
    BY <2>9 DEF ServeInvalid, MoveTo, mainVars, simVars, lockVars, nodeVars, wireVars
  <2>10. CASE NotifyInvalid(m)
    BY <2>10 DEF NotifyInvalid, Reply, MoveTo, mainVars, simVars, lockVars, nodeVars,
        wireVars
  <2>11. CASE ServeChange(m)
    BY <2>11 DEF ServeChange, MoveTo, mainVars, simVars, lockVars, nodeVars, wireVars
  <2>12. CASE LockMapChanges(m)
    BY <2>12 DEF LockMapChanges, MoveTo, mainVars, simVars, nodeVars
  <2>13. CASE ChangeDone(m)
    BY <2>13 DEF ChangeDone, Reply, MoveTo, mainVars, simVars, nodeVars, wireVars
  <2>14. CASE LeaveLoop(m)
    BY <2>14 DEF LeaveLoop, MoveTo, mainVars, simVars, lockVars, nodeVars, wireVars
  <2>15. CASE \E o \in Simulator : NotifyObserver(m, o)
    BY <2>15 DEF NotifyObserver, mainVars, simVars, lockVars, nodeVars, threadVars
  <2> QED BY <1>2, <2>1, <2>2, <2>3, <2>4, <2>5, <2>6, <2>7, <2>8, <2>9, <2>10, <2>11,
      <2>12, <2>13, <2>14, <2>15 DEF MapThreadNext
<1>3. ASSUME NEW s \in Simulator, ClientNext(s) PROVE MailInv'
  <2>1. CASE DataArrives(s)
    BY <2>1 DEF DataArrives, Enter, ProcessingEvents, simVars, nodeVars, wireVars,
        threadVars
  <2>2. CASE SocketCloses(s)
    BY <2>2 DEF SocketCloses, Post, mainVars, lockVars, nodeVars, wireVars, threadVars
  <2> QED BY <1>3, <2>1, <2>2 DEF ClientNext
<1>4. ASSUME NEW s \in Simulator, EventNext(s) PROVE MailInv'
  <2>1. CASE \E slot \in Slots : PostedSlot(s, slot)
    BY <2>1 DEF PostedSlot, Enter, ProcessingEvents, simVars, nodeVars, wireVars,
        threadVars
  <2>2. CASE Run(s)
    BY <2>2 DEF Run, mainVars, lockVars, nodeVars, wireVars, threadVars
  <2>3. CASE DropFinalize(s)
    BY <2>3 DEF DropFinalize, mainVars, simVars, lockVars, nodeVars, wireVars, threadVars
  <2>4. CASE Delete(s)
    BY <2>4 DEF Delete, mainVars, nodeVars, threadVars
  <2> QED BY <1>4, <2>1, <2>2, <2>3, <2>4 DEF EventNext
<1>5. ASSUME NEW s \in Simulator, CommonNext(s) PROVE MailInv'
  <2>1. CASE ReturnShuttingDown(s)
    BY <2>1 DEF ReturnShuttingDown, Running, Return, simVars, nodeVars, wireVars,
        threadVars
  <2>2. CASE Poll(s)
    BY <2>2 DEF Poll, Running, Goto, simVars, lockVars, nodeVars, wireVars, threadVars
  <2>3. CASE EventsProcessed(s)
    BY <2>3 DEF EventsProcessed, Running, Goto, simVars, lockVars, nodeVars, wireVars,
        threadVars
  <2> QED BY <1>5, <2>1, <2>2, <2>3 DEF CommonNext
<1>6. ASSUME NEW s \in Simulator, ReadNext(s) PROVE MailInv'
  <2>1. CASE ReadNothing(s)
    BY <2>1 DEF ReadNothing, Reading, Running, Return, simVars, nodeVars, wireVars,
        threadVars
  <2>2. CASE ReadDisconnect(s)
    BY <2>2 DEF ReadDisconnect, Reading, Running, Return, nodeVars, wireVars, threadVars
  <2>3. CASE ReadMapRequest(s)
    BY <2>3 DEF ReadMapRequest, Reading, Running, Post, Return, nodeVars, wireVars,
        threadVars
  <2>4. CASE ReadNodeRequest(s)
    BY <2>4 DEF ReadNodeRequest, Reading, Running, Goto, lockVars, nodeVars, wireVars,
        threadVars
  <2>5. CASE AcquireNode(s)
    BY <2>5 DEF AcquireNode, Running, Return, wireVars, threadVars
  <2>6. CASE NodeNotAvailable(s)
    BY <2>6 DEF NodeNotAvailable, Running, Return, nodeVars, wireVars, threadVars
  <2>7. CASE StartSimulation(s)
    BY <2>7 DEF StartSimulation, Reading, Running, Return, nodeVars, wireVars,
        threadVars
  <2>8. CASE EmitCommand(s)
    <3>1. node[s] \in Node /\ pc[s] = "readData"
      BY <2>8 DEF EmitCommand, Reading, NodePointer
    <3>2. \A m \in MapThread : callFrom[m] = Nobody
      <4> SUFFICES ASSUME NEW m \in MapThread, callFrom[m] # Nobody PROVE FALSE
        OBVIOUS
      <4>1. callFrom[m] \in Simulator /\ pc[callFrom[m]] \in {"emit", "walk"} OBVIOUS
      <4>2. pc[s] \in PollPlaces \cup {"quitEmit", "idle", "emit", "walk"} BY <4>1, CallerRuns
      <4> QED BY <3>1, <4>2
    <3>3. PICK c \in Commands :
            /\ callCmd' = [callCmd EXCEPT ![hostOf[node[s]]] = c]
            /\ Goto(s, IF c = "walk" THEN "walk" ELSE "emit")
      BY <2>8 DEF EmitCommand
    <3>4. hostOf[node[s]] \in MapThread /\ c \in AllCommands BY <3>1
    <3>5. /\ callFrom' = [callFrom EXCEPT ![hostOf[node[s]]] = s]
          /\ UNCHANGED <<posted, pending, alive, shuttingDown, mpc>>
      BY <2>8 DEF EmitCommand, simVars
    <3>6. Served' BY <3>1, <3>2, <3>3, <3>4, <3>5 DEF Goto
    <3>7. NoMessageForgotten' BY <3>1, <3>3, <3>5 DEF Goto
    <3> QED BY <3>6, <3>7
  <2>9. CASE CommandDone(s)
    BY <2>9 DEF CommandDone, Running, PostSendPending, Return, simVars, nodeVars,
        wireVars, threadVars
  <2>10. CASE SendPending(s)
    BY <2>10 DEF SendPending, Running, Return, simVars, nodeVars, wireVars, threadVars
  <2> QED BY <1>6, <2>1, <2>2, <2>3, <2>4, <2>5, <2>6, <2>7, <2>8, <2>9, <2>10 DEF ReadNext
<1>7. ASSUME NEW s \in Simulator, InstantiateNext(s) PROVE MailInv'
  <2>1. CASE InstantiateStale(s)
    BY <2>1 DEF InstantiateStale, Instantiating, Running, Return, nodeVars, wireVars,
        threadVars
  <2>2. CASE InstantiateBusy(s)
    BY <2>2 DEF InstantiateBusy, Instantiating, Running, Post, Return, simVars,
        nodeVars, wireVars, threadVars
  <2>3. CASE Refused(s)
    BY <2>3 DEF Refused, Requesting, Instantiating, Running, Return, nodeVars, wireVars,
        threadVars
  <2>4. CASE CreateMap(s)
    BY <2>4 DEF CreateMap, Requesting, Instantiating, Running, Wanted, Goto, simVars,
        nodeVars, wireVars
  <2>5. CASE MapCreated(s)
    BY <2>5 DEF MapCreated, Running, Wanted, Return, nodeVars, threadVars
  <2>6. CASE MapNotCreated(s)
    BY <2>6 DEF MapNotCreated, Running, Wanted, Return, nodeVars, wireVars
  <2>7. CASE JoinMap(s)
    BY <2>7 DEF JoinMap, Requesting, Instantiating, Running, Wanted, Return, nodeVars,
        threadVars
  <2> QED BY <1>7, <2>1, <2>2, <2>3, <2>4, <2>5, <2>6, <2>7 DEF InstantiateNext
<1>8. ASSUME NEW s \in Simulator, QuitNext(s) PROVE MailInv'
  <2>1. CASE DeleteMap(s)
    BY <2>1 DEF DeleteMap, Requesting, Instantiating, Running, Wanted, Goto, simVars,
        nodeVars, threadVars
  <2>2. CASE QuitLock(s)
    BY <2>2 DEF QuitLock, Running, Wanted, Goto, simVars, nodeVars, threadVars
  <2>3. CASE QuitDone(s)
    BY <2>3 DEF QuitDone, Running, Wanted, Goto, simVars, nodeVars, threadVars
  <2>4. CASE MapDeleted(s)
    BY <2>4 DEF MapDeleted, Running, Wanted, Return, nodeVars
  <2>5. CASE \E t \in Simulator : AboutToFinish(s, t)
    BY <2>5 DEF AboutToFinish, Emitting, Running, Wanted, Notified, simVars, nodeVars,
        threadVars
  <2>6. CASE AboutReleased(s)
    BY <2>6 DEF AboutReleased, Running, FreeNode, Goto, simVars, lockVars, wireVars,
        threadVars
  <2>7. CASE AboutDone(s)
    BY <2>7 DEF AboutDone, Running, Return, nodeVars, wireVars, threadVars
  <2>8. CASE (\E t \in Simulator : AboutToFinishPanics(s, t)) \/ (\E t \in Simulator :
            AboutToFinishNoNode(s, t))
    BY <2>8 DEF AboutToFinishPanics, Notified, mainVars, simVars, lockVars, nodeVars,
        threadVars, AboutToFinishNoNode
  <2> QED BY <1>8, <2>1, <2>2, <2>3, <2>4, <2>5, <2>6, <2>7, <2>8 DEF QuitNext
<1>9. ASSUME NEW s \in Simulator, FinalizeNext(s) PROVE MailInv'
  <2>1. CASE FinalizeNoNode(s)
    BY <2>1 DEF FinalizeNoNode, Finalizing, Running, ShutDown, Post, Return, nodeVars,
        wireVars, threadVars
  <2>2. CASE FinalizeRelease(s)
    BY <2>2 DEF FinalizeRelease, Finalizing, Running, ShutDown, Goto, nodeVars,
        wireVars, threadVars
  <2>3. CASE FinalizeBusy(s)
    BY <2>3 DEF FinalizeBusy, Finalizing, Running, ShutDown, Goto, nodeVars, wireVars,
        threadVars
  <2>4. CASE FinalizeLater(s)
    BY <2>4 DEF FinalizeLater, Running, Post, Return, simVars, nodeVars, threadVars
  <2>5. CASE FinalizeReleased(s)
    BY <2>5 DEF FinalizeReleased, Running, FreeNode, Goto, simVars, wireVars, threadVars
  <2>6. CASE FinalizeDone(s)
    BY <2>6 DEF FinalizeDone, Running, Post, Return, nodeVars, wireVars, threadVars
  <2> QED BY <1>9, <2>1, <2>2, <2>3, <2>4, <2>5, <2>6 DEF FinalizeNext
<1> QED BY <1>1, <1>2, <1>3, <1>4, <1>5, <1>6, <1>7, <1>8, <1>9
  DEF Next, SlotNext, CommonNext, Stopped

\* NoMessageForgotten: a message that a map thread leaves for a client is sent later, by a
\* call that is queued or by the simulator that the main thread waits in.
THEOREM MessagesSent == Spec => []NoMessageForgotten
<1>1. Init => MailInv
  BY ConstantsAssumption DEF Init, MailInv, Served, NoMessageForgotten
<1>2. IInv /\ MailInv /\ [Next]_vars => MailInv' BY MailStep
<1>3. MailInv => NoMessageForgotten BY DEF MailInv
<1> QED BY <1>1, <1>2, <1>3, Invariance, PTL DEF Spec

(***************************************************************************)
(* ServerCore implements NodeLease.                                        *)
(***************************************************************************)

leaseVars == <<receiver, Watching, pending>>

\* A step of the server as the abstract specification sees it.
LeaseStep == [Lease!Next]_leaseVars

\* A simulator that leaves the dialogue stops watching, if it watched.
LEMMA Disconnects ==
  ASSUME TypeOK, NEW s \in Simulator, comm' = [comm EXCEPT ![s] = "Disconnected"],
         UNCHANGED <<receiver, pending>>
  PROVE  LeaseStep
<1> USE DEF TypeOK, SimulatorTypes
<1>1. CASE comm[s] = "ObservingChangeEvents"
  <2>1. s \in Watching BY <1>1 DEF Watching
  <2>2. Watching' = Watching \ {s} BY <1>1 DEF Watching
  <2>3. Lease!StopWatching(s) BY <2>1, <2>2 DEF Lease!StopWatching
  <2> QED BY <2>3 DEF LeaseStep, Lease!Next
<1>2. CASE comm[s] # "ObservingChangeEvents"
  <2>1. Watching' = Watching BY <1>2 DEF Watching
  <2> QED BY <2>1 DEF LeaseStep, leaseVars
<1> QED BY <1>1, <1>2

\* The other steps of the dialogue concern no watching client.
LEMMA MovesOn ==
  ASSUME TypeOK, NEW s \in Simulator, NEW c, comm' = [comm EXCEPT ![s] = c],
         comm[s] # "ObservingChangeEvents", c # "ObservingChangeEvents",
         UNCHANGED <<receiver, pending>>
  PROVE  LeaseStep
<1>1. Watching' = Watching BY DEF Watching, TypeOK, SimulatorTypes
<1> QED BY <1>1 DEF LeaseStep, leaseVars

\* Nothing happens to nodes, watching clients and messages.
LEMMA Stutters ==
  ASSUME UNCHANGED <<receiver, comm, pending>>
  PROVE  LeaseStep
<1>1. Watching' = Watching BY DEF Watching
<1> QED BY <1>1 DEF LeaseStep, leaseVars

\* A message is queued for a client that has a node or watches a map.
LEMMA Writes ==
  ASSUME NEW s \in Simulator, (\E n \in Node : receiver[n] = s) \/ s \in Watching,
         pending' = [pending EXCEPT ![s] = TRUE], UNCHANGED <<receiver, comm>>
  PROVE  LeaseStep
<1>1. Watching' = Watching BY DEF Watching
<1>2. Lease!Write(s) BY <1>1 DEF Lease!Write, Lease!Leases
<1> QED BY <1>2 DEF LeaseStep, Lease!Next

\* The owner of a node gives it back.
LEMMA Gives ==
  ASSUME TypeOK, NEW n \in Node, receiver[n] # Nobody, FreeNode(n),
         UNCHANGED <<comm, pending>>
  PROVE  LeaseStep
<1>1. Watching' = Watching BY DEF Watching
<1>2. Lease!Give(n) BY <1>1 DEF Lease!Give, FreeNode
<1> QED BY <1>2 DEF LeaseStep, Lease!Next

\* Every step of the server is a step of the leases or leaves them alone.
LEMMA ServerStep ==
  ASSUME IInv, [Next]_vars
  PROVE  LeaseStep
<1> USE DEF IInv, TypeOK
<1>1. CASE UNCHANGED vars
  BY <1>1, Stutters DEF vars, mainVars, simVars, lockVars, nodeVars, wireVars,
      threadVars
<1>2. ASSUME NEW m \in MapThread, MapThreadNext(m) PROVE LeaseStep
  <2>1. CASE Deliver(m)
    <3>1. CASE pending' = pending BY <2>1, <3>1, Stutters DEF Deliver, simVars, nodeVars
    <3>2. CASE pending' # pending
      <4>1. pending' = [pending EXCEPT ![Target(m)] = TRUE] BY <2>1, <3>2 DEF Deliver
      <4>2. mnode[m] \in Node BY <2>1 DEF Deliver, Handling
      <4>3. Target(m) \in Simulator
        BY <2>1, <3>2, <4>1, <4>2 DEF Target, SimulatorTypes, MapTypes
      <4> QED BY <2>1, <4>1, <4>2, <4>3, Writes DEF Deliver, Target, simVars, nodeVars
    <3> QED BY <3>1, <3>2
  <2>2. CASE NotifyInvalid(m)
    <3>1. callFrom[m] \in Simulator /\ pc[callFrom[m]] \in {"emit", "walk"}
      BY <2>2 DEF NotifyInvalid, Callers, ThreadTypes
    <3>2. node[callFrom[m]] \in Node
      BY <3>1 DEF NodePointer, LentPlaces, SimulatorTypes
    <3>3. receiver[node[callFrom[m]]] = callFrom[m]
      BY <3>1, <3>2 DEF NodeOwnedByOne, Owns
    <3>4. CASE pending' = pending
      BY <2>2, <3>4, Stutters DEF NotifyInvalid, simVars, nodeVars
    <3>5. CASE pending' # pending
      <4>1. pending' = [pending EXCEPT ![callFrom[m]] = TRUE]
        BY <2>2, <3>5 DEF NotifyInvalid
      <4> QED BY <2>2, <3>1, <3>2, <3>3, <4>1, Writes DEF NotifyInvalid, simVars, nodeVars
    <3> QED BY <3>4, <3>5
  <2>3. CASE \E o \in Simulator : NotifyObserver(m, o)
    <3>1. PICK o \in Simulator : NotifyObserver(m, o) BY <2>3
    <3>2. CASE pending' = pending
      BY <3>1, <3>2, Stutters DEF NotifyObserver, simVars, nodeVars
    <3>3. CASE pending' # pending
      <4>1. comm[o] = "ObservingChangeEvents" /\ pending' = [pending EXCEPT ![o] = TRUE]
        BY <3>1, <3>3 DEF NotifyObserver
      <4> QED BY <3>1, <4>1, Writes DEF NotifyObserver, Watching, simVars, nodeVars
    <3> QED BY <3>2, <3>3
  <2>4. CASE SetUp(m) \/ (\E n \in Node : FrameArrives(m, n)) \/ NotForSimulator(m) \/
            EmitFrameReceived(m) \/ TryMutex(m) \/ TryMayBlock(m) \/ ServeSend(m) \/
            ServeInvalid(m) \/ ServeChange(m) \/ LockMapChanges(m) \/ ChangeDone(m) \/
            LeaveLoop(m)
    BY <2>4, Stutters DEF SetUp, MoveTo, mainVars, simVars, lockVars, nodeVars,
        wireVars, FrameArrives, NotForSimulator, EmitFrameReceived, TryMutex,
        TryMayBlock, ServeSend, Reply, ServeInvalid, ServeChange, LockMapChanges,
        ChangeDone, LeaveLoop
  <2> QED BY <1>2, <2>1, <2>2, <2>3, <2>4 DEF MapThreadNext
<1>3. ASSUME NEW s \in Simulator, ClientNext(s) PROVE LeaseStep
  BY <1>3, ClientFrame, Stutters
<1>4. ASSUME NEW s \in Simulator, EventNext(s) PROVE LeaseStep
  <2>1. CASE Run(s)
    <3>1. comm[s] # "ObservingChangeEvents" BY <2>1 DEF Run, NotStarted
    <3> QED BY <2>1, <3>1, MovesOn DEF Run, nodeVars
  <2>2. CASE DropFinalize(s) \/ Delete(s) \/ (\E slot \in Slots : PostedSlot(s, slot))
    BY <2>2, Stutters DEF DropFinalize, mainVars, simVars, lockVars, nodeVars, wireVars,
        threadVars, Delete, PostedSlot, Enter
  <2> QED BY <1>4, <2>1, <2>2 DEF EventNext
<1>5. ASSUME NEW s \in Simulator, CommonNext(s) PROVE LeaseStep
  BY <1>5, CommonFrame, Stutters
<1>6. ASSUME NEW s \in Simulator, ReadNext(s) PROVE LeaseStep
  <2>1. CASE ReadDisconnect(s)
    BY <2>1, Disconnects DEF ReadDisconnect, nodeVars
  <2>2. CASE ReadMapRequest(s)
    BY <2>2, MovesOn DEF ReadMapRequest, nodeVars
  <2>3. CASE AcquireNode(s)
    <3>1. node[s] \in Node /\ comm[s] = "MapSelected"
      BY <2>3 DEF AcquireNode, NodePointer, SimulatorTypes
    <3>2. receiver[node[s]] = Nobody BY <2>3, <3>1 DEF AcquireNode, NodeOwnedByOne
    <3>3. ~Lease!Leases(s)
      BY <2>3 DEF AcquireNode, NodeOwnedByOne, Owns, Lease!Leases
    <3>4. Watching' = Watching /\ s \notin Watching
      BY <2>3, <3>1 DEF AcquireNode, Watching, SimulatorTypes
    <3>5. Lease!Take(s, node[s])
      BY <2>3, <3>2, <3>3, <3>4 DEF AcquireNode, Lease!Take
    <3> QED BY <3>1, <3>5 DEF LeaseStep, Lease!Next
  <2>4. CASE NodeNotAvailable(s)
    BY <2>4, Disconnects DEF NodeNotAvailable, nodeVars
  <2>5. CASE StartSimulation(s)
    BY <2>5, MovesOn DEF StartSimulation, nodeVars
  <2>6. CASE SendPending(s)
    <3>1. Watching' = Watching BY <2>6 DEF SendPending, Watching, simVars
    <3>2. Lease!Collect(s) BY <2>6, <3>1 DEF SendPending, Lease!Collect, nodeVars
    <3> QED BY <3>2 DEF LeaseStep, Lease!Next
  <2>7. CASE ReadNothing(s) \/ ReadNodeRequest(s) \/ EmitCommand(s) \/ CommandDone(s)
    BY <2>7, Stutters DEF ReadNothing, Return, simVars, nodeVars, wireVars, threadVars,
        ReadNodeRequest, Goto, lockVars, EmitCommand, CommandDone, PostSendPending
  <2> QED BY <1>6, <2>1, <2>2, <2>3, <2>4, <2>5, <2>6, <2>7 DEF ReadNext
<1>7. ASSUME NEW s \in Simulator, InstantiateNext(s) PROVE LeaseStep
  <2>1. CASE InstantiateStale(s)
    BY <2>1, Disconnects DEF InstantiateStale, nodeVars
  <2>2. CASE Refused(s)
    BY <2>2, Disconnects DEF Refused, nodeVars
  <2>3. CASE MapCreated(s)
    <3>1. comm[s] # "ObservingChangeEvents"
      BY <2>3 DEF MapCreated, NodePointer, MapPlaces
    <3> QED BY <2>3, <3>1, MovesOn DEF MapCreated, nodeVars
  <2>4. CASE MapNotCreated(s)
    BY <2>4, Disconnects DEF MapNotCreated, nodeVars
  <2>5. CASE JoinMap(s)
    <3>1. CASE request[s].kind = "connect"
      <4>1. comm[s] # "ObservingChangeEvents" /\ comm' = [comm EXCEPT ![s] = "MapSelected"]
        BY <2>5, <3>1 DEF JoinMap, Requesting
      <4> QED BY <2>5, <4>1, MovesOn DEF JoinMap, nodeVars
    <3>2. CASE request[s].kind # "connect"
      <4>1. /\ comm[s] = "InstantiatingOrRetrievingMap" /\ pc[s] = "instantiate"
            /\ comm' = [comm EXCEPT ![s] = "ObservingChangeEvents"]
        BY <2>5, <3>2 DEF JoinMap, Requesting, Instantiating
      <4>2. node[s] = Nobody BY <4>1 DEF NodePointer
      <4>3. ~Lease!Leases(s)
        BY <4>2, ConstantsAssumption DEF NodeOwnedByOne, Owns, Lease!Leases
      <4>4. s \notin Watching /\ Watching' = Watching \cup {s}
        BY <4>1 DEF Watching, SimulatorTypes
      <4>5. Lease!Watch(s) BY <2>5, <4>3, <4>4 DEF JoinMap, Lease!Watch, nodeVars
      <4> QED BY <4>5 DEF LeaseStep, Lease!Next
    <3> QED BY <3>1, <3>2
  <2>6. CASE InstantiateBusy(s) \/ CreateMap(s)
    BY <2>6, Stutters DEF InstantiateBusy, Post, Return, simVars, nodeVars, wireVars,
        threadVars, CreateMap, Goto
  <2> QED BY <1>7, <2>1, <2>2, <2>3, <2>4, <2>5, <2>6 DEF InstantiateNext
<1>8. ASSUME NEW s \in Simulator, QuitNext(s) PROVE LeaseStep
  <2>1. CASE MapDeleted(s)
    BY <2>1, Disconnects DEF MapDeleted, nodeVars
  <2>2. CASE \E t \in Simulator : AboutToFinishNoNode(s, t)
    BY <2>2, Disconnects DEF AboutToFinishNoNode, nodeVars
  <2>3. CASE AboutReleased(s)
    <3>1. node[s] \in Node /\ receiver[node[s]] = s
      BY <2>3 DEF AboutReleased, NodePointer, NodeOwnedByOne, Owns, LentPlaces, SimulatorTypes
    <3> QED BY <2>3, <3>1, Gives, ConstantsAssumption DEF AboutReleased, simVars
  <2>4. CASE AboutDone(s)
    BY <2>4, Disconnects DEF AboutDone, nodeVars
  <2>5. CASE DeleteMap(s) \/ QuitLock(s) \/ QuitDone(s) \/ (\E t \in Simulator :
            AboutToFinishPanics(s, t)) \/ (\E t \in Simulator : AboutToFinish(s, t))
    BY <2>5, Stutters DEF DeleteMap, Goto, simVars, nodeVars, threadVars, QuitLock,
        QuitDone, AboutToFinishPanics, Notified, mainVars, lockVars, AboutToFinish
  <2> QED BY <1>8, <2>1, <2>2, <2>3, <2>4, <2>5 DEF QuitNext
<1>9. ASSUME NEW s \in Simulator, FinalizeNext(s) PROVE LeaseStep
  <2>1. CASE FinalizeReleased(s)
    <3>1. node[s] \in Node /\ receiver[node[s]] = s
      BY <2>1 DEF FinalizeReleased, NodePointer, NodeOwnedByOne, Owns, LentPlaces,
                  SimulatorTypes
    <3> QED BY <2>1, <3>1, Gives, ConstantsAssumption DEF FinalizeReleased, simVars
  <2>2. CASE FinalizeNoNode(s) \/ FinalizeRelease(s) \/ FinalizeBusy(s) \/
            FinalizeLater(s) \/ FinalizeDone(s)
    BY <2>2, Stutters DEF FinalizeNoNode, ShutDown, Post, Return, nodeVars, wireVars,
        threadVars, FinalizeRelease, Goto, FinalizeBusy, FinalizeLater, simVars,
        FinalizeDone
  <2> QED BY <1>9, <2>1, <2>2 DEF FinalizeNext
<1> QED BY <1>1, <1>2, <1>3, <1>4, <1>5, <1>6, <1>7, <1>8, <1>9
  DEF Next, SlotNext, CommonNext, Stopped

\* ImplementsLease: the server, seen through the receivers of frameReceived, the
\* observing clients and pendingMessage, is an implementation of NodeLease.
THEOREM LeasesImplemented == Spec => ImplementsLease
<1>1. Init => Lease!Init
  BY DEF Init, Lease!Init, Watching
<1>2. IInv /\ [Next]_vars => [Lease!Next]_<<receiver, Watching, pending>>
  BY ServerStep DEF LeaseStep, leaseVars
<1> QED BY <1>1, <1>2, Invariance, PTL DEF Spec, ImplementsLease, Lease!Spec
=============================================================================
