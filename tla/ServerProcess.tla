--------------------------- MODULE ServerProcess ---------------------------
(***************************************************************************)
(* The life of the server process (main.cpp): the parts that it makes one  *)
(* after the other, any of which may fail, the time it serves, and the     *)
(* order in which it takes the parts down.  Handles on network adapters    *)
(* belong to several parts; the driver, which counts them, is deleted only *)
(* when all were given back (emulation/EthernetDirectAccessDriver).        *)
(***************************************************************************)
EXTENDS Integers, SequencesExt, FiniteSets

CONSTANTS
  Configurations,  \* what config.ini and the machine may be, as ConfigurationType says
  MaxInterrupts    \* bound: interrupt signals

\* The parts in the order of main, and in the order in which they are deleted: the maps of
\* users and the routers map within MapFactory::destroy.
StartOrder ==
  <<"database", "frames", "plugins", "driver", "transceivers", "loggers", "maps", "routers",
    "signals", "server">>

\* Fault: the loggers are deleted after the driver.
LoggersLate ==
  <<"server", "signals", "user maps", "routers", "maps", "transceivers", "driver", "loggers",
    "plugins", "frames", "database">>

StopOrder ==
  <<"server", "signals", "user maps", "routers", "maps", "loggers", "transceivers", "driver",
    "plugins", "frames", "database">>

\* adapters: what is configured; failing: the parts that cannot be made; listens: whether
\* the port is right and free; timeout: whether the server ends by itself.
ConfigurationType ==
  [adapters : Seq({"good", "no address", "no device"}), failing : SUBSET Range(StartOrder),
   listens : BOOLEAN, timeout : BOOLEAN]

ASSUME ConfigurationAssumption ==
  \A c \in Configurations :
    c \in ConfigurationType /\ c.failing \cap {"frames", "plugins", "server"} = {}

VARIABLES
  config,
  process,     \* "starting", "serving", "stopping", "ended", or "failed"
  made,        \* how many parts of the order at hand have been made, or deleted
  alive,       \* the parts that exist
  adapters,    \* the adapters of the driver, in the order of the file
  relays,      \* those whose relay runs, with a second handle
  handles,     \* handlesCount of the driver
  listening,   \* the server has its port
  interrupts,  \* bytes in the socket pair of the SignalHandler
  interrupted  \* signals so far

processVars ==
  <<config, process, made, alive, adapters, relays, handles, listening, interrupts, interrupted>>

ProcessStarts(c) ==
  /\ config = c /\ process = "starting" /\ made = 0 /\ alive = {}
  /\ adapters = <<>> /\ relays = {} /\ handles = 0
  /\ listening = FALSE /\ interrupts = 0 /\ interrupted = 0

ProcessInit == \E c \in Configurations : ProcessStarts(c)

\* The part that is next in the order at hand
NextPart(order, part) == made < Len(order) /\ order[made + 1] = part
Making(part) == process = "starting" /\ NextPart(StartOrder, part)
Deleting(part) == process = "stopping" /\ NextPart(StopOrder, part)

\* main returns, with what was made until then.
PartFailed == process' = "failed" /\ UNCHANGED made

PartMade(part) ==
  /\ made' = made + 1 /\ alive' = alive \cup {part}
  /\ process' = IF part = "server" THEN "serving" ELSE process

\* A part whose init only succeeds or fails
Make(part) ==
  /\ Making(part)
  /\ IF part \in config.failing THEN PartFailed /\ UNCHANGED alive ELSE PartMade(part)
  /\ UNCHANGED <<config, adapters, relays, handles, listening, interrupts, interrupted>>

MakeDatabase == Make("database")
MakeFrames == Make("frames")
MakePlugins == Make("plugins")
MakeTransceivers == Make("transceivers")
MakeMaps == Make("maps")
MakeSignals == Make("signals")
MakeServer == Make("server")

\* open and close of the driver
HandleOpened == handles' = handles + 1
HandlesClosed(n) == handles' = handles - n

\* PacketLoggerFactory opens an adapter to describe the files that it writes.
MakeLoggers ==
  /\ Making("loggers")
  /\ IF "loggers" \in config.failing THEN PartFailed /\ UNCHANGED <<alive, handles>>
     ELSE PartMade("loggers") /\ HandleOpened
  /\ UNCHANGED <<config, adapters, relays, listening, interrupts, interrupted>>

\* postInit begins; a timeout that is no number deletes the driver.
StartDriver ==
  /\ Making("driver") /\ "driver" \notin alive
  /\ IF "driver" \in config.failing THEN PartFailed /\ UNCHANGED alive
     ELSE alive' = alive \cup {"driver"} /\ UNCHANGED <<process, made>>
  /\ UNCHANGED <<config, adapters, relays, handles, listening, interrupts, interrupted>>

\* One adapter of the file.  A bad address deletes the driver and its adapters; the
\* exception of a device that cannot be opened leaves them.
AddAdapter ==
  /\ Making("driver") /\ "driver" \in alive /\ Len(adapters) < Len(config.adapters)
  /\ LET found == config.adapters[Len(adapters) + 1]
     IN \/ /\ found = "good"
           /\ adapters' = Append(adapters, Len(adapters) + 1) /\ HandleOpened
           /\ UNCHANGED <<process, made, alive>>
        \/ /\ found = "no address" /\ PartFailed
           /\ adapters' = <<>> /\ HandlesClosed(Len(adapters)) /\ alive' = alive \ {"driver"}
        \/ found = "no device" /\ PartFailed /\ UNCHANGED <<adapters, handles, alive>>
  /\ UNCHANGED <<config, relays, listening, interrupts, interrupted>>

DriverMade ==
  /\ Making("driver") /\ "driver" \in alive /\ Len(adapters) = Len(config.adapters)
  /\ PartMade("driver")
  /\ UNCHANGED <<config, adapters, relays, handles, listening, interrupts, interrupted>>

\* getAdapterRelay, for an interface of the routers map: the thread is started at once.
StartRelay ==
  /\ Making("routers") /\ \E a \in Range(adapters) \ relays : relays' = relays \cup {a}
  /\ HandleOpened
  /\ UNCHANGED <<config, process, made, alive, adapters, listening, interrupts, interrupted>>

\* The routers map has been read, or its thread has ended; the relays stay.
RoutersRead ==
  /\ Making("routers")
  /\ IF "routers" \in config.failing THEN PartFailed /\ UNCHANGED alive ELSE PartMade("routers")
  /\ UNCHANGED <<config, adapters, relays, handles, listening, interrupts, interrupted>>
-----------------------------------------------------------------------------
\* The event loop has been left.
LoopLeft == process' = "stopping" /\ made' = 0

ListenForConnections ==
  /\ process = "serving" /\ ~listening
  /\ IF config.listens THEN listening' = TRUE /\ UNCHANGED <<process, made>>
     ELSE LoopLeft /\ UNCHANGED listening
  /\ UNCHANGED <<config, alive, adapters, relays, handles, interrupts, interrupted>>

\* A user makes a map.
UserMap ==
  /\ process = "serving" /\ listening /\ alive' = alive \cup {"user maps"}
  /\ UNCHANGED <<config, process, made, adapters, relays, handles, listening, interrupts, interrupted>>

TimedOut ==
  /\ process = "serving" /\ listening /\ config.timeout /\ LoopLeft
  /\ UNCHANGED <<config, alive, adapters, relays, handles, listening, interrupts, interrupted>>

\* The handler of the signal writes a byte, from its installation on; its sockets are never
\* closed.  Before that the signal ends the process.
Interrupt ==
  /\ interrupted < MaxInterrupts /\ interrupted' = interrupted + 1
  /\ process \in {"starting", "serving", "stopping"}
  /\ IF process # "starting" \/ "signals" \in alive
     THEN interrupts' = interrupts + 1 /\ UNCHANGED process
     ELSE process' = "failed" /\ UNCHANGED interrupts
  /\ UNCHANGED <<config, made, alive, adapters, relays, handles, listening>>

HandleInterruptSignal ==
  /\ process = "serving" /\ interrupts > 0 /\ interrupts' = interrupts - 1
  /\ LoopLeft
  /\ UNCHANGED <<config, alive, adapters, relays, handles, listening, interrupted>>
-----------------------------------------------------------------------------
PartDeleted(part) ==
  /\ made' = made + 1 /\ alive' = alive \ {part}
  /\ process' = IF made + 1 = Len(StopOrder) THEN "ended" ELSE process

DeletePart ==
  /\ \E part \in Range(StopOrder) \ {"driver", "loggers"} : Deleting(part) /\ PartDeleted(part)
  /\ UNCHANGED <<config, adapters, relays, handles, listening, interrupts, interrupted>>

DeleteLoggers ==
  /\ Deleting("loggers") /\ PartDeleted("loggers") /\ HandlesClosed(1)
  /\ UNCHANGED <<config, adapters, relays, listening, interrupts, interrupted>>

\* ~NetworkAdapterInfo: the relay, if it runs, is waited for and closes two handles.
DeleteAdapter ==
  /\ Deleting("driver") /\ adapters # <<>>
  /\ adapters' = Tail(adapters) /\ relays' = relays \ {Head(adapters)}
  /\ HandlesClosed(IF Head(adapters) \in relays THEN 2 ELSE 1)
  /\ UNCHANGED <<config, process, made, alive, listening, interrupts, interrupted>>

\* destroy waits for the last handle.
DestroyDriver ==
  /\ Deleting("driver") /\ adapters = <<>> /\ handles = 0 /\ PartDeleted("driver")
  /\ UNCHANGED <<config, adapters, relays, handles, listening, interrupts, interrupted>>

ServerNext ==
  \/ MakeDatabase \/ MakeFrames \/ MakePlugins \/ StartDriver \/ AddAdapter \/ DriverMade
  \/ MakeTransceivers \/ MakeLoggers \/ MakeMaps \/ StartRelay \/ RoutersRead
  \/ MakeSignals \/ MakeServer
  \/ ListenForConnections \/ UserMap \/ TimedOut \/ Interrupt \/ HandleInterruptSignal
  \/ DeletePart \/ DeleteLoggers \/ DeleteAdapter \/ DestroyDriver

ProcessSpec == ProcessInit /\ [][ServerNext]_processVars
-----------------------------------------------------------------------------
\* Which parts call which others while they exist: relay threads make frames and close
\* their handles, the maps use everything that main has made for them.
MapUses == {"maps", "loggers", "transceivers", "driver", "plugins", "frames"}
Uses(part) ==
  CASE part = "server" -> {"database", "maps"}
    [] part = "user maps" -> MapUses \cup {"routers"}
    [] part = "routers" -> MapUses
    [] part = "loggers" -> {"driver"}
    [] part = "driver" -> {"frames"}
    [] OTHER -> {}

\* Whatever could not be made and however the server ends, no part is left without one that
\* it uses, and the driver waits for no handle that nobody is left to close.
PartsOutlived ==
  /\ \A part \in alive : Uses(part) \subseteq alive
  /\ handles = Len(adapters) + Cardinality(relays) + (IF "loggers" \in alive THEN 1 ELSE 0)
  /\ Deleting("driver") /\ adapters = <<>> => handles = 0
=============================================================================
