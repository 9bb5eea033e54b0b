--------------------------- MODULE TcpReverseProxy ---------------------------
(***************************************************************************)
(* plugin/GeneralTCPReverseProxy: packets for one of its public ports are  *)
(* relayed to the server behind it, from a port that stands for the        *)
(* client; what a server sends to such a port is relayed to the client.    *)
(***************************************************************************)
EXTENDS Integers, SequencesExt, FiniteSetsExt

CONSTANTS
  Mappings,     \* the port-mapping parameter: [port, server]
  Client,       \* clients: an address and a port of it
  Stranger,     \* hosts that are neither clients nor servers
  Ports,        \* the ports that may stand for a client
  MaxRelayed    \* bound: packets of clients that are relayed

VARIABLES
  clientPort,   \* clientPortMapping
  clientReverse,\* clientReversePortMapping
  got,          \* the last packet received: [from, port]
  sent,         \* what was sent for it: [to, from], or NoPacket
  asked         \* history: [client, public, port, server] since the ports were cleared

proxyVars == <<clientPort, clientReverse, got, sent, asked>>

NoPacket == [to |-> "nobody", from |-> 0]

\* The last rule for a port, and the last rule for a server, decide.
LastRule(Test(_)) == Mappings[Max({k \in DOMAIN Mappings : Test(Mappings[k])})]
ServerPorts == {m.port : m \in Range(Mappings)}
Servers == {m.server : m \in Range(Mappings)}
serverPort == [p \in ServerPorts |-> LastRule(LAMBDA m : m.port = p).server]
serverReverse == [s \in Servers |-> LastRule(LAMBDA m : m.server = s).port]

ProxyInit ==
  /\ clientPort = <<>> /\ clientReverse = <<>>
  /\ got = [from |-> "nobody", port |-> 0] /\ sent = NoPacket
  /\ asked = {}

\* Fault: a public port may be given to a client.
TakenByClients(ports) == DOMAIN ports

Taken(ports) == ServerPorts \cup DOMAIN ports

\* Client and server, and the port that stands for the client between them.
Asked(client, public, p) == [client |-> client, public |-> public, port |-> p, server |-> serverPort[public]]

ToServer(public, p) == [to |-> serverPort[public], from |-> p]

\* QMap::insert of a key that is not there
Inserted(map, key, value) == [k \in {key} \cup DOMAIN map |-> IF k = key THEN value ELSE map[k]]

\* A free port at random; as many tries as there are ports may all meet a taken one, and
\* then every client loses its port.
AssignPort(client, public) ==
  \/ \E p \in Ports \ Taken(clientPort) :
       /\ clientPort' = Inserted(clientPort, p, client)
       /\ clientReverse' = Inserted(clientReverse, client, p)
       /\ asked' = asked \cup {Asked(client, public, p)}
       /\ sent' = ToServer(public, p)
  \/ /\ Ports \cap Taken(clientPort) # {}
     /\ \E p \in Ports \ Taken(<<>>) :
          /\ clientPort' = Inserted(<<>>, p, client)
          /\ clientReverse' = Inserted(<<>>, client, p)
          /\ asked' = {Asked(client, public, p)}
          /\ sent' = ToServer(public, p)

KnownClient(client, public) ==
  /\ asked' = asked \cup {Asked(client, public, clientReverse[client])}
  /\ sent' = ToServer(public, clientReverse[client])
  /\ UNCHANGED <<clientPort, clientReverse>>

\* relayClientPacketToServer
ClientPacket(client, public) ==
  /\ Cardinality(asked) < MaxRelayed
  /\ IF client \in DOMAIN clientReverse THEN KnownClient(client, public) ELSE AssignPort(client, public)

\* relayServerPacketToClient; a public port of 0 reads as none.
ServerPacket(from, port) ==
  /\ sent' = IF from \in Servers /\ serverReverse[from] # 0
             THEN [to |-> clientPort[port], from |-> serverReverse[from]]
             ELSE NoPacket
  /\ UNCHANGED <<clientPort, clientReverse, asked>>

\* relayTCPPacket
PacketFrom(from, port) ==
  /\ got' = [from |-> from, port |-> port]
  /\ \/ port \in ServerPorts /\ ClientPacket(from, port)
     \/ port \notin ServerPorts /\ port \in DOMAIN clientPort /\ ServerPacket(from, port)
     \/ /\ port \notin ServerPorts \cup DOMAIN clientPort
        /\ sent' = NoPacket /\ UNCHANGED <<clientPort, clientReverse, asked>>

ProxyNext ==
  \E from \in Client \cup Servers \cup Stranger, port \in ServerPorts \cup Ports : PacketFrom(from, port)

ProxySpec == ProxyInit /\ [][ProxyNext]_proxyVars
-----------------------------------------------------------------------------
\* What a server answers to the port it was spoken to from reaches the client who spoke,
\* from the public port the client had spoken to, however many share the proxy: unless the
\* ports have been given out anew in between.
AnswersReachTheirClient ==
  \A a \in asked :
    got = [from |-> a.server, port |-> a.port] => sent = [to |-> a.client, from |-> a.public]
=============================================================================
