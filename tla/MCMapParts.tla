---------------------------- MODULE MCMapParts ----------------------------
(***************************************************************************)
(* The smaller parts of a map, each in a map of its own: a frame and its   *)
(* clones, the ARP packets of a node, a packet, a tracker, a reverse       *)
(* proxy, a state machine, pingers, the instances of map files, the        *)
(* reading of one and of its addresses, a client that signs in, and the    *)
(* server process around them.                                             *)
(***************************************************************************)
EXTENDS FrameSharing, ArpPackets, PacketLayers, BitTorrentTracker, TcpReverseProxy, LinkFsm,
        Pingers, MapInstances, MapReading, AddressFormula, SignIn, ServerProcess

VARIABLE part    \* the part that runs

Resting == [p \in Plugin |-> 1]

SchedulerRests == realtime = FALSE /\ clock = 0 /\ events = {} /\ timers = {} /\ registered = 0

FsmRests ==
  /\ current = "a" /\ lastId = [s \in FsmState |-> 0] /\ enabled = {}
  /\ linkUp = [l \in FsmLink |-> TRUE]
  /\ walkPosted = 0 /\ visits = 1 /\ leaveAt = 0 /\ leftEarly = FALSE

TicksRest ==
  /\ tickInterval = Resting /\ gcd = 1 /\ lcm = 1 /\ schedule = Resting
  /\ timeCounter = 0 /\ dispatches = 0 /\ fault = FALSE /\ lastTick = [p \in Plugin |-> 0]

ReadingRests ==
  mapFile = (CHOOSE f \in MapFiles : TRUE) /\ stage = "lists" /\ todo = <<>> /\ built = Nothing

PacketsRest ==
  packet = FromBytes(CHOOSE raw \in Arriving : TRUE) /\ handled = 0 /\ whole = TRUE

SignInRests ==
  stream = <<>> /\ wire = <<>> /\ socket = <<>> /\ blockSize = 0 /\ signedIn = "waiting"

FormulaRests == FormulaStarts(CHOOSE f \in Formats : TRUE)

ProcessRests == ProcessStarts(CHOOSE c \in Configurations : TRUE)

PartsInit ==
  /\ part \in {"frames", "arp", "packets", "tracker", "proxy", "fsm", "pingers", "instances", "reading",
              "formulas", "sign-in", "process"}
  /\ FramesInit /\ ArpPacketInit /\ TrackerInit /\ ProxyInit /\ PingInit /\ InstancesInit
  /\ IF part = "packets" THEN PacketsInit ELSE PacketsRest
  /\ IF part = "fsm" THEN FsmInit ELSE FsmRests
  /\ IF part = "pingers" THEN TicksInit ELSE TicksRest
  /\ IF part = "reading" THEN ReadingInit ELSE ReadingRests
  /\ IF part = "formulas" THEN FormulaInit ELSE FormulaRests
  /\ IF part = "sign-in" THEN SignInInit ELSE SignInRests
  /\ IF part = "process" THEN ProcessInit ELSE ProcessRests
  /\ part = "tracker" => SchedulerInit
  /\ part \notin {"fsm", "pingers", "tracker"} => SchedulerRests

PartsNext ==
  /\ UNCHANGED part
  /\ \/ /\ part = "frames" /\ FramesNext
        /\ UNCHANGED <<schedulerVars, arpPacketVars, packetVars, trackerVars, proxyVars,
                       fsmVars, ticksVars, pingVars, instanceVars, readingVars, formulaVars,
                       signInVars, processVars>>
     \/ /\ part = "arp" /\ ArpPacketNext
        /\ UNCHANGED <<schedulerVars, frameVars, packetVars, trackerVars, proxyVars, fsmVars,
                       ticksVars, pingVars, instanceVars, readingVars, formulaVars, signInVars,
                       processVars>>
     \/ /\ part = "packets" /\ PacketsNext
        /\ UNCHANGED <<schedulerVars, frameVars, arpPacketVars, trackerVars, proxyVars, fsmVars,
                       ticksVars, pingVars, instanceVars, readingVars, formulaVars, signInVars,
                       processVars>>
     \/ /\ part = "tracker" /\ TrackerNext
        /\ UNCHANGED <<frameVars, arpPacketVars, packetVars, proxyVars, fsmVars, ticksVars,
                       pingVars, instanceVars, readingVars, formulaVars, signInVars, processVars>>
     \/ /\ part = "proxy" /\ ProxyNext
        /\ UNCHANGED <<schedulerVars, frameVars, arpPacketVars, packetVars, trackerVars,
                       fsmVars, ticksVars, pingVars, instanceVars, readingVars, formulaVars,
                       signInVars, processVars>>
     \/ /\ part = "fsm" /\ FsmNext
        /\ UNCHANGED <<frameVars, arpPacketVars, packetVars, trackerVars, proxyVars, ticksVars,
                       pingVars, instanceVars, readingVars, formulaVars, signInVars, processVars>>
     \/ /\ part = "pingers" /\ PingNext
        /\ UNCHANGED <<frameVars, arpPacketVars, packetVars, trackerVars, proxyVars, fsmVars,
                       instanceVars, readingVars, formulaVars, signInVars, processVars>>
     \/ /\ part = "instances" /\ InstancesNext
        /\ UNCHANGED <<schedulerVars, frameVars, arpPacketVars, packetVars, trackerVars,
                       proxyVars, fsmVars, ticksVars, pingVars, readingVars, formulaVars,
                       signInVars, processVars>>
     \/ /\ part = "reading" /\ ReadingNext
        /\ UNCHANGED <<schedulerVars, frameVars, arpPacketVars, packetVars, trackerVars,
                       proxyVars, fsmVars, ticksVars, pingVars, instanceVars, formulaVars,
                       signInVars, processVars>>
     \/ /\ part = "formulas" /\ FormulaNext
        /\ UNCHANGED <<schedulerVars, frameVars, arpPacketVars, packetVars, trackerVars,
                       proxyVars, fsmVars, ticksVars, pingVars, instanceVars, readingVars,
                       signInVars, processVars>>
     \/ /\ part = "sign-in" /\ SignInNext
        /\ UNCHANGED <<schedulerVars, frameVars, arpPacketVars, packetVars, trackerVars,
                       proxyVars, fsmVars, ticksVars, pingVars, instanceVars, readingVars,
                       formulaVars, processVars>>
     \/ /\ part = "process" /\ ServerNext
        /\ UNCHANGED <<schedulerVars, frameVars, arpPacketVars, packetVars, trackerVars,
                       proxyVars, fsmVars, ticksVars, pingVars, instanceVars, readingVars,
                       formulaVars, signInVars>>

PartsSpec ==
  PartsInit /\ [][PartsNext]_<<part, schedulerVars, frameVars, arpPacketVars, packetVars,
                               trackerVars, proxyVars, fsmVars, ticksVars, pingVars,
                               instanceVars, readingVars, formulaVars, signInVars, processVars>>
-----------------------------------------------------------------------------
\* A frame has three holders, in one thread; nothing tells them apart.
CONSTANTS x, y, z
MCHolder == {x, y, z}
MCSymmetry == Permutations(MCHolder)
MCThreadOf == [h \in Holder |-> "map"]

\* Two interfaces, one of which answers for 5.5, and questions that are right or not.
Mac(n) == <<n, n, n, 0>>
MCInterfaces ==
  {[mac |-> Mac(1), ip |-> <<1, 1>>, proxied |-> {<<5, 5>>}], [mac |-> Mac(2), ip |-> <<2, 2>>, proxied |-> {}]}
Question(type, kinds, op, tpa) ==
  [eth |-> [dst |-> Broadcast, src |-> Mac(7), type |-> type],
   arp |-> [kinds |-> kinds, op |-> op, sha |-> Mac(7), spa |-> <<7, 7>>, tha |-> NullMac, tpa |-> tpa]]
MCQuestions ==
  {Question(TypeARP, ValidKinds, op, tpa) : op \in 1 .. 3, tpa \in {<<1, 1>>, <<5, 5>>, <<9, 9>>}}
    \cup {Question(TypeIP, ValidKinds, 1, <<1, 1>>), Question(TypeARP, <<2, TypeIP, 1540>>, 1, <<1, 1>>)}
MCHops == {<<8, 8>>}

\* Frames from outside: whole, with a damaged body or header, or without a checksum; bodies
\* of odd and even lengths, and bytes that make the sums carry.
NetworkStored(sum) ==
  LET c == 65535 - (IF sum % 65535 = 0 THEN 65535 ELSE sum % 65535) IN <<c \div 256, c % 256>>
FrameOf(proto, ttl, first, data) ==
  LET header == <<ttl, proto, 0, 0, 255, 9>>
      body == <<first, 254, 0, 0>> \o data
      pseudo == IF proto = ICMP THEN <<>> ELSE <<255, 9, 0, proto, 0, Len(body)>>
  IN [eth |-> <<1, 2>>,
      ip |-> <<ttl, proto>> \o NetworkStored(NetworkSum(header)) \o <<255, 9>>,
      l4 |-> WithChecksum(body, NetworkStored(NetworkSum(body) + NetworkSum(pseudo)))]
WholeFrames ==
  {FrameOf(proto, ttl, first, data) : proto \in {ICMP, TCP, UDP}, ttl \in {2, 255},
     first \in {0, TypeEcho}, data \in {<<>>, <<255>>, <<255, 255, 255, 254>>, <<1, 2, 255>>}}
MCArriving ==
  WholeFrames \cup {[r EXCEPT !.l4[1] = @ + 1] : r \in WholeFrames}
    \cup {[r EXCEPT !.ip[1] = @ - 1] : r \in WholeFrames}
    \cup {[r EXCEPT !.l4 = Zeroed(@)] : r \in {w \in WholeFrames : w.ip[2] # ICMP}}

\* Blocks with names and passwords of up to two characters, and commands after them: all that
\* is right or has one wrong number, and blocks of sizes that no block has.
TextOnWire(t) == <<Len(t) + 1, 0>> \o t \o <<0>>
BlockOf(name, password) ==
  LET body == TextOnWire(name) \o TextOnWire(password) IN <<Len(body), 0>> \o body
Texts == {<<>>, <<7>>, <<7, 8>>}
GoodBlocks == {BlockOf(n, p) \o after : n \in Texts, p \in Texts, after \in {<<>>, <<7, 9>>}}
MCStreams ==
  GoodBlocks \cup {[b EXCEPT ![k] = @ + d] : b \in GoodBlocks, k \in {1, 3}, d \in {-1, 1}}
    \cup {<<n, 0, 1, 0, 0, 1, 0, 0, 7, 9>> : n \in 0 .. 5} \cup {<<3, 0, 65534, 0, 7, 0, 1, 0>>}
MCAccounts ==
  {[name |-> <<7>>, password |-> p, active |-> a] : p \in {<<7>>, <<>>}, a \in BOOLEAN}
    \cup {[name |-> <<7, 8>>, password |-> <<7>>, active |-> FALSE]}

\* Two of the four parts of an IP address, in digits 0 and 9, and of the six of a MAC address
MCFormats ==
  {[separator |-> ".", count |-> 2, base |-> 10], [separator |-> ":", count |-> 2, base |-> 16]}
MCDigit == "0" :> 0 @@ "9" :> 9 @@ "F" :> 15
MCCharacters == DOMAIN Digit \cup {".", ":", "{", "+", "i", "}"}

\* Up to two adapters, good ones and others, and any parts that cannot be made.
MCConfigurations ==
  {[adapters |-> as, failing |-> failing, listens |-> l, timeout |-> l] :
     as \in {<<>>, <<"good">>, <<"good", "good">>, <<"good", "no address">>, <<"good", "no device">>},
     failing \in {{}} \cup {{p} : p \in Range(StartOrder) \ {"frames", "plugins", "server"}},
     l \in BOOLEAN}

\* Two servers behind the ports 1 and 2; 2 may also be drawn for a client.
MCMappings == <<[port |-> 1, server |-> "s"], [port |-> 2, server |-> "t"]>>

\* Three states; b is left only in its time, c only by walk.
MCTimedTargets == "a" :> {"b"} @@ "b" :> {"a", "c"} @@ "c" :> {}
MCManualTarget == "a" :> {"c"} @@ "b" :> {} @@ "c" :> {"a"}
MCActivity == "a" :> ("l" :> TRUE) @@ "b" :> ("l" :> FALSE) @@ "c" :> ("m" :> FALSE)

\* A pinger whose pings pass a proxy, a UDP pinger, and a pinger without a target; both
\* pingers use one identifier.
MCIntervals ==
  {[p \in Plugin |-> 1], "ping" :> 1 @@ "udp" :> 2 @@ "mute" :> 2, [p \in Plugin |-> 0]}
MCOwnAddress == "ping" :> "a" @@ "udp" :> "b" @@ "mute" :> "c"
MCTarget == "ping" :> "in" @@ "udp" :> "r" @@ "mute" :> "none"
MCIdentifier == [p \in Plugin |-> 9]
MCProxy == [first |-> "a", second |-> "h", in |-> "in", out |-> "out"]

\* One map file for all users from one host, one for a single group, one that is wrong.
MCGroupOf == "a" :> "staff" @@ "b" :> "students"
AuthorizationTag(by, ipu, groups, hosts) ==
  [resumableBy |-> by, maxIpu |-> ipu, groups |-> groups, hosts |-> hosts, others |-> {}]
RootTag(n, a) == [named |-> TRUE, version |-> "3.4", count |-> n, authorization |-> a]
MCRoot ==
  "m" :> RootTag(2, {AuthorizationTag({"anyone"}, {2}, {}, {{"h"}})}) @@
  "n" :> RootTag(2, {AuthorizationTag({}, {}, {{"staff"}}, {})}) @@
  "o" :> RootTag(2, {AuthorizationTag({}, {0}, {}, {})})
-----------------------------------------------------------------------------
\* Map files with links b and k-0, k-1 ...: references to them from a repeat and from
\* outside, repeats at every level and inside of a repeat, and fields of all kinds.
LinkOf(n, protocol, log, to, fields) ==
  [tag |-> "link", name |-> <<n>>, protocol |-> protocol, log |-> log, to |-> to, fields |-> fields]
LinkWith(n, to, fields) == LinkOf(n, "csma-cd", "none", to, fields)
LinkTag(n, to) == LinkWith(n, to, <<>>)
LinkTo(n, running, direction) == [name |-> <<n>>, running |-> running, direction |-> direction]
LinkRef(n, running) == LinkTo(n, running, "inout")
ConnectedTo(n, running) == [tag |-> "connected-to-link", name |-> <<n>>, running |-> running]
RepeatTag(n, body) == [tag |-> "repeat", count |-> n, body |-> body]
GroupTag(f) == [tag |-> "multicast-group", field |-> f]
Value(t) == [is |-> "value", value |-> t]
Addresses(f) == "mac-address" :> Value(7) @@ "ip-address" :> f @@ "netmask" :> f
IfaceLogs(fields, groups, conns, log) ==
  [tag |-> "ethernet-interface", fields |-> fields, groups |-> groups, conns |-> conns, log |-> log]
IfaceWith(fields, groups, conns) == IfaceLogs(fields, groups, conns, "none")
IfaceTag(f, conns) == IfaceWith(Addresses(f), <<>>, conns)
PluginTag(n, plugin, fields, params, ifaces) ==
  [tag |-> "node", name |-> <<n>>, plugin |-> plugin, fields |-> fields, params |-> params,
   ifaces |-> ifaces]
NodeTag(n, ifaces) == PluginTag(n, "none", <<>>, <<>>, ifaces)

\* Texts of every type, good, too large and malformed
FixedField == Value(7)
ListField(is, l) == [is |-> is, list |-> <<"word", l>>]
TextsOf(kind) ==
  CASE kind = "percentage" -> {<<7, "%">>, <<1, "">>, <<2, "">>}
    [] kind = "time" -> {<<7, "ms">>, <<1, "s">>, <<2, "s">>, <<7, "">>}
    [] kind = "bandwidth" -> {<<7, "K", "b">>, <<7, "", "b">>, <<7, "G", "B">>, <<-7, "M", "B">>, <<7, "", "">>}
    [] kind = "size" -> {<<7, "K", "B">>, <<9, "", "b">>, <<2, "G", "B">>, <<-7, "", "B">>, <<7, "", "">>}
    [] OTHER -> {7, -1}
FieldTags(kind) ==
  {Value(t) : t \in TextsOf(kind)}
    \cup {ListField(is, l) : is \in {"ref", "var", "indirect"}, l \in {"l", "m", "o", "no"}}
Kinds == {"percentage", "time", "bandwidth", "size", "mac", "ipv4"}
TextInList(kind) ==
  CASE kind = "percentage" -> <<7, "%">> [] kind = "time" -> <<1, "s">> [] OTHER -> <<3, "K", "b">>
ListTags ==
  <<"string", <<"word", "m">>>> :> <<[text |-> <<"word", "l">>, count |-> 2]>> @@
  <<"string", <<"word", "o">>>> :> <<[text |-> <<"word", "o">>, count |-> 1]>> @@
  [key \in Kinds \X {<<"word", "o">>} |->
     IF key[1] \in Addressed THEN <<[a |-> 4, b |-> 0, count |-> 1]>>
     ELSE <<[text |-> TextInList(key[1]), count |-> 1]>>] @@
  [key \in (Kinds \cup {"string"}) \X {<<"word", "l">>} |->
     CASE key[1] \in Addressed -> <<[a |-> 1, b |-> 2, count |-> 2], [a |-> 9, b |-> 0, count |-> 1]>>
       [] key[1] = "string" -> <<[text |-> <<"word", "l">>, count |-> 1], [text |-> <<"number", 7>>, count |-> 2]>>
       [] OTHER -> <<[text |-> TextInList(key[1]), count |-> 2]>>]
WrongLists ==
  {<<"ipv4", <<"word", "l">>>> :> <<>>, <<"time", <<"word", "l">>>> :> <<[text |-> <<7, "">>, count |-> 1]>>,
   <<"mac", <<"word", "l">>>> :> <<[a |-> 1, b |-> 1, count |-> 0]>>}

BaseLink == LinkTag("b", <<>>)
GoodLinks == <<BaseLink, RepeatTag(2, <<LinkTag("k", <<LinkRef("b", FALSE)>>)>>)>>
LinkSections ==
  {<<BaseLink, RepeatTag(n, <<LinkTag("k", to)>>)>> : n \in {0, 2},
     to \in {<<>>, <<LinkRef("b", FALSE)>>, <<LinkRef("k", TRUE)>>,
             <<LinkRef("b", FALSE), LinkRef("b", FALSE)>>}}
    \cup {<<RepeatTag(1, <<RepeatTag(1, <<BaseLink>>)>>), BaseLink>>,
          <<LinkTag("k", <<LinkRef("b", TRUE)>>), BaseLink>>}
    \cup UNION {{<<BaseLink, RepeatTag(2, <<LinkWith("k", <<>>, n :> f)>>)>> : f \in FieldTags(KindOf(n))} :
                  n \in {"loss", "latency", "bandwidth"}}
    \cup {<<BaseLink, RepeatTag(n, <<LinkOf("k", protocol, log, <<LinkTo("b", FALSE, d)>>, <<>>)>>)>> :
            n \in {1, 3}, protocol \in {"802.3", "802.11"}, log \in {"true", "yes"},
            d \in {"in", "out", "inout", "back"}}
    \cup {<<LinkOf("b", "802.3", "false", <<>>, <<>>),
            RepeatTag(n, <<LinkOf("k", "802.3", "none", <<LinkTo("b", FALSE, d)>>, <<>>)>>)>> :
            n \in 1 .. 3, d \in {"in", "out", "inout"}}

ConnectionTags ==
  {<<ConnectedTo("b", FALSE)>>, <<ConnectedTo("k", TRUE), ConnectedTo("b", FALSE)>>,
   <<RepeatTag(2, <<ConnectedTo("k", TRUE)>>), ConnectedTo("b", TRUE)>>, <<>>, <<BaseLink>>}
NodeSections(is) ==
  {<<NodeTag("n", is)>>, <<RepeatTag(2, <<NodeTag("n", is)>>), NodeTag("m", is)>>,
   <<NodeTag("n", <<RepeatTag(2, is)>>),
     NodeTag("m", <<IfaceTag(FixedField, <<ConnectedTo("b", TRUE)>>)>>)>>}
OtherIfaces(c) ==
  {<<IfaceWith(Addresses(FixedField), <<RepeatTag(2, <<GroupTag(f)>>), GroupTag(FixedField)>>, c)>> :
     f \in FieldTags("ipv4")}
    \cup UNION {{<<IfaceWith(n :> f @@ Addresses(FixedField), <<GroupTag(FixedField)>>, c)>> :
                   f \in FieldTags(KindOf(n))} : n \in {"delay", "max-buffer-size"}}
    \cup {<<IfaceWith("mac-address" :> f, <<>>, c)>> : f \in {FixedField, ListField("ref", "l")}}
    \cup {<<IfaceLogs(Addresses(FixedField), <<>>, c, log)>> : log \in {"true", "yes"}}
\* Repeated multicast groups beside repeated, single and missing connections
GroupedIfaces ==
  LET group == GroupTag(FixedField)
      link == ConnectedTo("b", FALSE)
      from == RepeatTag(2, <<ConnectedTo("k", TRUE)>>)
  IN {<<IfaceWith(Addresses(FixedField), <<group, RepeatTag(n, body)>>, conns)>> :
        n \in {1, 2}, body \in {<<>>, <<group>>, <<group, group>>},
        conns \in {<<>>, <<link>>, <<from, link>>, <<RepeatTag(2, <<>>)>>}}
PluginNodes ==
  {<<RepeatTag(2, <<PluginTag("n", "Router", fields, <<>>,
                              <<IfaceTag(FixedField, <<ConnectedTo("b", FALSE)>>)>>)>>)>> :
     fields \in {<<>>} \cup {"tick-interval" :> f : f \in FieldTags("time")}}

\* Parameters of all plugins: values of each kind, from the file and from a list, wrong
\* values, parameters that are set twice or too early, and plugins that do not exist.
Text(kind, t) == [is |-> "value", value |-> <<kind, t>>]
Word(w) == Text("word", w)
Number(n) == Text("number", n)
Addr(a) == Text("address", a)
Param(n, body) == [name |-> n, body |-> body]
Incremental == Param("identifier-mode", <<Word("incremental")>>)
Rule(a) == <<Addr(a), Number(24), Addr(1), Number(-1)>>
MCParameters ==
  LET values == {Number(7), Number(70000), Word("true"), ListField("var", "l")}
      names == {"handle-ping", "data-size", "source-port", "peer-expire-time", "verbose",
                "udp-checksum-required", "accept-packets"}
  IN {<<Param(n, <<v>>)>> : n \in names, v \in values}
       \cup {<<Incremental, Param("data-size", <<Number(3)>>), Incremental>>,
             <<Param("next-hop", <<Addr(1)>>), Param("next-hop", <<Addr(2)>>)>>,
             <<Param("routing-table", Rule(1) \o Rule(2)), Param("routing-table", Rule(3))>>,
             <<Param("routing-table", Rule(1) \o <<Addr(2)>>)>>,
             <<Param("proxy-arp", <<Addr(1), Number(24), Number(0)>>)>>,
             <<Param("internet-connection", <<Word("eth0")>>),
               Param("advertised-networks", <<Addr(1), Addr(2), Number(24)>>)>>,
             <<Param("advertised-networks", <<Addr(1), Addr(2), Number(24)>>)>>,
             <<Param("port-mapping", <<Number(80), Addr(2), Number(8080)>>)>>,
             <<Param("port-mapping", <<Number(65536), Addr(2), Number(8080)>>)>>,
             <<Param("first-host", <<Addr(1), Addr(2)>>), Param("accept-packets", <<Word("all")>>)>>,
             <<Param("custom-information", <<Word("x"), Number(1)>>)>>}
ParameterNodes ==
  {<<RepeatTag(2, <<PluginTag("n", plugin, <<>>, ps, <<IfaceTag(FixedField, <<ConnectedTo("b", FALSE)>>)>>)>>)>> :
     plugin \in Installed \cup {"Switch"}, ps \in MCParameters}
OneNode == <<NodeTag("n", <<IfaceTag(FixedField, <<ConnectedTo("b", FALSE)>>)>>)>>

FsmTag(to, l, manual, init) ==
  [states |-> {"s", "t"}, initial |-> init, commands |-> {<<l>>},
   transitions |-> {[from |-> "s", to |-> to, manual |-> TRUE],
                    [from |-> "s", to |-> "s", manual |-> manual],
                    [from |-> "t", to |-> "s", manual |-> FALSE]}]
GoodFsm == FsmTag("t", "b", FALSE, "s")
FsmTags == {GoodFsm, FsmTag("u", "b", FALSE, "s"), FsmTag("t", "x", FALSE, "s"),
            FsmTag("t", "b", TRUE, "t"), FsmTag("t", "b", FALSE, "v")}

FileOf(good, links, nodes, fsm) ==
  [good |-> good, lists |-> ListTags, links |-> links, nodes |-> nodes, fsm |-> fsm]
MCMapFiles ==
  {FileOf(TRUE, l, OneNode, GoodFsm) : l \in LinkSections}
    \cup UNION {{FileOf(TRUE, GoodLinks, n, GoodFsm) : n \in NodeSections(<<IfaceTag(f, cs)>>)} :
                  f \in FieldTags("ipv4"), cs \in ConnectionTags}
    \cup {FileOf(TRUE, GoodLinks, n, GoodFsm) :
            n \in PluginNodes \cup ParameterNodes
                   \cup UNION {NodeSections(i) : i \in OtherIfaces(<<ConnectedTo("b", FALSE)>>) \cup GroupedIfaces}}
    \cup {FileOf(good, GoodLinks, OneNode, f) : good \in BOOLEAN, f \in FsmTags}
    \cup {[FileOf(TRUE, GoodLinks, OneNode, GoodFsm) EXCEPT !.lists = l] : l \in WrongLists}
=============================================================================
