----------------------------- MODULE MapReading -----------------------------
(***************************************************************************)
(* How a map file becomes a map (Map::setup, map/builder).  The children   *)
(* of a repeat tag are read count times, with an index that is appended to *)
(* the names of the elements, decides which link a "running" reference     *)
(* means and selects the value of a var; a list reference takes the value  *)
(* that belongs to the number of the map instance.                         *)
(* A name is a sequence: the name in the file, then the index if any.      *)
(***************************************************************************)
EXTENDS PluginParameters

CONSTANTS
  MapFiles,   \* the files: [good, lists, links, nodes, fsm]
  MapIndex,   \* the number of the instance
  Kilo,       \* 1024
  IntMax      \* the largest int

VARIABLES
  mapFile,    \* the file that is read
  stage,      \* "lists", "links", "nodes", "fsm", "ready" or "failed"
  todo,       \* elements of this section that are left
  built       \* what has been read so far

readingVars == <<mapFile, stage, todo, built>>

Nothing == [rep |-> -1, lists |-> <<>>, links |-> <<>>, nodes |-> <<>>, ifaces |-> <<>>,
            conns |-> <<>>, remaining |-> 0, owner |-> 0, values |-> <<>>, groups |-> <<>>,
            tick |-> -1, settings |-> <<>>, lastIdentifier |-> 0,
            failed |-> FALSE, fault |-> FALSE]

ReadingInit == mapFile \in MapFiles /\ stage = "lists" /\ todo = <<>> /\ built = Nothing

Fail(b) == [b EXCEPT !.failed = TRUE]

-----------------------------------------------------------------------------
\* The types of lists and fields.  A measure is a text <<number, unit>>, a string a text as
\* the parameters of plugins have it, an address a number, -1 when it is malformed.
KindOf(n) ==
  CASE n = "loss" -> "percentage" [] n = "bandwidth" -> "bandwidth" [] n = "max-buffer-size" -> "size"
    [] n \in {"latency", "delay", "tick-interval"} -> "time" [] n = "mac-address" -> "mac"
    [] n = "param" -> "string" [] OTHER -> "ipv4"
Addressed == {"mac", "ipv4"}

UnitBytes ==
  "G" :> Kilo * Kilo * Kilo @@ "M" :> Kilo * Kilo @@ "K" :> Kilo @@ "" :> 1
\* A unit is a prefix with B for bytes or b for bits; small numbers of bits are rounded down.
InBytes(t) ==
  IF t[3] = "B" THEN t[1] * UnitBytes[t[2]]
  ELSE IF t[2] # "" THEN t[1] * (UnitBytes[t[2]] \div 8) ELSE t[1] \div 8
InInt(v) == ((v + IntMax + 1) % (2 * IntMax + 2)) - IntMax - 1

\* ListVisitor::parseValue: the value of a text, or nothing when it is malformed
ParseTime(t) ==
  IF t[1] < 0 THEN {}
  ELSE CASE t[2] = "s" -> {t[1] * 1000} [] t[2] = "ms" -> {t[1]} [] OTHER -> {}
ParsePercentage(t) ==
  {rate \in {IF t[2] = "%" THEN t[1] ELSE t[1] * 100} : rate \in 0 .. 100}
HasUnit(t) == t[3] \in {"B", "b"}
ParseBandwidth(t) == IF HasUnit(t) /\ t[1] >= 0 THEN {InBytes(t)} ELSE {}
\* The product is an int; only bits without a prefix are looked at again.
ParseSize(t) ==
  IF HasUnit(t) THEN {v \in {InInt(InBytes(t))} : t[2] = "" /\ t[3] = "b" => v >= 0} ELSE {}
ParseValue(kind, t) ==
  CASE kind = "time" -> ParseTime(t) [] kind = "percentage" -> ParsePercentage(t)
    [] kind = "bandwidth" -> ParseBandwidth(t) [] kind = "size" -> ParseSize(t)
    [] kind \in Addressed -> {a \in {t} : a >= 0} [] OTHER -> {t}

\* ItemVisitor and Formula: an item with a count stands for as many values.
ItemGood(kind, item) == item.count >= 1 /\ (kind \in Addressed \/ ParseValue(kind, item.text) # {})
ItemValues(kind, item) ==
  [i \in 1 .. item.count |-> IF kind \in Addressed THEN item.a + item.b * (i - 1)
                             ELSE CHOOSE v \in ParseValue(kind, item.text) : TRUE]
ListValues(kind, items) == FlattenSeq([k \in DOMAIN items |-> ItemValues(kind, items[k])])
ListGood(kind, items) == items # <<>> /\ \A k \in DOMAIN items : ItemGood(kind, items[k])

\* getListValueByIndex; the remainder of a negative index is outside of the list, unless the
\* list has one value only.
AtIndex(b, key, index) == b.lists[key][(index % Len(b.lists[key])) + 1]

\* UnnamedFieldVisitor and UnnamedFieldRefVisitor: a value, a var, a reference to a list, or
\* a reference that takes the name of the list from a var.  A var outside of a repetition
\* reads its list at the index -1, which is good for a list of one value.
VarKey(field, kind) == <<IF field.is = "indirect" THEN "string" ELSE kind, field.list>>
FieldFaults(b, field, kind) ==
  /\ field.is \in {"var", "indirect"} /\ b.rep < 0
  /\ VarKey(field, kind) \in DOMAIN b.lists /\ Len(b.lists[VarKey(field, kind)]) > 1
OfInstance(b, key) == {AtIndex(b, k, MapIndex) : k \in {key} \cap DOMAIN b.lists}
OfRound(b, key) == {AtIndex(b, k, b.rep) : k \in {key} \cap DOMAIN b.lists}
FieldValues(b, field, kind) ==
  CASE field.is = "value" -> ParseValue(kind, field.value)
    [] field.is = "ref"   -> OfInstance(b, <<kind, field.list>>)
    [] field.is = "var"   -> OfRound(b, VarKey(field, kind))
    [] field.is = "indirect" ->
         UNION {OfInstance(b, <<kind, name>>) : name \in OfRound(b, VarKey(field, kind))}

\* The fields of links, interfaces and plugin nodes, in the order they are looked up.
LinkFields == <<"loss", "latency", "bandwidth">>
LinkDefaults == "loss" :> 0 @@ "latency" :> 10 @@ "bandwidth" :> 10 * Kilo * Kilo * Kilo
AddressFields == <<"mac-address", "ip-address", "netmask">>
QueueFields == <<"delay", "max-buffer-size">>
QueueDefaults == "delay" :> 0 @@ "max-buffer-size" :> 1
NodeDefaults == "tick-interval" :> -1

\* A delay is taken for an int.
FieldValue(b, n, values) ==
  IF values = {} THEN Fail(b)
  ELSE IF n \in {"delay", "tick-interval"} /\ \E v \in values : v > IntMax THEN Fail(b)
  ELSE [b EXCEPT !.values = n :> (CHOOSE v \in values : TRUE) @@ @]

ReadField(b, fields, n) ==
  IF b.failed THEN b
  ELSE IF n \notin DOMAIN fields THEN IF n \in Range(AddressFields) THEN Fail(b) ELSE b
  ELSE IF FieldFaults(b, fields[n], KindOf(n)) THEN [Fail(b) EXCEPT !.fault = TRUE]
  ELSE FieldValue(b, n, FieldValues(b, fields[n], KindOf(n)))

ReadFields(b, fields, names, defaults) ==
  FoldLeft(LAMBDA c, n : ReadField(c, fields, n), [b EXCEPT !.values = defaults @@ @], names)

-----------------------------------------------------------------------------
\* Fault: the index of a repetition is kept after it.
RepetitionKept(b) == b
RepetitionEnds(b) == [b EXCEPT !.rep = -1]

\* MapReader with a variable manager: a repeat inside a repeat is a wrong tag.
ReadElements(b, elements, tag, Visit(_, _)) ==
  LET One(c, e) == IF c.failed THEN c ELSE IF e.tag = tag THEN Visit(c, e) ELSE Fail(c)
      Round(c, e, k) == FoldLeft(One, IF c.failed THEN c ELSE [c EXCEPT !.rep = k], e.body)
      Repeat(c, e) ==
        IF e.count < 1 THEN Fail(c)
        ELSE RepetitionEnds(FoldLeft(LAMBDA d, k : Round(d, e, k - 1), c,
                                     [k \in 1 .. e.count |-> k]))
  IN FoldLeft(LAMBDA c, e : IF e.tag = "repeat" /\ c.rep < 0 /\ ~c.failed THEN Repeat(c, e)
                            ELSE One(c, e),
              b, elements)

ResolveName(b, name) == IF b.rep < 0 THEN name ELSE Append(name, b.rep)
DeresolveName(b, name) == IF b.rep < 0 \/ Last(name) # b.rep THEN name ELSE Front(name)

\* The first link with a name, or 0
LinkNamed(b, name) == SelectInSeq(b.links, LAMBDA l : l.name = name)
Found(b, name) == LinkNamed(b, name) # 0

Logs == {"none", "true", "false"}

\* connectToLink and connectToInterface: an 802.3 link has exactly two clients.
Joined(b, links) ==
  FoldLeft(LAMBDA c, k : IF c.links[k].protocol = "802.3" /\ c.links[k].clients = 2 THEN Fail(c)
                         ELSE [c EXCEPT !.links[k].clients = @ + 1],
           b, links)

\* The links whose client the other one becomes
JoinedBy(direction, new, other) ==
  CASE direction = "in" -> <<new>> [] direction = "out" -> <<other>>
    [] direction = "inout" -> <<new, other>> [] OTHER -> <<>>

\* LinkVisitor: the link exists when its one connection is looked up.
ConnectTo(b, new, t) ==
  LET other == LinkNamed(b, IF t.running THEN ResolveName(b, t.name) ELSE t.name)
      joined == JoinedBy(t.direction, new, other)
  IN IF b.failed \/ other = 0 \/ joined = <<>> THEN Fail(b)
     ELSE [Joined(b, joined) EXCEPT !.links[new].to = Append(@, b.links[other].name)]

ConnectLink(b, e) ==
  LET link == [name |-> ResolveName(b, e.name), protocol |-> e.protocol, clients |-> 0,
               to |-> <<>>, logged |-> FALSE, values |-> <<>>]
      c == [b EXCEPT !.links = Append(@, link)]
  IN IF Len(e.to) > 1 THEN Fail(c)
     ELSE FoldLeft(LAMBDA d, t : ConnectTo(d, Len(c.links), t), c, e.to)

\* extractLossRate, extractLatency and extractBandwidth; setLossRate, setLatency and
\* setBandwidth of the link
ReadLinkFields(b, e) == ReadFields([b EXCEPT !.values = <<>>], e.fields, LinkFields, LinkDefaults)
SetUpLink(b, log) ==
  [b EXCEPT !.links[Len(b.links)] = [@ EXCEPT !.values = b.values, !.logged = (log = "true")]]

WithLogs(b, e) == IF e.log \in Logs THEN b ELSE Fail(b)

VisitLink(b, e) ==
  IF e.protocol \in {"csma-cd", "802.3"}
  THEN SetUpLink(ReadLinkFields(WithLogs(ConnectLink(b, e), e), e), e.log)
  ELSE Fail(b)

\* The link that a connected-to-link tag of an interface means.
ConnectedLink(b, e) ==
  IF e.running THEN ResolveName(b, e.name) ELSE DeresolveName(b, ResolveName(b, e.name))

\* The tag that is thought to be the last one gives the link the frames to keep.
VisitConnection(b, e) ==
  LET link == LinkNamed(b, ConnectedLink(b, e))
      c == Joined(b, <<link>>)
  IN IF link = 0 THEN Fail(b)
     ELSE [c EXCEPT !.conns = Append(@, ConnectedLink(b, e)), !.remaining = @ - 1,
                    !.owner = IF b.remaining = 1 THEN Len(b.conns) + 1 ELSE @]

\* The tags inside of a repeat are counted once more than they are read.
CountedTags(conns) ==
  FoldLeft(LAMBDA n, e : IF e.tag = "repeat" THEN n + Len(e.body) * (e.count + 1) ELSE n + 1,
           0, conns)

\* The children of an interface that are thought to be connections: a repeat stands for its
\* children, and so does one of multicast groups, which is no child of the interface.
ConnectionsCounted(e) ==
  LET repeats == SelectSeq(e.groups, LAMBDA t : t.tag = "repeat")
  IN FoldLeft(LAMBDA n, t : n + IF t.tag = "repeat" THEN Len(t.body) ELSE 1, 0, e.conns)
       + FoldLeft(LAMBDA n, t : n + Len(t.body) - 1, 0, repeats)
WithConnection(b, e) == IF ConnectionsCounted(e) <= 0 THEN Fail(b) ELSE b

\* parseInterfaceConnectedLinks
ConnectInterface(b, e) ==
  WithConnection(
    ReadElements([b EXCEPT !.conns = <<>>, !.owner = 0, !.remaining = CountedTags(e.conns)],
                 e.conns, "connected-to-link", VisitConnection),
    e)

\* extractInterestedMulticastMacAddresses
Collect(b, n) == IF b.failed THEN b ELSE [b EXCEPT !.groups = Append(@, b.values[n])]
VisitGroup(b, e) == Collect(ReadField(b, "group" :> e.field, "group"), "group")

\* parseInterface
ReadInterface(b, e) ==
  LET Of(c, names) == ReadFields(c, e.fields, names, <<>>)
      mac == Of([b EXCEPT !.values = QueueDefaults, !.groups = <<>>], <<"mac-address">>)
      groups == ReadElements(mac, e.groups, "multicast-group", VisitGroup)
  IN WithLogs(Of(groups, <<"ip-address", "netmask">> \o QueueFields), e)

\* EthernetInterfaceVisitor
AddInterface(b, e) ==
  IF b.failed THEN b
  ELSE [b EXCEPT !.ifaces = Append(@,
         [values |-> [n \in DOMAIN b.values \ {"group"} |-> b.values[n]], groups |-> b.groups,
          conns |-> b.conns, logged |-> (e.log = "true"), owner |-> b.owner])]

VisitInterface(b, e) == AddInterface(ConnectInterface(ReadInterface(b, e), e), e)

\* PluginNodeVisitor: the values of a parameter are collected, then the plugin gets them.
ParameterValues(b, e) ==
  FoldLeft(LAMBDA c, f : Collect(ReadField(c, "param" :> f, "param"), "param"),
           [b EXCEPT !.groups = <<>>], e.body)

PassParameter(b, plugin, n) ==
  IF b.failed THEN b
  ELSE IF ~Accepts(plugin, b.settings, n, b.groups) THEN Fail(b)
  ELSE [b EXCEPT !.settings = SetParameter(@, n, b.groups, b.lastIdentifier),
                 !.lastIdentifier = IF CountsUp(n, b.groups) THEN @ + 1 ELSE @]

VisitParameter(b, plugin, e) ==
  IF b.failed THEN b ELSE PassParameter(ParameterValues(b, e), plugin, e.name)

\* A simple node has no plugin, and answers both.
SimpleNode == "handle-arp" :> <<<<"word", "true">>>> @@ "handle-ping" :> <<<<"word", "true">>>>

NewPlugin(b) == [b EXCEPT !.settings = <<>>, !.tick = b.values["tick-interval"]]

ReadPlugin(b, e) ==
  IF e.plugin = "none" THEN [b EXCEPT !.settings = SimpleNode, !.tick = -1]
  ELSE IF e.plugin \notin Installed THEN Fail(b)
  ELSE FoldLeft(LAMBDA c, p : VisitParameter(c, e.plugin, p),
                NewPlugin(ReadFields([b EXCEPT !.values = <<>>], e.fields, <<"tick-interval">>,
                                     NodeDefaults)),
                e.params)

AddNode(b, name) ==
  IF b.failed THEN b
  ELSE [b EXCEPT !.nodes = Append(@, [name |-> name, tick |-> b.tick, settings |-> b.settings,
                                      ifaces |-> b.ifaces])]

\* The name is resolved before the interfaces end the repetition.
VisitNode(b, e) ==
  AddNode(ReadElements([ReadPlugin(b, e) EXCEPT !.ifaces = <<>>], e.ifaces,
                       "ethernet-interface", VisitInterface),
          ResolveName(b, e.name))

\* FsmVisitor: all states exist before the first transition is read.
FsmReadable(b, fsm) ==
  /\ \A t \in fsm.transitions : {t.from, t.to} \subseteq fsm.states
  /\ \A s, t \in fsm.transitions : s.from = t.from /\ s.manual /\ t.manual => s = t
  /\ \A link \in fsm.commands : Found(b, link)
  /\ fsm.initial \in fsm.states

-----------------------------------------------------------------------------
Goes(b, next, elements) ==
  /\ built' = b
  /\ stage' = IF b.failed THEN "failed" ELSE next
  /\ todo' = IF b.failed THEN <<>> ELSE elements
  /\ UNCHANGED mapFile

\* initializeMap: the root's attributes and tags are checked, and the lists are read.
ReadLists ==
  /\ stage = "lists"
  /\ LET lists == mapFile.lists
         good == mapFile.good /\ \A l \in DOMAIN lists : ListGood(l[1], lists[l])
     IN Goes(IF good THEN [Nothing EXCEPT !.lists = [l \in DOMAIN lists |-> ListValues(l[1], lists[l])]]
             ELSE Fail(Nothing), "links", mapFile.links)

ReadLink ==
  /\ stage = "links" /\ todo # <<>>
  /\ Goes(ReadElements(built, <<Head(todo)>>, "link", VisitLink), "links", Tail(todo))

LinksRead == stage = "links" /\ todo = <<>> /\ Goes(built, "nodes", mapFile.nodes)

ReadNode ==
  /\ stage = "nodes" /\ todo # <<>>
  /\ Goes(ReadElements(built, <<Head(todo)>>, "node", VisitNode), "nodes", Tail(todo))

NodesRead == stage = "nodes" /\ todo = <<>> /\ Goes(built, "fsm", <<>>)

ReadFsm ==
  /\ stage = "fsm"
  /\ Goes(IF FsmReadable(built, mapFile.fsm) THEN built ELSE Fail(built), "ready", <<>>)

ReadingNext == ReadLists \/ ReadLink \/ LinksRead \/ ReadNode \/ NodesRead \/ ReadFsm

ReadingSpec == ReadingInit /\ [][ReadingNext]_readingVars
-----------------------------------------------------------------------------
\* The elements with the repeats written out, each with its index.
Expanded(rep, elements) ==
  LET Copies(e) == IF e.tag # "repeat" THEN <<[rep |-> rep, e |-> e]>>
                   ELSE FlattenSeq([k \in 1 .. e.count |->
                          [j \in DOMAIN e.body |-> [rep |-> k - 1, e |-> e.body[j]]]])
  IN FlattenSeq([k \in DOMAIN elements |-> Copies(elements[k])])

Named(rep, name, indexed) == IF indexed /\ rep >= 0 THEN Append(name, rep) ELSE name

\* A size means as many bytes as it says.
Stated(kind, t) == IF kind = "size" THEN InBytes(t) ELSE CHOOSE v \in ParseValue(kind, t) : TRUE
Listed(key, index) ==
  LET Copies(item) == [i \in 1 .. item.count |-> IF key[1] \in Addressed THEN item.a + item.b * (i - 1)
                                                 ELSE Stated(key[1], item.text)]
      values == FlattenSeq([k \in DOMAIN mapFile.lists[key] |-> Copies(mapFile.lists[key][k])])
  IN values[(index % Len(values)) + 1]
Meaning(rep, n, field) ==
  CASE field.is = "value" -> Stated(KindOf(n), field.value)
    [] field.is = "ref" -> Listed(<<KindOf(n), field.list>>, MapIndex)
    [] field.is = "var" -> Listed(<<KindOf(n), field.list>>, rep)
    [] field.is = "indirect" -> Listed(<<KindOf(n), Listed(<<"string", field.list>>, rep)>>, MapIndex)
Meanings(rep, fields, defaults) == [n \in DOMAIN fields |-> Meaning(rep, n, fields[n])] @@ defaults

ExpandedLinks ==
  LET xs == Expanded(-1, mapFile.links)
  IN [k \in DOMAIN xs |->
       [name |-> Named(xs[k].rep, xs[k].e.name, TRUE), protocol |-> xs[k].e.protocol,
        values |-> Meanings(xs[k].rep, xs[k].e.fields, LinkDefaults),
        logged |-> xs[k].e.log = "true",
        to |-> [j \in DOMAIN xs[k].e.to |->
                  Named(xs[k].rep, xs[k].e.to[j].name, xs[k].e.to[j].running)]]]

ExpandedInterfaces(rep, ifaces) ==
  LET xs == Expanded(rep, ifaces)
      Conns(x) == LET cs == Expanded(x.rep, x.e.conns)
                  IN [j \in DOMAIN cs |-> Named(cs[j].rep, cs[j].e.name, cs[j].e.running)]
      Groups(x) == LET gs == Expanded(x.rep, x.e.groups)
                   IN [j \in DOMAIN gs |-> Meaning(gs[j].rep, "group", gs[j].e.field)]
  IN [k \in DOMAIN xs |-> [values |-> Meanings(xs[k].rep, xs[k].e.fields, QueueDefaults),
                           groups |-> Groups(xs[k]), conns |-> Conns(xs[k]),
                           logged |-> xs[k].e.log = "true"]]

\* The parameters of an expanded node with their values.  The n-th parameter in a file that
\* asks for an incremental identifier gets n, whatever else is set in between.
ParametersOf(x) ==
  LET Texts(p) == [j \in DOMAIN p.body |-> Meaning(x.rep, "param", p.body[j])]
  IN [j \in DOMAIN x.e.params |-> [name |-> x.e.params[j].name, values |-> Texts(x.e.params[j])]]
Identifiers(ps) == Len(SelectSeq(ps, LAMBDA p : CountsUp(p.name, p.values)))
ExpandedSettings(xs, k) ==
  LET earlier == Identifiers(FlattenSeq([j \in 1 .. k - 1 |-> ParametersOf(xs[j])]))
      ps == ParametersOf(xs[k])
      Before(j) == earlier + Identifiers(SubSeq(ps, 1, j - 1))
  IN FoldLeft(LAMBDA s, j : SetParameter(s, ps[j].name, ps[j].values, Before(j)),
              IF xs[k].e.plugin = "none" THEN SimpleNode ELSE <<>>, [j \in DOMAIN ps |-> j])

ExpandedNodes ==
  LET xs == Expanded(-1, mapFile.nodes)
  IN [k \in DOMAIN xs |->
       [name |-> Named(xs[k].rep, xs[k].e.name, TRUE),
        tick |-> Meanings(xs[k].rep, xs[k].e.fields, NodeDefaults)["tick-interval"],
        settings |-> ExpandedSettings(xs, k),
        ifaces |-> ExpandedInterfaces(xs[k].rep, xs[k].e.ifaces)]]

WithoutOwner(node) ==
  [node EXCEPT !.ifaces = [k \in DOMAIN @ |-> [n \in DOMAIN @[k] \ {"owner"} |-> @[k][n]]]]
WithoutClients(link) == [n \in DOMAIN link \ {"clients"} |-> link[n]]

\* Every mention of a link by an interface, and by a link that it hears or that hears it,
\* is a client.
Mentions(name) ==
  LET ls == ExpandedLinks
      xs == Expanded(-1, mapFile.links)
      Of(k) == IF xs[k].e.to = <<>> THEN <<>>
               ELSE LET direction == xs[k].e.to[1].direction
                    IN (IF direction # "out" THEN <<ls[k].name>> ELSE <<>>)
                         \o (IF direction # "in" THEN ls[k].to ELSE <<>>)
      links == FlattenSeq([k \in DOMAIN ls |-> Of(k)])
      nodes == FlattenSeq([k \in DOMAIN built.nodes |->
                 FlattenSeq([j \in DOMAIN built.nodes[k].ifaces |-> built.nodes[k].ifaces[j].conns])])
  IN Len(SelectSeq(links \o nodes, LAMBDA m : m = name))

SizesFit ==
  \A n \in Range(ExpandedNodes) : \A i \in Range(n.ifaces) :
    i.values["max-buffer-size"] \in -IntMax - 1 .. IntMax

\* A map that was read is the one that its file describes when every repeat is written
\* out, although the index is one variable that all levels of the file share, with the
\* values that lists and units stand for, unless a size does not fit an int; and no 802.3 link has
\* a third client.
ReadAsExpanded ==
  stage = "ready" =>
    /\ [k \in DOMAIN built.links |-> WithoutClients(built.links[k])] = ExpandedLinks
    /\ \A k \in DOMAIN built.links :
         LET l == built.links[k]
         IN l.clients = Mentions(l.name) /\ (l.protocol = "802.3" => l.clients <= 2)
    /\ SizesFit => [k \in DOMAIN built.nodes |-> WithoutOwner(built.nodes[k])] = ExpandedNodes
=============================================================================
