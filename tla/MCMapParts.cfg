SPECIFICATION PartsSpec
CONSTANTS
  TicksPerMs = 1
  MaxLag = 1
  MaxClock = 6
  x = x
  y = y
  z = z
  Holder <- MCHolder
  ThreadOf <- MCThreadOf
  Depth = 3
  MaxWrites = 2
  Interfaces <- MCInterfaces
  Questions <- MCQuestions
  Hops <- MCHops
  MaxSends = 3
  Arriving <- MCArriving
  NodeIp = {9, 200, 254}
  NodeMac = 7
  MaxHandled = 3
  Torrent = {1, 2}
  PeerId = {1, 2}
  ExpireTime = 2
  MaxMessages = 3
  Mappings <- MCMappings
  Client = {"c", "d", "e"}
  Stranger = {"z"}
  Ports = {2, 5, 6}
  MaxRelayed = 5
  FsmState = {"a", "b", "c"}
  TimedTargets <- MCTimedTargets
  ManualTarget <- MCManualTarget
  Activity <- MCActivity
  FsmLink = {"l", "m"}
  Delays = {1, 3}
  MaxVisits = 4
  Plugin = {"ping", "udp", "mute"}
  Intervals <- MCIntervals
  MaxDispatches = 2
  Udp = {"udp"}
  OwnAddress <- MCOwnAddress
  Target <- MCTarget
  Identifier <- MCIdentifier
  EchoPort = 7
  EchoHost = {"h"}
  UdpResponder = {"r"}
  Proxy <- MCProxy
  MaxReplies = 1
  User = {"a", "b"}
  Host = {"h", "i"}
  MapFile = {"m", "n", "o"}
  GroupOf <- MCGroupOf
  Root <- MCRoot
  MaxInstances = 3
  MapFiles <- MCMapFiles
  MapIndex = 1
  Kilo = 8
  IntMax = 1023
  Adapters = {"eth0"}
  MinimumDataSize = 12
  Formats <- MCFormats
  Digit <- MCDigit
  Characters <- MCCharacters
  MaxText = 8
  MaxCount = 30
  Streams <- MCStreams
  Accounts <- MCAccounts
  Configurations <- MCConfigurations
  MaxInterrupts = 2
SYMMETRY MCSymmetry
INVARIANTS FramesShared ArpSaysWhatWasMeant SentFramesVerify PeersKept AnswersReachTheirClient TimedByThisVisit PingsMeasured AllocationAgrees ReadAsExpanded SignedInAsSent FormulasMeanTheirPieces PartsOutlived
CHECK_DEADLOCK FALSE
