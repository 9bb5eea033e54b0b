SPECIFICATION FairSpec
CONSTANTS
  c = c
  p = p
  r = r
  i = i
  j = j
  k = k
  Link <- MCLink
  Interface <- MCInterface
  CsmaCd <- MCCsmaCd
  Scripts <- MCScripts
  Bandwidth <- MCBandwidth
  Latency <- MCLatency
  Lossy <- MCLossy
  Switched <- MCSwitched
  Delay <- MCDelay
  MaxBuffer <- MCMaxBuffer
  Sizes <- MCSizes
  Addressees <- MCAddressees
  MsPerSecond = 1
  MinFrameSize = 1
  MaxFrameSize = 3
  MaxSends = 2
  TicksPerMs = 2
  MaxLag = 1
  MaxClock = 1
INVARIANTS TypeOK QueuesExact FramesKeepToTheirWay
PROPERTIES ExactInCompactTime KeepsTheLines Drains
CHECK_DEADLOCK FALSE
