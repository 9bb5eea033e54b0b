SPECIFICATION Spec
CONSTANTS
  Width = 3
  Interfaces <- MCInterfaces
  Rules <- MCRules
  ProxyRules <- MCProxyRules
  StaticArp <- MCStaticArp
  Room <- MCRoom
  Packets <- MCPackets
  ArpPackets <- MCArpPackets
  WaitingTime = 1
  LifeTime = 1
  MaxAttempts = 2
  ErrorSize = 1
  IsRouter = TRUE
  MaxPackets = 1
  MaxArps = 0
  TicksPerMs = 1
  MaxLag = 1
  MaxClock = 3
INVARIANTS WaitingFramesAreWatched
CHECK_DEADLOCK FALSE
