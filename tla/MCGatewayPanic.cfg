SPECIFICATION Spec
CONSTANTS
  g = g
  h = h
  router = router
  Gateway <- MCGateway
  Scripts <- BrokenScripts
  Mac <- MCMac
  Macs <- MCMacs
  broadcast = broadcast
  MaxFrames = 2
  Width = 3
  Interfaces <- MCInterfaces
  Rules <- MCRules
  ProxyRules <- MCProxyRules
INVARIANTS NoPanic
CHECK_DEADLOCK FALSE
