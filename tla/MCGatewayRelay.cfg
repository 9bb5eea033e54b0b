SPECIFICATION FairSpec
CONSTANTS
  g = g
  h = h
  router = router
  Gateway <- MCGateway
  Scripts <- WholeScripts
  Mac <- MCMac
  Macs <- MCMacs
  broadcast = broadcast
  MaxFrames = 2
  Width = 3
  Interfaces <- MCInterfaces
  Rules <- MCRules
  ProxyRules <- MCProxyRules
INVARIANTS LongestPrefixDecides RulesAreAlive RouterOutlivesGateways NoEventForTheGone
PROPERTIES EveryListenerServed ShutdownCompletes
CHECK_DEADLOCK FALSE
