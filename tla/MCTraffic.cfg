CONSTANTS
  a = a
  b = b
  d = d
  m1 = m1
  m2 = m2
  n1 = n1
  n2 = n2
  n3 = n3
  Simulator = {a, b}
  MapThread = {m1, m2}
  Node = {n1, n2, n3}
  hostOf <- TwoMaps
  Requests <- TrafficRequests
  Commands = {"sendFrame", "sendBadFrame", "change", "changeBad", "walk"}
  Main = Main
  Nobody = Nobody
SPECIFICATION Spec
INVARIANTS
  TypeOK
  OneSlotEach
  NoRaceWithMain
  NodeOwnedByOne
  NoMessageForgotten
  ObserverUnlocked
PROPERTIES
  ImplementsLease
