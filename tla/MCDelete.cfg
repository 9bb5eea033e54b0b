CONSTANTS
  a = a
  b = b
  d = d
  m1 = m1
  m2 = m2
  n1 = n1
  n2 = n2
  n3 = n3
  Simulator = {a, b, d}
  MapThread = {m1}
  Node = {n1}
  hostOf <- OneMap
  Requests <- DeleteRequests
  Commands = {"sendBadFrame"}
  Main = Main
  Nobody = Nobody
SPECIFICATION Spec
INVARIANTS
  SpinnerCanEnter
  NoSelfDeadlock
  PointersValid
  IInv
CONSTRAINT DeleterStays
