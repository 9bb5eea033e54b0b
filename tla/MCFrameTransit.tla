--------------------------- MODULE MCFrameTransit ---------------------------
(***************************************************************************)
(* Five small maps: a CSMA/CD link with three interfaces; an 802.3 link    *)
(* with two, and with a third that is refused; an interface on two links;  *)
(* links bridged in a circle; 802.3 links in a chain.                      *)
(***************************************************************************)
EXTENDS FrameTransit

CONSTANTS c, p, r, i, j, k

MCLink == {c, p, r}
MCInterface == {i, j, k}
MCCsmaCd == {c}

MCScripts == {
  <<PlugStep(c, i), PlugStep(c, j), PlugStep(c, k)>>,
  <<PlugStep(p, i), PlugStep(p, j), PlugStep(p, k)>>,
  <<PlugStep(c, i), PlugStep(p, i), PlugStep(p, j), PlugStep(c, k)>>,
  <<BridgeStep(c, p, TRUE), BridgeStep(p, r, TRUE), BridgeStep(c, r, TRUE), PlugStep(c, i), PlugStep(c, j)>>,
  <<BridgeStep(p, r, TRUE), PlugStep(r, i), PlugStep(p, j), BridgeStep(r, c, FALSE), PlugStep(c, k)>> }

MCBandwidth == [l \in MCLink |-> 2]
MCLatency == [l \in MCLink |-> IF l = r THEN 0 ELSE 2]
MCLossy == {p}
MCSwitched == {p}
MCDelay == [n \in MCInterface |-> IF n = j THEN 1 ELSE 0]
MCMaxBuffer == [n \in MCInterface |-> 4]
MCSizes == {1, 3}
MCAddressees == {MCInterface}
=============================================================================
