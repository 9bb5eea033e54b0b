---------------------------- MODULE MCServerCore ----------------------------
(* Small instances of ServerCore.                                          *)
EXTENDS ServerInvariant

CONSTANTS a, b, d, m1, m2, n1, n2, n3

Req(kinds, maps) == [kind : kinds, map : maps]

\* Two maps, one with two nodes: a creates the first; b creates the second, or
\* joins or observes the first.
TwoMaps == [n \in Node |-> IF n = n3 THEN m2 ELSE m1]
TrafficRequests ==
  [s \in Simulator |->
     IF s = a THEN Req({"create"}, {m1})
              ELSE Req({"create"}, {m2}) \cup Req({"connect", "observe"}, {m1})]

\* One map: a creates it, b joins it and d deletes it.
OneMap == [n \in Node |-> m1]
DeleteRequests == [s \in Simulator |->
                     CASE s = a -> Req({"create"}, {m1})
                       [] s = b -> Req({"connect"}, {m1})
                       [] s = d -> Req({"delete"}, {m1})]
\* Bound: the client that deletes the map stays for the answer.
DeleterStays == ~gone[d]

\* Bound: clients stay connected and no request is malformed.
ClientsStay == \A s \in Simulator : ~gone[s] /\ (comm[s] = "Disconnected" => s = d)
=============================================================================
