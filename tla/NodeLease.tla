----------------------------- MODULE NodeLease -----------------------------
(***************************************************************************)
(* What the server promises its clients about simulated nodes.  A client   *)
(* leases at most one node, a node has at most one lessee, a node changes  *)
(* hands only by being free in between, and the server queues messages for *)
(* a client only while it leases a node or watches a map.                  *)
(***************************************************************************)
CONSTANTS Simulator, Node, Nobody

VARIABLES
  lessee,    \* lessee[n]: the client that has node n, or Nobody
  watching,  \* clients that observe the changes of a map
  mail       \* mail[s]: messages wait for client s

Init ==
  /\ lessee = [n \in Node |-> Nobody]
  /\ watching = {}
  /\ mail = [s \in Simulator |-> FALSE]

Leases(s) == \E n \in Node : lessee[n] = s

Take(s, n) ==
  /\ lessee[n] = Nobody /\ ~Leases(s) /\ s \notin watching
  /\ lessee' = [lessee EXCEPT ![n] = s]
  /\ UNCHANGED <<watching, mail>>

Give(n) ==
  /\ lessee[n] # Nobody
  /\ lessee' = [lessee EXCEPT ![n] = Nobody]
  /\ UNCHANGED <<watching, mail>>

Watch(s) ==
  /\ s \notin watching /\ ~Leases(s)
  /\ watching' = watching \cup {s}
  /\ UNCHANGED <<lessee, mail>>

StopWatching(s) ==
  /\ s \in watching
  /\ watching' = watching \ {s}
  /\ UNCHANGED <<lessee, mail>>

Write(s) ==
  /\ Leases(s) \/ s \in watching
  /\ mail' = [mail EXCEPT ![s] = TRUE]
  /\ UNCHANGED <<lessee, watching>>

Collect(s) ==
  /\ mail' = [mail EXCEPT ![s] = FALSE]
  /\ UNCHANGED <<lessee, watching>>

Next ==
  \/ \E s \in Simulator, n \in Node : Take(s, n)
  \/ \E n \in Node : Give(n)
  \/ \E s \in Simulator : Watch(s) \/ StopWatching(s) \/ Write(s) \/ Collect(s)

Spec == Init /\ [][Next]_<<lessee, watching, mail>>
=============================================================================
