---------------------------- MODULE FrameSharing ----------------------------
(***************************************************************************)
(* How frames are shared (network/*Proxy, ReferenceCounter).  A holder of  *)
(* a frame has a chain of proxies, one for each layer that was analyzed,   *)
(* over implementations that are shared: cloning a frame counts one more   *)
(* reference for each, and a layer is copied when a holder writes while it *)
(* is shared.  Layer 1 has the bytes, the layers above it the fields that  *)
(* were read from them.  A step is what is done under one counter's mutex. *)
(***************************************************************************)
EXTENDS Integers, SequencesExt, FiniteSetsExt

CONSTANTS
  Holder,    \* who may hold a frame
  ThreadOf,  \* the thread of each holder
  Depth,     \* the layers of a frame that is analyzed to its end
  MaxWrites  \* bound: how often a frame or a clone of it is written

ASSUME FrameAssumption == IsFiniteSet(Holder) /\ Depth \in Nat \ {0, 1} /\ MaxWrites \in Nat

VARIABLES
  imps,      \* implementations: [layer, refs, lower, upper, field, bytes]; 0 is no pointer
  chain,     \* the implementations of a holder's proxies, by layer
  task,      \* what a holder writes: [layer, value, at, above], or Idle
  unrefs,    \* implementations that a holder has yet to let go
  expected,  \* history: what a holder's frame has to say
  writes     \* how often the frame or a clone of it was written; the n-th writes n

frameVars == <<imps, chain, task, unrefs, expected, writes>>

Sent == [k \in 1..Depth |-> 0]
Idle == [layer |-> 0, value |-> 0, at |-> 0, above |-> 0]

FramesInit ==
  /\ imps = <<>>
  /\ chain = [h \in Holder |-> <<>>]
  /\ task = [h \in Holder |-> Idle]
  /\ unrefs = [h \in Holder |-> <<>>]
  /\ expected = [h \in Holder |-> Sent]
  /\ writes = 0

Imp == DOMAIN imps
Top(h) == Len(chain[h])
Busy(h) == task[h] # Idle \/ unrefs[h] # <<>>

\* A thread finishes what one of its holders does before the turn of the next.
Turn(h) == \A g \in Holder \ {h} : ThreadOf[g] = ThreadOf[h] => ~Busy(g)
Free(h) == Turn(h) /\ ~Busy(h)

\* The addresses of n new implementations.
Fresh(n) == CHOOSE ids \in [1 .. n -> (1 .. Cardinality(Imp) + n) \ Imp] : IsInjective(ids)

\* An implementation and those under it along the lower pointers, by layer.
Under(i) ==
  LET n == imps[i].layer
      down[k \in 1 .. n] == IF k = n THEN i ELSE imps[down[k + 1]].lower
  IN down
BytesUnder(i) == imps[Under(i)[1]].bytes

\* New implementations at the addresses ids, by layer.
Stack(ids, fields, bytes) ==
  [i \in Range(ids) |->
     LET k == CHOOSE j \in DOMAIN ids : ids[j] = i
     IN [layer |-> k, refs |-> 1, field |-> fields[k],
         lower |-> IF k = 1 THEN 0 ELSE ids[k-1],
         upper |-> IF k = Len(ids) THEN 0 ELSE ids[k+1],
         bytes |-> IF k = 1 THEN bytes ELSE <<>>]]

Beside(new, old) ==
  [i \in DOMAIN new \cup DOMAIN old |-> IF i \in DOMAIN new THEN new[i] ELSE old[i]]

\* The first n layers of a new frame.  Bound: one frame and its clones at a time, others
\* share nothing with it.
NewFrame(h, n) ==
  /\ Free(h) /\ imps = <<>>
  /\ imps' = Stack(Fresh(n), Sent, Sent)
  /\ chain' = [chain EXCEPT ![h] = Fresh(n)]
  /\ expected' = [expected EXCEPT ![h] = Sent]
  /\ writes' = 0
  /\ UNCHANGED <<task, unrefs>>

\* A frame that is read from a wire is analyzed up to its second layer; one that is made
\* here has all.
FrameFromWire(h) == NewFrame(h, 2)
FrameMadeHere(h) == NewFrame(h, Depth)

Referenced(ids, by) == [i \in Imp |-> [imps[i] EXCEPT !.refs = IF i \in Range(ids) THEN @ + by ELSE @]]

\* The proxy of the second layer or of one above it is cloned, with those below, for g.
CloneFrame(h, g) ==
  /\ Free(h) /\ ~Busy(g) /\ chain[h] # <<>> /\ chain[g] = <<>>
  /\ \E k \in 2 .. Top(h) :
       /\ imps' = Referenced(SubSeq(chain[h], 1, k), 1)
       /\ chain' = [chain EXCEPT ![g] = SubSeq(chain[h], 1, k)]
  /\ expected' = [expected EXCEPT ![g] = expected[h]]
  /\ UNCHANGED <<task, unrefs, writes>>

\* The layer above was analyzed by another holder.
ShareUpper(h, i) ==
  /\ imps[i].upper # 0
  /\ imps' = Referenced(<<imps[i].upper>>, 1)
  /\ chain' = [chain EXCEPT ![h] = Append(@, imps[i].upper)]

\* Its fields are read from the bytes.
ReadUpper(h, i) ==
  /\ imps[i].upper = 0
  /\ LET new == Fresh(1)[1]
         read == [layer |-> Top(h) + 1, refs |-> 1, lower |-> i, upper |-> 0,
                  field |-> BytesUnder(i)[Top(h) + 1], bytes |-> <<>>]
     IN /\ imps' = Beside([j \in {new} |-> read], [imps EXCEPT ![i].upper = new])
        /\ chain' = [chain EXCEPT ![h] = Append(@, new)]

Analyze(h) ==
  /\ Free(h) /\ Top(h) \in 1 .. Depth - 1
  /\ LET i == chain[h][Top(h)] IN ShareUpper(h, i) \/ ReadUpper(h, i)
  /\ UNCHANGED <<task, unrefs, expected, writes>>

\* A setter of a proxy of layer k: the frame is detached first, from its top.
Write(h, k) ==
  /\ Free(h) /\ k \in 1 .. Top(h) /\ writes < MaxWrites
  /\ task' = [task EXCEPT ![h] = [layer |-> k, value |-> writes + 1, at |-> Top(h), above |-> 0]]
  /\ writes' = writes + 1
  /\ UNCHANGED <<imps, chain, unrefs, expected>>

\* This layer is shared: it is copied with those below it.
CopyShared(h, k, i) ==
  /\ imps[i].refs > 1
  /\ LET old == Under(i)
         new == Fresh(Len(old))
     IN imps' = Beside(Stack(new, [j \in DOMAIN old |-> imps[old[j]].field], BytesUnder(i)),
                       [imps EXCEPT ![i].refs = @ - 1, ![i].upper = 0])
        /\ chain' = [chain EXCEPT ![h] = new \o SubSeq(@, k + 1, Len(@))]
  /\ unrefs' = [unrefs EXCEPT ![h] = Reverse(SubSeq(chain[h], 1, k - 1))]
  /\ task' = [task EXCEPT ![h].at = 0, ![h].above = IF k < Top(h) THEN k + 1 ELSE 0]

NotShared(h, k, i) ==
  /\ imps[i].refs = 1
  /\ task' = [task EXCEPT ![h].at = k - 1]
  /\ UNCHANGED <<imps, chain, unrefs>>

\* The setters of the proxies: the bytes, the link header, the packets above it.
WriteBytes(h) == Write(h, 1)
WriteLinkHeader(h) == Write(h, 2)
WritePacket(h) == \E k \in 3..Depth : Write(h, k)

\* realDetach at one layer
DetachLayer(h) ==
  /\ Turn(h) /\ unrefs[h] = <<>> /\ task[h].at > 0
  /\ LET k == task[h].at
         i == chain[h][k]
     IN CopyShared(h, k, i) \/ NotShared(h, k, i)
  /\ UNCHANGED <<expected, writes>>

\* The last reference to an implementation is gone.
Deleted(i) ==
  [j \in Imp \ {i} |-> [imps[j] EXCEPT !.upper = IF j = imps[i].lower THEN 0 ELSE @]]

LetGo(h) ==
  /\ Turn(h) /\ unrefs[h] # <<>>
  /\ LET i == Head(unrefs[h])
     IN imps' = IF imps[i].refs = 1 THEN Deleted(i) ELSE Referenced(<<i>>, -1)
  /\ unrefs' = [unrefs EXCEPT ![h] = Tail(@)]
  /\ UNCHANGED <<chain, task, expected, writes>>

\* Fault: the layer above still points to the layer that was shared.
NotRelinked(h) == imps

\* setLowerLayerFrame: the layer above the copies now stands on them.
Relinked(h) ==
  IF task[h].above = 0 THEN imps
  ELSE LET i == chain[h][task[h].above]
           below == chain[h][task[h].above - 1]
       IN [imps EXCEPT ![i].lower = below, ![below].upper = i]

Relink(h) ==
  /\ Turn(h) /\ unrefs[h] = <<>> /\ task[h] # Idle /\ task[h].at = 0
  /\ imps' = Relinked(h)
  /\ task' = [task EXCEPT ![h].at = -1]
  /\ UNCHANGED <<chain, unrefs, expected, writes>>

\* The field is set, and populated to the bytes along the lower pointers.
SetField(h) ==
  /\ Turn(h) /\ task[h].at = -1
  /\ LET i == chain[h][task[h].layer]
     IN imps' = [imps EXCEPT ![i].field = task[h].value,
                             ![Under(i)[1]].bytes = [@ EXCEPT ![task[h].layer] = task[h].value]]
  /\ expected' = [expected EXCEPT ![h][task[h].layer] = task[h].value]
  /\ task' = [task EXCEPT ![h] = Idle]
  /\ UNCHANGED <<chain, unrefs, writes>>

\* The frame is let go, its top layer first.
Finalize(h) ==
  /\ Free(h) /\ chain[h] # <<>>
  /\ unrefs' = [unrefs EXCEPT ![h] = Reverse(chain[h])]
  /\ chain' = [chain EXCEPT ![h] = <<>>]
  /\ expected' = [expected EXCEPT ![h] = Sent]
  /\ UNCHANGED <<imps, task, writes>>

FrameStep(h) ==
  \/ FrameFromWire(h) \/ FrameMadeHere(h) \/ Analyze(h) \/ Finalize(h)
  \/ \E g \in Holder \ {h} : CloneFrame(h, g)
  \/ WriteBytes(h) \/ WriteLinkHeader(h) \/ WritePacket(h)
  \/ DetachLayer(h) \/ LetGo(h) \/ Relink(h) \/ SetField(h)

FramesNext == \E h \in Holder : FrameStep(h)

FramesSpec == FramesInit /\ [][FramesNext]_frameVars
-----------------------------------------------------------------------------
\* `Just copy on write': a holder reads of its frame, in the fields of every layer and in
\* the bytes, what was there when it got it and what it wrote itself, whatever the other
\* holders of the same implementations write.
FramesIsolated ==
  \A h \in Holder : chain[h] # <<>> /\ ~Busy(h) =>
    /\ imps[chain[h][1]].bytes = expected[h]
    /\ \A k \in 1 .. Top(h) : imps[chain[h][k]].field = expected[h][k]

\* An implementation is counted once for every frame that has it and for every reference
\* about to be given back, so that it lives as long as one of them and no longer.
CountsExact ==
  \A i \in Imp :
    imps[i].refs = Cardinality({h \in Holder : Contains(chain[h], i)})
                     + Cardinality({h \in Holder : Contains(unrefs[h], i)})

\* Both: a copy is made when, and only when, somebody else still has the implementation.
FramesShared == FramesIsolated /\ CountsExact
=============================================================================
