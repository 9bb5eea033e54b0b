------------------------- MODULE BitTorrentTracker -------------------------
(***************************************************************************)
(* plugin/BitTorrentTracker: peers tell which torrents they download and   *)
(* ask who else does.  A peer is forgotten some time after its last        *)
(* message.  All peers are in one queue, and one event is scheduled at a   *)
(* time, for the peer at its head; a peer that was heard of again is moved *)
(* to the end only when the check finds it at the head.                    *)
(***************************************************************************)
EXTENDS EventScheduler, SequencesExt, FiniteSetsExt

CONSTANTS
  Torrent, PeerId,
  ExpireTime,      \* peerExpireTime, in milli-seconds
  MaxMessages      \* bound: messages that arrive

ASSUME ExpireAssumption == ExpireTime \in Nat

VARIABLES
  torrents,        \* the torrents that have a hash of peers
  peers,           \* by <<torrent, id>>: [updated, pushedBack]
  clockQueue,      \* peerClockQueue
  checkScheduled,  \* checkEventScheduled
  peerList,        \* the last list sent: [to, torrent, ids]
  messages,        \* how many messages have arrived
  crashed          \* a null pointer was followed

trackerVars == <<torrents, peers, clockQueue, checkScheduled, peerList, messages, crashed>>

NoList == [to |-> 0, torrent |-> 0, ids |-> <<>>]

TrackerInit ==
  /\ torrents = {} /\ peers = <<>> /\ clockQueue = <<>>
  /\ checkScheduled = FALSE
  /\ peerList = NoList
  /\ messages = 0 /\ crashed = FALSE

Known == DOMAIN peers
Checker == <<"checkForExpiredPeers", 0>>
Check(ms) == <<[who |-> Checker, ms |-> ms, wanted |-> TRUE]>>

\* Fault: a peer that is known already is put into the queue again.
QueuedAgain(key) == Append(clockQueue, key)

Queued(key) == IF key \in Known THEN clockQueue ELSE Append(clockQueue, key)

\* A known peer keeps its address and its place, and is marked.
Heard(key, now) ==
  [k \in Known \cup {key} |-> IF k = key THEN [updated |-> now, pushedBack |-> key \notin Known]
                                       ELSE peers[k]]

Downloading(torrent, id, lag) ==
  LET key == <<torrent, id>>
  IN /\ torrents' = torrents \cup {torrent}
     /\ peers' = Heard(key, (clock + lag) \div TicksPerMs)
     /\ clockQueue' = Queued(key)
     /\ checkScheduled' = TRUE
     /\ Register(lag, IF checkScheduled THEN <<>> ELSE Check(ExpireTime))
     /\ UNCHANGED <<peerList, crashed>>

Others(torrent, id) == {key[2] : key \in {k \in Known : k[1] = torrent /\ k[2] # id}}

\* Some of the others, at random, by their ids; a torrent nobody downloads has no hash.
RequestPeers(torrent, id, wanted) ==
  /\ IF torrent \in torrents
     THEN /\ \E ids \in SUBSET Others(torrent, id) :
               /\ Cardinality(ids) = Min({wanted, Cardinality(Others(torrent, id))})
               /\ peerList' = [to |-> id, torrent |-> torrent, ids |-> SetToSortSeq(ids, <)]
          /\ UNCHANGED crashed
     ELSE crashed' = TRUE /\ UNCHANGED peerList
  /\ Register(0, <<>>)
  /\ UNCHANGED <<torrents, peers, clockQueue, checkScheduled>>

\* processReceivedPacket, for a packet with a good checksum for the listening port
MessageArrives ==
  /\ messages < MaxMessages /\ ~crashed
  /\ messages' = messages + 1
  /\ \E torrent \in Torrent, id \in PeerId :
       \/ \E lag \in Lags : Downloading(torrent, id, lag)
       \/ \E wanted \in 0 .. Cardinality(PeerId) : RequestPeers(torrent, id, wanted)

Expired(key, now) == now - peers[key].updated >= ExpireTime

\* Where the check stops: at a peer that is neither expired nor to be moved.
Settled(now) ==
  {k \in DOMAIN clockQueue : ~Expired(clockQueue[k], now) /\ peers[clockQueue[k]].pushedBack}
Visited(now) == IF Settled(now) = {} THEN Len(clockQueue) ELSE Min(Settled(now)) - 1

\* Expired peers leave; those heard of again go behind the others, in their order.
Moved(now) ==
  LET kept[n \in 0..Visited(now)] ==
        IF n = 0 THEN <<>>
        ELSE IF Expired(clockQueue[n], now) THEN kept[n - 1]
        ELSE Append(kept[n - 1], clockQueue[n])
  IN  kept[Visited(now)]
Rotated(now) == SubSeq(clockQueue, Visited(now) + 1, Len(clockQueue)) \o Moved(now)

Remaining(key, now) == ExpireTime - (now - peers[key].updated)

NextCheck(queue, now) == IF queue = <<>> THEN <<>> ELSE Check(Remaining(Head(queue), now))

CheckForExpiredPeers ==
  /\ events # {} /\ First.who = Checker /\ ~crashed
  /\ \E lag \in Lags :
       LET now == (HandlerClock + lag) \div TicksPerMs
       IN /\ clockQueue' = Rotated(now)
          /\ peers' = [key \in Range(Rotated(now)) |->
                         [peers[key] EXCEPT !.pushedBack = @ \/ Contains(Moved(now), key)]]
          /\ checkScheduled' = (Rotated(now) # <<>>)
          /\ ProcessNext(lag, NextCheck(Rotated(now), now))
  /\ UNCHANGED <<torrents, peerList, messages, crashed>>

\* A compact clock also moves with the events of the rest of the map.
OtherEvents ==
  /\ ~realtime /\ clock < MaxClock
  /\ events # {} => clock < First.due
  /\ clock' = clock + 1
  /\ UNCHANGED <<realtime, events, timers, registered>>

TrackerNext ==
  \/ MessageArrives \/ CheckForExpiredPeers
  \/ (OtherEvents \/ Tick) /\ UNCHANGED trackerVars

TrackerSpec == SchedulerInit /\ TrackerInit /\ [][TrackerNext]_<<schedulerVars, trackerVars>>
-----------------------------------------------------------------------------
\* The hash and the queue hold the same peers, each once, and a check is scheduled exactly
\* while there is one: no peer is kept for ever, or freed while the queue still has it.
PeersQueuedOnce ==
  /\ Range(clockQueue) = Known /\ Len(clockQueue) = Cardinality(Known)
  /\ checkScheduled = (clockQueue # <<>>)
  /\ Cardinality({e \in events : e.who = Checker}) = IF checkScheduled THEN 1 ELSE 0

\* A silent peer is forgotten within two periods, although it is looked at only at the
\* head of the queue and may be moved behind peers that came later.
PeersExpireInTime ==
  ~realtime => \A key \in Known : CurrentMs - peers[key].updated <= 2 * ExpireTime

\* Both: every peer that announces itself is kept as long as it does, and not much longer.
PeersKept == PeersQueuedOnce /\ PeersExpireInTime
=============================================================================
