--------------------------------- MODULE Hub ---------------------------------
(***************************************************************************)
(* The WebSocket hub of one process: a map from notification to a map of   *)
(* connections, behind one sync.RWMutex.  Each connection has a goroutine  *)
(* (HandleWebSocket) that subscribes, reads until an error and             *)
(* unsubscribes; workers call Broadcast.                                   *)
(*                                                                         *)
(* Broadcast looks the inner map up under the read lock, releases it, tests *)
(* the map's length without any lock, and takes the read lock again for    *)
(* the writes.  Inner maps are therefore objects of their own here: a      *)
(* broadcast may hold one that is no longer the current one.               *)
(*                                                                         *)
(* Whether websocket.Accept succeeds is left open.  Behind the router's    *)
(* logging middleware it does not, see the README: this module says what   *)
(* the hub does with the connections it is given.                          *)
(***************************************************************************)
EXTENDS Naturals, FiniteSets

CONSTANTS
  Topics,         \* notification ids
  Conns, TopicOf, \* connections, and the id in the URL of each
  Workers,        \* goroutines that broadcast
  MapIds, NoMap   \* inner maps; one that nobody refers to is garbage

ASSUME HubAssumption ==
  /\ TopicOf \in [Conns -> Topics]
  /\ NoMap \notin MapIds

VARIABLES
  subscribers,  \* the outer map
  maps,         \* contents of the inner maps
  readers,      \* the RWMutex: goroutines that hold the read lock
  writer,       \* the RWMutex: the one that called Lock and bars new readers
  conn,         \* progress of every connection's goroutine
  broken,       \* connections on which reads and writes fail
  cast          \* Broadcast calls: map is the local variable conns, todo what
                \* the loop has left; history: audience, tried

vars == <<subscribers, maps, readers, writer, conn, broken, cast>>
registry == <<subscribers, maps>>
mutex == <<readers, writer>>

ConnPC == {"new", "accepted", "subscribing", "open", "leaving", "unsubscribing",
           "closing", "closed"}
CastPC == {"idle", "look", "len", "relock", "write"}

IdleCast == [pc |-> "idle", topic |-> {}, map |-> NoMap, todo |-> {},
             audience |-> {}, tried |-> {}]

HubTypeOK ==
  /\ subscribers \in [Topics -> MapIds \cup {NoMap}]
  /\ maps \in [MapIds -> SUBSET Conns]
  /\ readers \subseteq Workers
  /\ writer \subseteq Conns /\ Cardinality(writer) <= 1
  /\ conn \in [Conns -> ConnPC]
  /\ broken \subseteq Conns
  /\ cast \in [Workers -> [pc : CastPC, topic : SUBSET Topics,
                           map : MapIds \cup {NoMap}, todo : SUBSET Conns,
                           audience : SUBSET Conns, tried : SUBSET Conns]]

Init ==
  /\ subscribers = [t \in Topics |-> NoMap]
  /\ maps = [m \in MapIds |-> {}]
  /\ readers = {} /\ writer = {}
  /\ conn = [c \in Conns |-> "new"]
  /\ broken = {}
  /\ cast = [w \in Workers |-> IdleCast]

-----------------------------------------------------------------------------
\* sync.RWMutex

\* Lock: first among the writers, which bars new readers, ...
CallLock(c) == writer = {} /\ writer' = {c} /\ UNCHANGED readers

\* ... then wait for the readers that are in.
HasLock(c) == writer = {c} /\ readers = {}
Unlock == writer' = {} /\ UNCHANGED readers

CanRLock == writer = {}

-----------------------------------------------------------------------------
\* HandleWebSocket

InUse(m) == m \in {subscribers[t] : t \in Topics} \cup {cast[w].map : w \in Workers}

Current(c) == subscribers[TopicOf[c]]

Become(c, pc) == conn' = [conn EXCEPT ![c] = pc]

Accept(c) ==
  /\ conn[c] = "new"
  /\ \E ok \in BOOLEAN : Become(c, IF ok THEN "accepted" ELSE "closed")
  /\ UNCHANGED <<registry, mutex, broken, cast>>

\* A slip for HubTypeOK: subscribe and unsubscribe do not exclude each other.
EnterShared(c) ==
  /\ writer' = writer \cup {c}
  /\ \/ conn[c] = "accepted" /\ Become(c, "subscribing")
     \/ conn[c] = "leaving" /\ Become(c, "unsubscribing")
  /\ UNCHANGED <<registry, readers, broken, cast>>

\* subscribe and unsubscribe call Lock.
Enter(c) ==
  /\ CallLock(c)
  /\ \/ conn[c] = "accepted" /\ Become(c, "subscribing")
     \/ conn[c] = "leaving" /\ Become(c, "unsubscribing")
  /\ UNCHANGED <<registry, broken, cast>>

\* A slip for WatchersAreTold: every subscription starts a new inner map.
SubscribeAfresh(c) ==
  /\ conn[c] = "subscribing" /\ HasLock(c)
  /\ \E m \in MapIds :
       /\ ~InUse(m)
       /\ maps' = [maps EXCEPT ![m] = {c}]
       /\ subscribers' = [subscribers EXCEPT ![TopicOf[c]] = m]
  /\ Unlock /\ Become(c, "open")
  /\ UNCHANGED <<broken, cast>>

Subscribe(c) ==
  /\ conn[c] = "subscribing" /\ HasLock(c)
  /\ IF Current(c) = NoMap
     THEN \E m \in MapIds :
            /\ ~InUse(m)
            /\ maps' = [maps EXCEPT ![m] = {c}]
            /\ subscribers' = [subscribers EXCEPT ![TopicOf[c]] = m]
     ELSE /\ maps' = [maps EXCEPT ![Current(c)] = @ \cup {c}]
          /\ UNCHANGED subscribers
  /\ Unlock /\ Become(c, "open")
  /\ UNCHANGED <<broken, cast>>

\* The client goes away.
HangUp(c) ==
  /\ conn[c] \in {"accepted", "subscribing", "open"} /\ c \notin broken
  /\ broken' = broken \cup {c}
  /\ UNCHANGED <<registry, mutex, conn, cast>>

\* conn.Read fails and the deferred unsubscribe is due.
ReadFails(c) ==
  /\ conn[c] = "open" /\ c \in broken
  /\ Become(c, "leaving")
  /\ UNCHANGED <<registry, mutex, broken, cast>>

\* A slip for RegistryIsExact: the outer entry of an empty map stays.
UnsubscribeKeepsMap(c) ==
  /\ conn[c] = "unsubscribing" /\ HasLock(c)
  /\ maps' = [maps EXCEPT ![Current(c)] = @ \ {c}]
  /\ Become(c, "closing")
  /\ UNCHANGED <<subscribers, mutex, broken, cast>>

Unsubscribe(c) ==
  /\ conn[c] = "unsubscribing" /\ HasLock(c)
  /\ IF Current(c) = NoMap THEN UNCHANGED registry
     ELSE /\ maps' = [maps EXCEPT ![Current(c)] = @ \ {c}]
          /\ subscribers' = [subscribers EXCEPT ![TopicOf[c]] =
                               IF maps[@] \subseteq {c} THEN NoMap ELSE @]
  /\ Become(c, "closing")
  /\ UNCHANGED <<mutex, broken, cast>>

\* A slip for BrokenConnectionsClose: the lock is not released.
CloseLocked(c) ==
  /\ conn[c] = "closing"
  /\ Become(c, "closed")
  /\ UNCHANGED <<registry, mutex, broken, cast>>

\* conn.Close, which waits for the peer with the lock held, and the unlock.
Close(c) ==
  /\ conn[c] = "closing"
  /\ Unlock /\ Become(c, "closed")
  /\ UNCHANGED <<registry, broken, cast>>

-----------------------------------------------------------------------------
\* Broadcast

Watching(t) == {c \in Conns : TopicOf[c] = t /\ conn[c] = "open"}

\* A worker calls Broadcast for notification t.
Broadcast(w, t) ==
  /\ cast[w].pc = "idle"
  /\ cast' = [cast EXCEPT ![w] = [IdleCast EXCEPT !.pc = "look", !.topic = {t},
                                                  !.audience = Watching(t)]]
  /\ UNCHANGED <<registry, mutex, conn, broken>>

\* A slip for BroadcastsReturn: the first read lock is kept.
LookUpKeepsLock(w) ==
  \E t \in cast[w].topic :
    /\ cast[w].pc = "look" /\ CanRLock
    /\ readers' = readers \cup {w}
    /\ cast' = [cast EXCEPT ![w].pc = "len", ![w].map = subscribers[t]]
    /\ UNCHANGED <<registry, writer, conn, broken>>

\* RLock, conns := h.subscribers[notificationID], RUnlock.
LookUp(w) ==
  \E t \in cast[w].topic :
    /\ cast[w].pc = "look" /\ CanRLock
    /\ cast' = [cast EXCEPT ![w].pc = "len", ![w].map = subscribers[t]]
    /\ UNCHANGED <<registry, mutex, conn, broken>>

Return(w) == cast' = [cast EXCEPT ![w].pc = "idle", ![w].map = NoMap, ![w].topic = {}]

\* len(conns), read while others may write it: the length now, or one the map
\* has had since the look-up.  It was not empty then.
Len(w) ==
  /\ cast[w].pc = "len"
  /\ \/ cast[w].map = NoMap /\ Return(w)
     \/ cast[w].map # NoMap /\ maps[cast[w].map] = {} /\ Return(w)
     \/ cast[w].map # NoMap /\ cast' = [cast EXCEPT ![w].pc = "relock"]
  /\ UNCHANGED <<registry, mutex, conn, broken>>

RLock(w) ==
  /\ cast[w].pc = "relock" /\ CanRLock
  /\ readers' = readers \cup {w}
  /\ cast' = [cast EXCEPT ![w].pc = "write", ![w].todo = maps[cast[w].map]]
  /\ UNCHANGED <<registry, writer, conn, broken>>

\* conn.Write: it fails on a broken connection, and one that takes longer than
\* 5 seconds breaks it.
Write(w, c) ==
  /\ cast[w].pc = "write" /\ c \in cast[w].todo
  /\ cast' = [cast EXCEPT ![w].todo = @ \ {c}, ![w].tried = @ \cup {c}]
  /\ broken' \in {broken, broken \cup {c}}
  /\ UNCHANGED <<registry, mutex, conn>>

RUnlock(w) ==
  /\ cast[w].pc = "write" /\ cast[w].todo = {}
  /\ readers' = readers \ {w}
  /\ Return(w)
  /\ UNCHANGED <<registry, writer, conn, broken>>

-----------------------------------------------------------------------------

ConnStep(c) ==
  Enter(c) \/ Subscribe(c) \/ ReadFails(c) \/ Unsubscribe(c) \/ Close(c)

CastStep(w) ==
  LookUp(w) \/ Len(w) \/ RLock(w) \/ (\E c \in Conns : Write(w, c)) \/ RUnlock(w)

Next ==
  \/ \E c \in Conns : Accept(c) \/ HangUp(c) \/ ConnStep(c)
  \/ \E w \in Workers : (\E t \in Topics : Broadcast(w, t)) \/ CastStep(w)

Spec == Init /\ [][Next]_vars

\* Goroutines run on; writes and the closing handshake end within their time
\* limits.  Nobody has to connect, hang up or broadcast.
Fairness ==
  /\ \A c \in Conns : WF_vars(ConnStep(c))
  /\ \A w \in Workers : WF_vars(CastStep(w))

FairSpec == Spec /\ Fairness

-----------------------------------------------------------------------------

Registered(t) ==
  {c \in Conns : TopicOf[c] = t /\ conn[c] \in {"open", "leaving", "unsubscribing"}}

\* The hub knows exactly the connections that have subscribed and not yet
\* unsubscribed, and keeps no entry for a notification nobody watches: no
\* connection that has been closed is ever written to, and nothing leaks.  A
\* map that a broadcast still holds and that is not the current one is empty.
RegistryIsExact ==
  /\ \A t \in Topics :
       IF Registered(t) = {} THEN subscribers[t] = NoMap
       ELSE subscribers[t] # NoMap /\ maps[subscribers[t]] = Registered(t)
  /\ \A w \in Workers : \A t \in cast[w].topic :
       cast[w].map \notin {NoMap, subscribers[t]} => maps[cast[w].map] = {}

\* A client that is subscribed when Broadcast is called and still is when it
\* returns has been written to, although others come and go between the
\* look-up of the map, the unlocked test of its length and the loop.
WatchersAreTold ==
  [][\A w \in Workers :
       cast[w].pc # "idle" /\ cast'[w].pc = "idle" =>
         \A c \in cast[w].audience : conn[c] = "open" => c \in cast[w].tried]_vars

\* Every Broadcast returns: workers are not held up for ever by connections
\* that subscribe, leave or close under the lock.
BroadcastsReturn ==
  \A w \in Workers : cast[w].pc # "idle" ~> cast[w].pc = "idle"

\* A connection whose client is gone is unsubscribed and closed in the end,
\* whatever broadcasts are under way.
BrokenConnectionsClose ==
  \A c \in Conns : c \in broken ~> conn[c] = "closed"

=============================================================================
