------------------------------ MODULE HubProofs ------------------------------
(***************************************************************************)
(* Theorems about the hub, for any number of connections, topics and       *)
(* broadcasting goroutines.                                                *)
(*                                                                         *)
(* RegistryIsExact and WatchersAreTold are about what a broadcast does with *)
(* a map it looked up before it released the lock.  What makes them        *)
(* inductive is who holds the mutex where (LockOK), that a map which is    *)
(* not the current one of its topic is empty and has not been handed out   *)
(* again (HeldMapOK), and how far a broadcast has got with the connections *)
(* that were open when it was called (AudienceOK).                         *)
(***************************************************************************)
EXTENDS Hub, TLAPS, FiniteSetTheorems

\* subscribe and unsubscribe are between Lock and Unlock.
Inside == {"subscribing", "unsubscribing", "closing"}

\* subscribe is done and unsubscribe is not.
Listed == {"open", "leaving", "unsubscribing"}

Casts == [pc : CastPC, topic : SUBSET Topics, map : MapIds \cup {NoMap},
          todo : SUBSET Conns, audience : SUBSET Conns, tried : SUBSET Conns]

TypeOK ==
  /\ subscribers \in [Topics -> MapIds \cup {NoMap}]
  /\ maps \in [MapIds -> SUBSET Conns]
  /\ readers \subseteq Workers
  /\ writer \subseteq Conns
  /\ conn \in [Conns -> ConnPC]
  /\ broken \subseteq Conns
  /\ cast \in [Workers -> Casts]

\* The mutex: one writer, which is the connection that is between Lock and
\* Unlock; the readers are the broadcasts in their loop.
LockOK ==
  /\ \A c \in Conns : c \in writer <=> conn[c] \in Inside
  /\ \A c, d \in writer : c = d
  /\ \A w \in Workers : w \in readers <=> cast[w].pc = "write"

\* The outer map has an entry for a topic exactly when a connection is listed
\* under it, and the inner map holds those connections.
EntryOK(t) ==
  /\ \A c \in Conns : TopicOf[c] = t /\ conn[c] \in Listed => subscribers[t] # NoMap
  /\ subscribers[t] # NoMap => /\ maps[subscribers[t]] = Registered(t)
                               /\ Registered(t) # {}

\* The local variables of a broadcast at every point.
FrameOK(w) ==
  /\ cast[w].pc = "idle" => cast[w].topic = {}
  /\ cast[w].pc # "idle" => \E t \in Topics : cast[w].topic = {t}
  /\ cast[w].pc \in {"idle", "look"} => cast[w].map = NoMap
  /\ cast[w].pc \in {"relock", "write"} => cast[w].map # NoMap

\* The map a broadcast holds is the current one of its topic, or it is empty
\* and no topic has it.
HeldMapOK(w) ==
  cast[w].map # NoMap =>
    \/ \E t \in cast[w].topic : cast[w].map = subscribers[t]
    \/ maps[cast[w].map] = {} /\ \A t \in Topics : subscribers[t] # cast[w].map

\* The connections that were open when Broadcast was called.
AudienceOK(w) ==
  cast[w].pc # "idle" =>
    \A c \in cast[w].audience :
      /\ TopicOf[c] \in cast[w].topic
      /\ conn[c] \notin {"new", "accepted", "subscribing"}
      /\ cast[w].pc # "look" /\ conn[c] \in Listed => cast[w].map = subscribers[TopicOf[c]]
      /\ cast[w].pc = "write" /\ conn[c] = "open" => c \in cast[w].todo \cup cast[w].tried

HubInv ==
  /\ TypeOK
  /\ LockOK
  /\ \A t \in Topics : EntryOK(t)
  /\ \A w \in Workers : FrameOK(w) /\ HeldMapOK(w) /\ AudienceOK(w)

-----------------------------------------------------------------------------

\* Two topics never share an inner map.
LEMMA MapsAreApart ==
  ASSUME TypeOK, NEW t \in Topics, NEW u \in Topics, EntryOK(t), EntryOK(u),
         subscribers[t] = subscribers[u], subscribers[t] # NoMap
  PROVE  t = u
<1>1. Registered(t) = Registered(u) /\ Registered(t) # {}
  BY DEF EntryOK
<1> QED
  BY <1>1 DEF Registered

\* A broadcast that goes on from r keeps its type.
LEMMA CastTyped ==
  ASSUME NEW b \in Workers, NEW r \in Casts, cast \in [Workers -> Casts],
         cast' = [cast EXCEPT ![b] = r]
  PROVE  cast' \in [Workers -> Casts]
OBVIOUS

LEMMA AcceptInv ==
  ASSUME HubInv, NEW c \in Conns, Accept(c)
  PROVE  HubInv'
<1> USE DEF HubInv, registry, mutex, Become
<1>1. TypeOK'
  BY HubAssumption DEF Accept, TypeOK, ConnPC, CastPC, IdleCast, Casts
<1>2. LockOK'
  BY HubAssumption DEF Accept, TypeOK, Casts, LockOK, Inside
<1>3. \A t \in Topics : EntryOK(t)'
  BY HubAssumption DEF Accept, TypeOK, EntryOK, Registered, Listed
<1>4. \A w \in Workers : FrameOK(w)'
  BY HubAssumption DEF Accept, TypeOK, Casts, FrameOK
<1>5. \A w \in Workers : HeldMapOK(w)'
  BY HubAssumption DEF Accept, TypeOK, Casts, HeldMapOK, FrameOK
<1>6. \A w \in Workers : AudienceOK(w)'
  BY HubAssumption DEF Accept, TypeOK, Casts, AudienceOK, FrameOK, Listed
<1> QED
  BY <1>1, <1>2, <1>3, <1>4, <1>5, <1>6

LEMMA HangUpInv ==
  ASSUME HubInv, NEW c \in Conns, HangUp(c)
  PROVE  HubInv'
<1> USE DEF HubInv, registry, mutex, Become
<1>1. TypeOK'
  BY HubAssumption DEF HangUp, TypeOK, ConnPC, CastPC, IdleCast, Casts
<1>2. LockOK'
  BY HubAssumption DEF HangUp, TypeOK, Casts, LockOK, Inside
<1>3. \A t \in Topics : EntryOK(t)'
  BY HubAssumption DEF HangUp, TypeOK, EntryOK, Registered, Listed
<1>4. \A w \in Workers : FrameOK(w)'
  BY HubAssumption DEF HangUp, TypeOK, Casts, FrameOK
<1>5. \A w \in Workers : HeldMapOK(w)'
  BY HubAssumption DEF HangUp, TypeOK, Casts, HeldMapOK, FrameOK
<1>6. \A w \in Workers : AudienceOK(w)'
  BY HubAssumption DEF HangUp, TypeOK, Casts, AudienceOK, FrameOK, Listed
<1> QED
  BY <1>1, <1>2, <1>3, <1>4, <1>5, <1>6

LEMMA EnterInv ==
  ASSUME HubInv, NEW c \in Conns, Enter(c)
  PROVE  HubInv'
<1> USE DEF HubInv, registry, mutex, Become
<1>1. TypeOK'
  BY HubAssumption DEF Enter, CallLock, TypeOK, ConnPC, CastPC, IdleCast, Casts
<1>2. LockOK'
  BY HubAssumption DEF Enter, CallLock, TypeOK, Casts, LockOK, Inside
<1>3. \A t \in Topics : EntryOK(t)'
  BY HubAssumption DEF Enter, CallLock, TypeOK, EntryOK, Registered, Listed
<1>4. \A w \in Workers : FrameOK(w)'
  BY HubAssumption DEF Enter, CallLock, TypeOK, Casts, FrameOK
<1>5. \A w \in Workers : HeldMapOK(w)'
  BY HubAssumption DEF Enter, CallLock, TypeOK, Casts, HeldMapOK, FrameOK
<1>6. \A w \in Workers : AudienceOK(w)'
  BY HubAssumption DEF Enter, CallLock, TypeOK, Casts, AudienceOK, FrameOK, Listed
<1> QED
  BY <1>1, <1>2, <1>3, <1>4, <1>5, <1>6

LEMMA SubscribeInv ==
  ASSUME HubInv, NEW c \in Conns, Subscribe(c)
  PROVE  HubInv'
<1> USE DEF HubInv, registry, mutex, Become
<1>1. TypeOK'
  BY HubAssumption DEF Subscribe, HasLock, Unlock, Current, TypeOK, ConnPC, CastPC, IdleCast, Casts
<1>2. LockOK'
  BY HubAssumption DEF Subscribe, HasLock, Unlock, Current, TypeOK, Casts, LockOK, Inside
<1>3. \A t \in Topics : EntryOK(t)'
  <2> DEFINE T == TopicOf[c]
  <2>0. T \in Topics
    BY HubAssumption
  <2>1. \A t \in Topics : t # T => Registered(t)' = Registered(t)
    BY DEF Subscribe, TypeOK, Registered
  <2>2. CASE Current(c) = NoMap
    <3>1. PICK m \in MapIds : /\ ~InUse(m)
                              /\ maps' = [maps EXCEPT ![m] = {c}]
                              /\ subscribers' = [subscribers EXCEPT ![T] = m]
      BY <2>2 DEF Subscribe
    <3>2. Registered(T)' = {c}
      BY <2>0, <2>2 DEF Subscribe, TypeOK, Registered, Current, EntryOK, Listed
    <3>3. \A t \in Topics : subscribers[t] # m
      BY <3>1 DEF InUse
    <3> QED
      BY <2>0, <2>1, <3>1, <3>2, <3>3, HubAssumption DEF Subscribe, TypeOK, EntryOK, Registered, Listed
  <2>3. CASE Current(c) # NoMap
    <3>1. /\ maps' = [maps EXCEPT ![Current(c)] = @ \cup {c}]
          /\ subscribers' = subscribers
      BY <2>3 DEF Subscribe
    <3>2. Registered(T)' = Registered(T) \cup {c}
      BY <2>0 DEF Subscribe, TypeOK, Registered
    <3>3. \A t \in Topics : t # T => subscribers[t] # Current(c)
      BY <2>0, <2>3, MapsAreApart DEF Current
    <3>4. EntryOK(T)'
      BY <2>0, <2>3, <3>1, <3>2 DEF TypeOK, EntryOK, Current
    <3> QED
      BY <2>1, <3>1, <3>3, <3>4 DEF Subscribe, TypeOK, EntryOK, Listed, Registered
  <2> QED
    BY <2>2, <2>3
<1>4. \A w \in Workers : FrameOK(w)'
  BY HubAssumption DEF Subscribe, HasLock, Unlock, Current, TypeOK, Casts, FrameOK
<1>5. \A w \in Workers : HeldMapOK(w)'
  <2>1. CASE Current(c) = NoMap
    <3>1. PICK m \in MapIds : /\ ~InUse(m)
                              /\ maps' = [maps EXCEPT ![m] = {c}]
                              /\ subscribers' = [subscribers EXCEPT ![TopicOf[c]] = m]
      BY <2>1 DEF Subscribe
    <3>2. \A w \in Workers : cast[w].map # m
      BY <3>1 DEF InUse
    <3> QED
      BY <2>1, <3>1, <3>2, HubAssumption DEF Subscribe, Current, TypeOK, Casts, HeldMapOK, FrameOK
  <2>2. CASE Current(c) # NoMap
    BY <2>2, HubAssumption DEF Subscribe, Current, TypeOK, Casts, HeldMapOK
  <2> QED
    BY <2>1, <2>2
<1>6. \A w \in Workers : AudienceOK(w)'
  <2> SUFFICES ASSUME NEW w \in Workers, cast[w].pc # "idle", NEW x \in cast[w].audience
               PROVE  AudienceOK(w)!2!(x)'
    BY DEF Subscribe, AudienceOK
  <2>1. x \in Conns /\ x # c /\ TopicOf[x] \in Topics
    BY HubAssumption DEF Subscribe, TypeOK, Casts, AudienceOK
  <2>2. conn'[x] = conn[x]
    BY <2>1 DEF Subscribe, TypeOK
  <2>3. conn[x] \in Listed => subscribers'[TopicOf[x]] = subscribers[TopicOf[x]]
    <3>1. conn[x] \in Listed => subscribers[TopicOf[x]] # NoMap
      BY <2>1 DEF EntryOK
    <3> QED
      BY <2>1, <3>1, HubAssumption DEF Subscribe, Current, TypeOK
  <2> QED
    BY <2>2, <2>3 DEF Subscribe, AudienceOK
<1> QED
  BY <1>1, <1>2, <1>3, <1>4, <1>5, <1>6

LEMMA ReadFailsInv ==
  ASSUME HubInv, NEW c \in Conns, ReadFails(c)
  PROVE  HubInv'
<1> USE DEF HubInv, registry, mutex, Become
<1>1. TypeOK'
  BY HubAssumption DEF ReadFails, TypeOK, ConnPC, CastPC, IdleCast, Casts
<1>2. LockOK'
  BY HubAssumption DEF ReadFails, TypeOK, Casts, LockOK, Inside
<1>3. \A t \in Topics : EntryOK(t)'
  BY HubAssumption DEF ReadFails, TypeOK, EntryOK, Registered, Listed
<1>4. \A w \in Workers : FrameOK(w)'
  BY HubAssumption DEF ReadFails, TypeOK, Casts, FrameOK
<1>5. \A w \in Workers : HeldMapOK(w)'
  BY HubAssumption DEF ReadFails, TypeOK, Casts, HeldMapOK, FrameOK
<1>6. \A w \in Workers : AudienceOK(w)'
  BY HubAssumption DEF ReadFails, TypeOK, Casts, AudienceOK, FrameOK, Listed
<1> QED
  BY <1>1, <1>2, <1>3, <1>4, <1>5, <1>6

LEMMA UnsubscribeInv ==
  ASSUME HubInv, NEW c \in Conns, Unsubscribe(c)
  PROVE  HubInv'
<1> USE DEF HubInv, registry, mutex, Become
<1>1. TypeOK'
  BY HubAssumption DEF Unsubscribe, HasLock, Current, TypeOK, ConnPC, CastPC, IdleCast, Casts
<1>2. LockOK'
  BY HubAssumption DEF Unsubscribe, HasLock, Current, TypeOK, Casts, LockOK, Inside
<1>3. \A t \in Topics : EntryOK(t)'
  BY HubAssumption DEF Unsubscribe, HasLock, Current, TypeOK, EntryOK, Registered, Listed
<1>4. \A w \in Workers : FrameOK(w)'
  BY HubAssumption DEF Unsubscribe, HasLock, Current, TypeOK, Casts, FrameOK
<1>5. \A w \in Workers : HeldMapOK(w)'
  <2> SUFFICES ASSUME NEW w \in Workers, cast[w].map # NoMap, Current(c) # NoMap
               PROVE  HeldMapOK(w)'
    BY DEF Unsubscribe, HeldMapOK, Current
  <2>1. /\ maps' = [maps EXCEPT ![Current(c)] = @ \ {c}]
        /\ TopicOf[c] \in Topics
        /\ \/ subscribers' = subscribers
           \/ /\ maps[Current(c)] \subseteq {c}
              /\ subscribers' = [subscribers EXCEPT ![TopicOf[c]] = NoMap]
    BY HubAssumption DEF Unsubscribe, Current, TypeOK
  <2>2. \A t \in Topics : t # TopicOf[c] => subscribers[t] # Current(c)
    BY <2>1, MapsAreApart DEF Current
  <2>3. \A m \in MapIds : maps'[m] \subseteq maps[m]
    BY <2>1 DEF TypeOK
  <2>4. CASE cast[w].map = Current(c)
    BY <2>1, <2>2, <2>4, HubAssumption DEF Unsubscribe, TypeOK, Casts, HeldMapOK, Current
  <2>5. CASE cast[w].map # Current(c)
    BY <2>1, <2>3, <2>5, HubAssumption DEF Unsubscribe, TypeOK, Casts, HeldMapOK, Current
  <2> QED
    BY <2>4, <2>5
<1>6. \A w \in Workers : AudienceOK(w)'
  <2> SUFFICES ASSUME NEW w \in Workers, cast[w].pc # "idle", NEW x \in cast[w].audience
               PROVE  AudienceOK(w)!2!(x)'
    BY DEF Unsubscribe, AudienceOK
  <2>1. x \in Conns /\ TopicOf[x] \in Topics
    BY HubAssumption DEF TypeOK, Casts
  <2>2. x # c => conn'[x] = conn[x]
    BY <2>1 DEF Unsubscribe, TypeOK
  <2>3. x = c => conn'[x] = "closing"
    BY <2>1 DEF Unsubscribe, TypeOK
  <2>4. conn[x] \in Listed /\ x # c => subscribers'[TopicOf[x]] = subscribers[TopicOf[x]]
    <3>1. conn[x] \in Listed => x \in maps[subscribers[TopicOf[x]]]
      BY <2>1 DEF EntryOK, Registered, Listed
    <3> QED
      BY <2>1, <3>1, HubAssumption DEF Unsubscribe, Current, TypeOK
  <2> QED
    BY <2>2, <2>3, <2>4 DEF Unsubscribe, AudienceOK, Listed
<1> QED
  BY <1>1, <1>2, <1>3, <1>4, <1>5, <1>6

LEMMA CloseInv ==
  ASSUME HubInv, NEW c \in Conns, Close(c)
  PROVE  HubInv'
<1> USE DEF HubInv, registry, mutex, Become
<1>1. TypeOK'
  BY HubAssumption DEF Close, Unlock, TypeOK, ConnPC, CastPC, IdleCast, Casts
<1>2. LockOK'
  BY HubAssumption DEF Close, Unlock, TypeOK, Casts, LockOK, Inside
<1>3. \A t \in Topics : EntryOK(t)'
  BY HubAssumption DEF Close, Unlock, TypeOK, EntryOK, Registered, Listed
<1>4. \A w \in Workers : FrameOK(w)'
  BY HubAssumption DEF Close, Unlock, TypeOK, Casts, FrameOK
<1>5. \A w \in Workers : HeldMapOK(w)'
  BY HubAssumption DEF Close, Unlock, TypeOK, Casts, HeldMapOK, FrameOK
<1>6. \A w \in Workers : AudienceOK(w)'
  BY HubAssumption DEF Close, Unlock, TypeOK, Casts, AudienceOK, FrameOK, Listed
<1> QED
  BY <1>1, <1>2, <1>3, <1>4, <1>5, <1>6

LEMMA BroadcastInv ==
  ASSUME HubInv, NEW b \in Workers, NEW u \in Topics, Broadcast(b, u)
  PROVE  HubInv'
<1> USE DEF HubInv, registry, mutex, Become
<1>1. TypeOK'
  BY HubAssumption DEF Broadcast, IdleCast, Watching, TypeOK, ConnPC, CastPC, IdleCast, Casts
<1>2. LockOK'
  BY HubAssumption DEF Broadcast, IdleCast, Watching, TypeOK, Casts, LockOK, Inside
<1>3. \A t \in Topics : EntryOK(t)'
  BY HubAssumption DEF Broadcast, IdleCast, Watching, TypeOK, EntryOK, Registered, Listed
<1>4. \A w \in Workers : FrameOK(w)'
  BY HubAssumption DEF Broadcast, IdleCast, Watching, TypeOK, Casts, FrameOK
<1>5. \A w \in Workers : HeldMapOK(w)'
  BY HubAssumption DEF Broadcast, IdleCast, Watching, TypeOK, Casts, HeldMapOK, FrameOK
<1>6. \A w \in Workers : AudienceOK(w)'
  BY HubAssumption DEF Broadcast, IdleCast, Watching, TypeOK, Casts, AudienceOK, FrameOK, Listed
<1> QED
  BY <1>1, <1>2, <1>3, <1>4, <1>5, <1>6

LEMMA LookUpInv ==
  ASSUME HubInv, NEW b \in Workers, LookUp(b)
  PROVE  HubInv'
<1> USE DEF HubInv, registry, mutex, Become
<1>1. TypeOK'
  <2>1. PICK t \in cast[b].topic : cast' = [cast EXCEPT ![b].pc = "len", ![b].map = subscribers[t]]
    BY DEF LookUp
  <2> DEFINE r == [cast[b] EXCEPT !.pc = "len", !.map = subscribers[t]]
  <2>2. r \in Casts
    BY DEF TypeOK, Casts, CastPC
  <2>3. cast' = [cast EXCEPT ![b] = r]
    BY <2>1
  <2> QED
    BY <2>2, <2>3, CastTyped DEF LookUp, TypeOK
<1>2. LockOK'
  BY HubAssumption DEF LookUp, CanRLock, TypeOK, Casts, LockOK, Inside
<1>3. \A t \in Topics : EntryOK(t)'
  BY HubAssumption DEF LookUp, CanRLock, TypeOK, EntryOK, Registered, Listed
<1>4. \A w \in Workers : FrameOK(w)'
  BY HubAssumption DEF LookUp, CanRLock, TypeOK, Casts, FrameOK
<1>5. \A w \in Workers : HeldMapOK(w)'
  BY HubAssumption DEF LookUp, CanRLock, TypeOK, Casts, HeldMapOK, FrameOK
<1>6. \A w \in Workers : AudienceOK(w)'
  BY HubAssumption DEF LookUp, CanRLock, TypeOK, Casts, AudienceOK, FrameOK, Listed
<1> QED
  BY <1>1, <1>2, <1>3, <1>4, <1>5, <1>6

LEMMA LenInv ==
  ASSUME HubInv, NEW b \in Workers, Len(b)
  PROVE  HubInv'
<1> USE DEF HubInv, registry, mutex, Become
<1>1. TypeOK'
  BY HubAssumption DEF Len, Return, TypeOK, ConnPC, CastPC, IdleCast, Casts
<1>2. LockOK'
  BY HubAssumption DEF Len, Return, TypeOK, Casts, LockOK, Inside
<1>3. \A t \in Topics : EntryOK(t)'
  BY HubAssumption DEF Len, Return, TypeOK, EntryOK, Registered, Listed
<1>4. \A w \in Workers : FrameOK(w)'
  <2>1. \/ Return(b)
        \/ cast[b].map # NoMap /\ cast' = [cast EXCEPT ![b].pc = "relock"]
    BY DEF Len
  <2>2. CASE Return(b)
    BY <2>2 DEF Return, TypeOK, Casts, FrameOK
  <2>3. CASE cast[b].map # NoMap /\ cast' = [cast EXCEPT ![b].pc = "relock"]
    BY <2>3 DEF Len, TypeOK, Casts, FrameOK
  <2> QED
    BY <2>1, <2>2, <2>3
<1>5. \A w \in Workers : HeldMapOK(w)'
  BY HubAssumption DEF Len, Return, TypeOK, Casts, HeldMapOK, FrameOK
<1>6. \A w \in Workers : AudienceOK(w)'
  BY HubAssumption DEF Len, Return, TypeOK, Casts, AudienceOK, FrameOK, Listed
<1> QED
  BY <1>1, <1>2, <1>3, <1>4, <1>5, <1>6

LEMMA RLockInv ==
  ASSUME HubInv, NEW b \in Workers, RLock(b)
  PROVE  HubInv'
<1> USE DEF HubInv, registry, mutex, Become
<1>1. TypeOK'
  <2>1. [cast[b] EXCEPT !.pc = "write", !.todo = maps[cast[b].map]] \in Casts
    BY DEF RLock, FrameOK, TypeOK, Casts, CastPC
  <2>2. cast' = [cast EXCEPT ![b] = [cast[b] EXCEPT !.pc = "write", !.todo = maps[cast[b].map]]]
    BY DEF RLock, TypeOK
  <2> QED
    BY <2>1, <2>2, CastTyped DEF RLock, TypeOK
<1>2. LockOK'
  BY HubAssumption DEF RLock, CanRLock, TypeOK, Casts, LockOK, Inside
<1>3. \A t \in Topics : EntryOK(t)'
  BY HubAssumption DEF RLock, CanRLock, TypeOK, EntryOK, Registered, Listed
<1>4. \A w \in Workers : FrameOK(w)'
  BY HubAssumption DEF RLock, CanRLock, TypeOK, Casts, FrameOK
<1>5. \A w \in Workers : HeldMapOK(w)'
  BY HubAssumption DEF RLock, CanRLock, TypeOK, Casts, HeldMapOK, FrameOK
<1>6. \A w \in Workers : AudienceOK(w)'
  <2>1. \A x \in cast[b].audience : conn[x] = "open" => x \in maps[cast[b].map]
    <3> SUFFICES ASSUME NEW x \in cast[b].audience, conn[x] = "open"
                 PROVE  x \in maps[cast[b].map]
      OBVIOUS
    <3>1. x \in Conns /\ TopicOf[x] \in Topics /\ cast[b].map = subscribers[TopicOf[x]]
      BY HubAssumption DEF RLock, TypeOK, Casts, AudienceOK, Listed
    <3> QED
      BY <3>1 DEF EntryOK, Registered, Listed
  <2> QED
    BY <2>1 DEF RLock, CanRLock, TypeOK, Casts, AudienceOK, FrameOK, Listed
<1> QED
  BY <1>1, <1>2, <1>3, <1>4, <1>5, <1>6

LEMMA RUnlockInv ==
  ASSUME HubInv, NEW b \in Workers, RUnlock(b)
  PROVE  HubInv'
<1> USE DEF HubInv, registry, mutex, Become
<1>1. TypeOK'
  <2>1. [cast[b] EXCEPT !.pc = "idle", !.map = NoMap, !.topic = {}] \in Casts
    BY DEF TypeOK, Casts, CastPC
  <2>2. cast' = [cast EXCEPT ![b] = [cast[b] EXCEPT !.pc = "idle", !.map = NoMap, !.topic = {}]]
    BY DEF RUnlock, Return, TypeOK
  <2> QED
    BY <2>1, <2>2, CastTyped DEF RUnlock, Return, TypeOK
<1>2. LockOK'
  BY HubAssumption DEF RUnlock, Return, TypeOK, Casts, LockOK, Inside
<1>3. \A t \in Topics : EntryOK(t)'
  BY HubAssumption DEF RUnlock, Return, TypeOK, EntryOK, Registered, Listed
<1>4. \A w \in Workers : FrameOK(w)'
  BY HubAssumption DEF RUnlock, Return, TypeOK, Casts, FrameOK
<1>5. \A w \in Workers : HeldMapOK(w)'
  BY HubAssumption DEF RUnlock, Return, TypeOK, Casts, HeldMapOK, FrameOK
<1>6. \A w \in Workers : AudienceOK(w)'
  BY HubAssumption DEF RUnlock, Return, TypeOK, Casts, AudienceOK, FrameOK, Listed
<1> QED
  BY <1>1, <1>2, <1>3, <1>4, <1>5, <1>6

LEMMA WriteInv ==
  ASSUME HubInv, NEW b \in Workers, NEW d \in Conns, Write(b, d)
  PROVE  HubInv'
<1> USE DEF HubInv, registry, mutex, Become
<1>1. TypeOK'
  <2>1. [cast[b] EXCEPT !.todo = @ \ {d}, !.tried = @ \cup {d}] \in Casts
    BY DEF TypeOK, Casts, CastPC
  <2>2. cast' = [cast EXCEPT ![b] = [cast[b] EXCEPT !.todo = @ \ {d}, !.tried = @ \cup {d}]]
    BY DEF Write, TypeOK
  <2> QED
    BY <2>1, <2>2, CastTyped DEF Write, TypeOK
<1>2. LockOK'
  BY HubAssumption DEF Write, TypeOK, Casts, LockOK, Inside
<1>3. \A t \in Topics : EntryOK(t)'
  BY HubAssumption DEF Write, TypeOK, EntryOK, Registered, Listed
<1>4. \A w \in Workers : FrameOK(w)'
  BY HubAssumption DEF Write, TypeOK, Casts, FrameOK
<1>5. \A w \in Workers : HeldMapOK(w)'
  BY HubAssumption DEF Write, TypeOK, Casts, HeldMapOK, FrameOK
<1>6. \A w \in Workers : AudienceOK(w)'
  BY HubAssumption DEF Write, TypeOK, Casts, AudienceOK, FrameOK, Listed
<1> QED
  BY <1>1, <1>2, <1>3, <1>4, <1>5, <1>6

-----------------------------------------------------------------------------

LEMMA HubInit == Init => HubInv
  BY HubAssumption DEF Init, HubInv, TypeOK, LockOK, EntryOK, FrameOK, HeldMapOK, AudienceOK,
     Registered, Inside, Listed, ConnPC, CastPC, IdleCast, Casts

LEMMA HubNext ==
  ASSUME HubInv, [Next]_vars
  PROVE  HubInv'
<1>1. ASSUME NEW c \in Conns, Accept(c) \/ HangUp(c) \/ ConnStep(c)
      PROVE  HubInv'
  BY <1>1, AcceptInv, HangUpInv, EnterInv, SubscribeInv, ReadFailsInv, UnsubscribeInv, CloseInv
     DEF ConnStep
<1>2. ASSUME NEW w \in Workers, (\E t \in Topics : Broadcast(w, t)) \/ CastStep(w)
      PROVE  HubInv'
  BY <1>2, BroadcastInv, LookUpInv, LenInv, RLockInv, WriteInv, RUnlockInv DEF CastStep
<1>3. CASE UNCHANGED vars
  BY <1>3 DEF vars, HubInv, TypeOK, LockOK, EntryOK, FrameOK, HeldMapOK, AudienceOK, Registered
<1> QED
  BY <1>1, <1>2, <1>3 DEF Next

LEMMA HubSafe == Spec => []HubInv
<1>1. HubInv /\ [Next]_vars => HubInv'
  BY HubNext
<1> QED
  BY HubInit, <1>1, PTL DEF Spec

\* The mutex is held by at most one writer, and every variable keeps its type:
\* subscribe and unsubscribe exclude each other.
THEOREM HubTypeCorrect == Spec => []HubTypeOK
<1>1. HubInv => HubTypeOK
  <2> SUFFICES ASSUME HubInv
               PROVE  HubTypeOK
    OBVIOUS
  <2>1. Cardinality(writer) <= 1
    <3>1. CASE writer = {}
      BY <3>1, FS_EmptySet
    <3>2. CASE writer # {}
      <4>1. PICK c : writer = {c}
        BY <3>2 DEF HubInv, LockOK
      <4> QED
        BY <4>1, FS_Singleton
    <3> QED
      BY <3>1, <3>2
  <2> QED
    BY <2>1 DEF HubInv, TypeOK, HubTypeOK, Casts
<1> QED
  BY <1>1, HubSafe, PTL

\* At every moment the hub knows exactly the connections that have subscribed
\* and not yet unsubscribed, has no entry for a topic nobody watches, and a map
\* that a broadcast still holds after it was dropped is empty.
THEOREM RegistryStaysExact == Spec => []RegistryIsExact
<1>1. HubInv => RegistryIsExact
  <2> SUFFICES ASSUME HubInv
               PROVE  RegistryIsExact
    OBVIOUS
  <2>1. ASSUME NEW t \in Topics
        PROVE  IF Registered(t) = {} THEN subscribers[t] = NoMap
               ELSE subscribers[t] # NoMap /\ maps[subscribers[t]] = Registered(t)
    BY DEF HubInv, EntryOK, Registered, Listed
  <2>2. ASSUME NEW w \in Workers, NEW t \in cast[w].topic,
               cast[w].map \notin {NoMap, subscribers[t]}
        PROVE  maps[cast[w].map] = {}
    <3>1. cast[w].topic = {t}
      BY DEF HubInv, FrameOK
    <3> QED
      BY <2>2, <3>1 DEF HubInv, HeldMapOK
  <2> QED
    BY <2>1, <2>2 DEF RegistryIsExact
<1> QED
  BY <1>1, HubSafe, PTL

\* When Broadcast returns, every client that was subscribed when it was called
\* and still is has been written to, whatever the connections did between the
\* look-up, the unlocked test of the length and the loop.
THEOREM EveryWatcherIsTold == Spec => WatchersAreTold
<1> DEFINE Told(w) ==
      cast[w].pc # "idle" /\ cast'[w].pc = "idle" =>
        \A c \in cast[w].audience : conn[c] = "open" => c \in cast[w].tried
<1>1. ASSUME HubInv, [Next]_vars, NEW w \in Workers
      PROVE  Told(w)
  <2> SUFFICES ASSUME cast[w].pc # "idle", cast'[w].pc = "idle",
                      NEW c \in cast[w].audience, conn[c] = "open"
               PROVE  c \in cast[w].tried
    OBVIOUS
  <2>1. /\ c \in Conns /\ TopicOf[c] \in Topics
        /\ cast[w].pc # "look" => /\ cast[w].map = subscribers[TopicOf[c]]
                                  /\ cast[w].map # NoMap
                                  /\ c \in maps[cast[w].map]
    BY <1>1, HubAssumption
       DEF HubInv, TypeOK, Casts, AudienceOK, EntryOK, Registered, Listed
  <2>2. Len(w) \/ RUnlock(w)
    <3>1. cast' # cast
      OBVIOUS
    <3>2. PICK b \in Workers : (\E t \in Topics : Broadcast(b, t)) \/ CastStep(b)
      BY <1>1, <3>1 DEF Next, vars, Accept, HangUp, ConnStep, Enter, Subscribe, ReadFails,
         Unsubscribe, Close
    <3>3. b = w
      BY <1>1, <3>2 DEF Broadcast, CastStep, LookUp, Len, Return, RLock, Write, RUnlock, HubInv,
         TypeOK
    <3>4. ~LookUp(w) /\ ~RLock(w) /\ \A d \in Conns : ~Write(w, d)
      BY <1>1 DEF LookUp, RLock, Write, HubInv, TypeOK, Casts
    <3> QED
      BY <3>2, <3>3, <3>4 DEF Broadcast, CastStep
  <2>3. CASE Len(w)
    BY <1>1, <2>1, <2>3 DEF Len, HubInv, TypeOK, Casts
  <2>4. CASE RUnlock(w)
    BY <1>1, <2>4 DEF RUnlock, HubInv, AudienceOK
  <2> QED
    BY <2>2, <2>3, <2>4
<1>2. HubInv /\ [Next]_vars => [\A w \in Workers : Told(w)]_vars
  BY <1>1
<1> QED
  BY <1>2, HubSafe, PTL DEF Spec, WatchersAreTold

=============================================================================
