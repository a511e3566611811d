----------------------- MODULE NotifierPromiseProofs -----------------------
(***************************************************************************)
(* Theorems about one process whose store calls succeed while its context  *)
(* lives (Reliable), for any number of notifications, handlers and workers, *)
(* with clients that go away, crashes and shutdowns: no second copy of a   *)
(* notification, attempts numbered in order, and the promise of Delivery.  *)
(*                                                                         *)
(* Copies, as AtMostOneCarrier counts them, forgets a worker the moment    *)
(* the provider accepts, although that worker has still to count and       *)
(* record the attempt.  The invariant counts it until then (Places), and   *)
(* says what the attempt counter, the recorded attempts and the number of  *)
(* sends are in each of the places (WaitOK, WorkerOK).                     *)
(***************************************************************************)
EXTENDS NotifierBudgetProofs

\* One process, and no store call of a live context fails.
Reliable ==
  /\ Faults \cap {"pg", "redis"} = {}
  /\ \A i, j \in Instances : i = j

\* processMessage has not come to the end of the notification's attempt.
Engaged == {"limit", "fetch", "claim", "noprov", "send", "count", "record",
            "requeue", "delay", "fail", "bury"}

\* The copies, kind by kind.
Rows(n) == {<<"row", r>> : r \in {n} \cap Claimable}
Sorted(n) == {<<"zset", r>> : r \in {n} \cap delayed}
Jobs(n) == {<<"handler", h>> : h \in {h \in Handlers : HeldByHandler(h, n)}}
Dues(n) == {<<"scheduler", i>> : i \in {i \in Instances : HeldByScheduler(i, n)}}
Hands(n) == {<<"pump", i>> : i \in {i \in Instances : ctx[i] = "running" /\ HeldByPump(i, n)}}
Entries(n) == {<<"stream", m>> : m \in {m \in Unread : Subject(m) = n}}
Works(n) == {<<"worker", w>> : w \in {w \in Workers : worker[w].pc \in Engaged /\ Id(w) = n}}
Reads(n) == UNION {{<<"read", w, m>> : m \in {m \in worker[w].rest : Subject(m) = n}} : w \in Workers}

\* Where n waits, and where it is.
Wait(n) == Rows(n) \cup Sorted(n) \cup Jobs(n) \cup Dues(n) \cup Hands(n) \cup Entries(n) \cup Reads(n)
Places(n) == Wait(n) \cup Works(n)

OnePlace == \A n \in Notifications : \A a, b \in Places(n) : a = b

Undecided(n) == "accepted" \notin ends[n] /\ dlq[n] = 0

\* Every attempt is counted and recorded, and there is one more to make.
Level(n) ==
  /\ Undecided(n)
  /\ attemptCount[n] = sends[n] /\ Len(attempts[n]) = sends[n]
  /\ sends[n] < Promise!Budget(n)

WaitOK == \A n \in Notifications : Wait(n) # {} \/ ~Known(n) => Level(n)

\* What a worker knows of an attempt it has made, as long as its calls succeed.
AttemptOK(w) ==
  /\ sends[Id(w)] = worker[w].seen + 1 /\ worker[w].seen < Promise!Budget(Id(w))
  /\ attemptCount[Id(w)] = IF worker[w].pc = "count" THEN worker[w].seen ELSE worker[w].seen + 1
  /\ Len(attempts[Id(w)]) = IF worker[w].pc \in {"count", "record"} THEN worker[w].seen
                                                                  ELSE worker[w].seen + 1
  /\ worker[w].pc \in {"requeue", "delay"} => worker[w].seen + 1 < MaxRetriesOf[Id(w)]
  /\ worker[w].pc \in {"fail", "bury"} => MaxRetriesOf[Id(w)] <= worker[w].seen + 1

WorkerOK(w) ==
  /\ worker[w].pc \in {"limit", "fetch"} => Level(Id(w))
  /\ worker[w].pc \in NotYetSent => Level(Id(w)) /\ worker[w].seen = sends[Id(w)]
  /\ worker[w].pc \in {"requeue", "delay", "fail", "bury"} => ~worker[w].ok
  /\ worker[w].pc \in Engaged \cap HasSent =>
       /\ ~worker[w].ok => Undecided(Id(w))
       /\ Context(w) = "running" => AttemptOK(w)

\* While its process runs, the pump has what it has not removed yet from the
\* sorted set; a process that is down has no pump.
PumpOK ==
  \A i \in Instances :
    /\ ctx[i] = "down" => pump[i] = IdlePump
    /\ ctx[i] = "running" /\ ~pump[i].popped => pump[i].hand \subseteq delayed

PlaceInv == OnePlace /\ WaitOK /\ (\A w \in Workers : WorkerOK(w)) /\ PumpOK /\ AttemptsAreNumbered

-----------------------------------------------------------------------------
\* One place at a time

\* The kinds do not overlap.
LEMMA Tags ==
  ASSUME NEW n, NEW a
  PROVE  /\ a \in Rows(n) => a[1] = "row"
         /\ a \in Sorted(n) => a[1] = "zset"
         /\ a \in Jobs(n) => a[1] = "handler"
         /\ a \in Dues(n) => a[1] = "scheduler"
         /\ a \in Hands(n) => a[1] = "pump"
         /\ a \in Entries(n) => a[1] = "stream"
         /\ a \in Works(n) => a[1] = "worker"
         /\ a \in Reads(n) => a[1] = "read"
<1>1. a \in Rows(n) => a[1] = "row"
  BY DEF Rows
<1>2. a \in Sorted(n) => a[1] = "zset"
  BY DEF Sorted
<1>3. a \in Jobs(n) => a[1] = "handler"
  BY DEF Jobs
<1>4. a \in Dues(n) => a[1] = "scheduler"
  BY DEF Dues
<1>5. a \in Hands(n) => a[1] = "pump"
  BY DEF Hands
<1>6. a \in Entries(n) => a[1] = "stream"
  BY DEF Entries
<1>7. a \in Works(n) => a[1] = "worker"
  BY DEF Works
<1>8. ASSUME a \in Reads(n)
      PROVE  a[1] = "read"
  <2>1. PICK w \in Workers : a \in {<<"read", w, m>> : m \in {m \in worker[w].rest : Subject(m) = n}}
    BY <1>8 DEF Reads
  <2> QED
    BY <2>1
<1> QED
  BY <1>1, <1>2, <1>3, <1>4, <1>5, <1>6, <1>7, <1>8

\* What a step may do with n: nothing but take it out of places, move it from
\* one place to another, or create it in one.
Flow(n) ==
  \/ Places(n)' \subseteq Places(n)
  \/ \E x \in Places(n) : \E y : Places(n)' \subseteq (Places(n) \ {x}) \cup {y}
  \/ Places(n) = {} /\ \E y : Places(n)' \subseteq {y}

LEMMA FlowKeepsOnePlace ==
  ASSUME OnePlace, \A n \in Notifications : Flow(n)
  PROVE  OnePlace'
<1> SUFFICES ASSUME NEW n \in Notifications
             PROVE  \A a, b \in Places(n)' : a = b
  BY DEF OnePlace
<1>1. \A a, b \in Places(n) : a = b
  BY DEF OnePlace
<1> QED
  BY <1>1 DEF Flow

\* In the only place there is.
LEMMA Alone ==
  ASSUME OnePlace, NEW n \in Notifications, NEW x \in Places(n)
  PROVE  Places(n) = {x}
BY DEF OnePlace

\* Places of the kinds whose variables a step leaves alone.
LEMMA StoreFrame ==
  ASSUME NEW n
  PROVE  /\ UNCHANGED status => Rows(n)' = Rows(n)
         /\ UNCHANGED delayed => Sorted(n)' = Sorted(n)
         /\ UNCHANGED handler => Jobs(n)' = Jobs(n)
         /\ UNCHANGED due => Dues(n)' = Dues(n)
         /\ UNCHANGED <<pump, ctx>> => Hands(n)' = Hands(n)
         /\ UNCHANGED <<stream, lastDelivered>> => Entries(n)' = Entries(n)
         /\ UNCHANGED <<stream, worker>> => Works(n)' = Works(n) /\ Reads(n)' = Reads(n)
<1>1. UNCHANGED status => Rows(n)' = Rows(n)
  BY DEF Rows, Claimable
<1>2. UNCHANGED delayed => Sorted(n)' = Sorted(n)
  BY DEF Sorted
<1>3. UNCHANGED handler => Jobs(n)' = Jobs(n)
  BY DEF Jobs, HeldByHandler
<1>4. UNCHANGED due => Dues(n)' = Dues(n)
  BY DEF Dues, HeldByScheduler
<1>5. UNCHANGED <<pump, ctx>> => Hands(n)' = Hands(n)
  BY DEF Hands, HeldByPump
<1>6. UNCHANGED <<stream, lastDelivered>> => Entries(n)' = Entries(n)
  BY DEF Entries, Unread, Subject
<1>7. UNCHANGED <<stream, worker>> => Works(n)' = Works(n) /\ Reads(n)' = Reads(n)
  BY DEF Works, Reads, Id, Subject
<1> QED
  BY <1>1, <1>2, <1>3, <1>4, <1>5, <1>6, <1>7

\* A status other than 'scheduled' is written.
LEMMA RowsShrink ==
  ASSUME TypeOK, NEW x, NEW s, s # "scheduled", NEW done, UpdateStatus(x, s, done), NEW n
  PROVE  Rows(n)' \subseteq Rows(n)
<1>1. status' = [status EXCEPT ![x] = s] \/ status' = status
  BY Zenon DEF UpdateStatus
<1>2. Claimable' \subseteq Claimable
  BY <1>1 DEF Claimable, TypeOK, StoresTypeOK
<1> QED
  BY <1>2 DEF Rows

\* Workers keep their messages, or lose them.
LEMMA WorksShrink ==
  ASSUME TypeOK, IndexOK, Grown, NEW n,
         \A v \in Workers : worker'[v].pc \in Engaged =>
           worker[v].pc \in Engaged /\ worker'[v].msg = worker[v].msg
  PROVE  Works(n)' \subseteq Works(n)
<1>1. ASSUME NEW v \in Workers, worker'[v].pc \in Engaged
      PROVE  Id(v)' = Id(v) /\ worker[v].pc \in Engaged
  BY <1>1, IdStable DEF Engaged, Active
<1> QED
  BY <1>1 DEF Works

LEMMA ReadsShrink ==
  ASSUME TypeOK, IndexOK, Grown, NEW n,
         \A v \in Workers : worker'[v].rest \subseteq worker[v].rest
  PROVE  Reads(n)' \subseteq Reads(n)
<1>1. ASSUME NEW v \in Workers, NEW m \in worker'[v].rest
      PROVE  Subject(m)' = Subject(m) /\ m \in worker[v].rest
  BY <1>1, SubjectStable DEF Subject, IndexOK
<1> QED
  BY <1>1 DEF Reads

\* Where XADD puts an entry.
NewEntry(x) == <<"stream", <<PriorityOf[x], Len(stream[PriorityOf[x]]) + 1>>>>

LEMMA EntriesGrow ==
  ASSUME TypeOK, IndexOK, NEW x \in Notifications, NEW done, Enqueue(x, done), UNCHANGED lastDelivered
  PROVE  /\ Grown
         /\ \A n \in Notifications : n # x => Entries(n)' \subseteq Entries(n)
         /\ Entries(x)' \subseteq Entries(x) \cup {NewEntry(x)}
         /\ ~done => \A n \in Notifications : Entries(n)' \subseteq Entries(n)
<1> DEFINE q == PriorityOf[x]
<1>1. q \in Priority /\ stream \in [Priority -> Seq(Notifications)] /\ lastDelivered \in [Priority -> Nat]
  BY StoresAssumption DEF TypeOK, StoresTypeOK
<1>2. Grown
  BY EnqueueGrows
<1>3. /\ stream' = [stream EXCEPT ![q] = Append(@, x)] \/ stream' = stream
      /\ ~done => stream' = stream
  BY Zenon DEF Enqueue
<1>4. CASE stream' = stream
  <2>1. \A n \in Notifications : Entries(n)' = Entries(n)
    BY <1>4, StoreFrame
  <2> QED
    BY <1>2, <2>1
<1>5. CASE done /\ stream' = [stream EXCEPT ![q] = Append(@, x)]
  <2>1. ASSUME NEW p \in Priority, NEW k \in (lastDelivered[p] + 1) .. Len(stream'[p])
        PROVE  \/ k \in (lastDelivered[p] + 1) .. Len(stream[p]) /\ stream'[p][k] = stream[p][k]
               \/ p = q /\ k = Len(stream[q]) + 1 /\ stream'[p][k] = x
    <3>1. stream[p] \in Seq(Notifications) /\ lastDelivered[p] \in Nat
      BY <1>1
    <3>2. CASE p # q
      BY <1>1, <1>5, <3>1, <3>2
    <3>3. CASE p = q
      <4>1. stream'[p] = Append(stream[p], x)
        BY <1>1, <1>5, <3>3
      <4>2. Len(stream'[p]) = Len(stream[p]) + 1
        BY <3>1, <4>1
      <4>3. CASE k = Len(stream[p]) + 1
        BY <3>1, <3>3, <4>1, <4>3
      <4>4. CASE k <= Len(stream[p])
        <5>1. k \in 1 .. Len(stream[p])
          BY <3>1, <4>2, <4>4
        <5> QED
          BY <3>1, <4>1, <4>4, <5>1
      <4> QED
        BY <3>1, <4>2, <4>3, <4>4
    <3> QED
      BY <3>2, <3>3
  <2>2. \A m \in Unread' : \/ m \in Unread /\ Subject(m)' = Subject(m)
                           \/ <<"stream", m>> = NewEntry(x) /\ Subject(m)' = x
    BY <2>1 DEF Unread, Subject, NewEntry
  <2> QED
    BY <1>2, <1>5, <2>2 DEF Entries
<1> QED
  BY <1>3, <1>4, <1>5

\* n waits after a step only if it waited before, or is new.
WaitFlow(n) == Wait(n)' = {} \/ Wait(n) # {} \/ ~Known(n)

LEMMA Shrunk ==
  ASSUME NEW n,
         Rows(n)' \subseteq Rows(n), Sorted(n)' \subseteq Sorted(n), Jobs(n)' \subseteq Jobs(n),
         Dues(n)' \subseteq Dues(n), Hands(n)' \subseteq Hands(n), Entries(n)' \subseteq Entries(n),
         Works(n)' \subseteq Works(n), Reads(n)' \subseteq Reads(n)
  PROVE  Flow(n) /\ WaitFlow(n)
BY DEF Flow, WaitFlow, Places, Wait

\* What the three callers of producer.Enqueue have in common: the notification
\* leaves src for the stream.
LEMMA EnqueueFlow ==
  ASSUME TypeOK, IndexOK, NEW x \in Notifications, NEW done, Enqueue(x, done),
         UNCHANGED <<lastDelivered, status, delayed, worker>>, NEW src,
         \A n \in Notifications : /\ Jobs(n)' \subseteq Jobs(n) /\ Dues(n)' \subseteq Dues(n)
                                  /\ Hands(n)' \subseteq Hands(n),
         done => /\ src \in Jobs(x) \cup Dues(x) \cup Hands(x)
                 /\ src \notin Jobs(x)' \cup Dues(x)' \cup Hands(x)'
  PROVE  \A n \in Notifications : Flow(n) /\ WaitFlow(n)
<1>1. /\ Grown
      /\ \A n \in Notifications : n # x => Entries(n)' \subseteq Entries(n)
      /\ Entries(x)' \subseteq Entries(x) \cup {NewEntry(x)}
      /\ ~done => \A n \in Notifications : Entries(n)' \subseteq Entries(n)
  BY EntriesGrow
<1>2. \A n \in Notifications : /\ Rows(n)' = Rows(n) /\ Sorted(n)' = Sorted(n)
                               /\ Works(n)' \subseteq Works(n) /\ Reads(n)' \subseteq Reads(n)
  BY <1>1, StoreFrame, WorksShrink, ReadsShrink
<1>3. ASSUME NEW n \in Notifications, n # x \/ ~done
      PROVE  Flow(n) /\ WaitFlow(n)
  BY <1>1, <1>2, <1>3, Shrunk
<1>4. ASSUME done
      PROVE  Flow(x) /\ WaitFlow(x)
  <2>1. src \in Wait(x) /\ src \in Places(x)
    BY <1>4 DEF Wait, Places
  <2>2. src[1] \in {"handler", "scheduler", "pump"}
    BY <1>4, Tags
  <2>3. src \notin Rows(x) \cup Sorted(x) \cup Entries(x) \cup Works(x) \cup Reads(x)
    BY <2>2, Tags
  <2>4. Places(x)' \subseteq (Places(x) \ {src}) \cup {NewEntry(x)}
    BY <1>1, <1>2, <1>4, <2>3 DEF Places, Wait
  <2> QED
    BY <2>1, <2>4 DEF Flow, WaitFlow
<1> QED
  BY <1>3, <1>4

\* A row that does not exist yet is nowhere.
LEMMA Absent ==
  ASSUME TypeOK, IndexOK, KeyInv, NEW n \in Notifications, ~Known(n)
  PROVE  Places(n) = {}
<1>1. Rows(n) = {} /\ Sorted(n) = {}
  BY DEF Rows, Sorted, Claimable, Known, KeyInv, StoredOnly
<1>2. Jobs(n) = {} /\ Dues(n) = {} /\ Hands(n) = {}
  BY DEF Jobs, Dues, Hands, HeldByHandler, HeldByScheduler, HeldByPump, KeyInv, StoredOnly
<1>3. \A p \in Priority : \A k \in 1 .. Len(stream[p]) : stream[p][k] # n
  BY DEF KeyInv, StoredOnly
<1>4. \A m : HandedOut(m) => Subject(m) # n
  <2> SUFFICES ASSUME NEW m, HandedOut(m)
               PROVE  Subject(m) # n
    OBVIOUS
  <2>1. m[1] \in Priority /\ m[2] \in Nat \ {0} /\ m[2] <= lastDelivered[m[1]]
    BY DEF HandedOut, Messages
  <2>2. /\ lastDelivered[m[1]] \in Nat /\ Len(stream[m[1]]) \in Nat
        /\ lastDelivered[m[1]] <= Len(stream[m[1]])
    BY <2>1 DEF TypeOK, StoresTypeOK, IndexOK
  <2>3. m[2] \in 1 .. Len(stream[m[1]])
    BY <2>1, <2>2
  <2> QED
    BY <1>3, <2>1, <2>3 DEF Subject
<1>5. Works(n) = {} /\ Reads(n) = {}
  BY <1>4 DEF Works, Reads, Id, IndexOK, Active, Engaged
<1>6. Entries(n) = {}
  <2>1. \A m \in Unread : m[1] \in Priority /\ m[2] \in 1 .. Len(stream[m[1]])
    <3>1. \A p \in Priority : lastDelivered[p] \in Nat /\ Len(stream[p]) \in Nat
      BY DEF TypeOK, StoresTypeOK
    <3>2. \A m \in Unread : \E p \in Priority : \E k \in (lastDelivered[p] + 1) .. Len(stream[p]) :
            m = <<p, k>>
      BY DEF Unread
    <3> QED
      BY <3>1, <3>2
  <2> QED
    BY <1>3, <2>1 DEF Entries, Subject
<1> QED
  BY <1>1, <1>2, <1>5, <1>6 DEF Places, Wait

LEMMA SubmitFlow ==
  ASSUME TypeOK, IndexOK, KeyInv, NEW h \in Handlers, NEW S \in SUBSET Notifications,
         NEW deferred \in SUBSET S, NEW replied, Submit(h, S, deferred, replied),
         UNCHANGED <<due, pump, worker>>
  PROVE  \A n \in Notifications : Flow(n) /\ WaitFlow(n)
<1> SUFFICES ASSUME NEW n \in Notifications
             PROVE  Flow(n) /\ WaitFlow(n)
  OBVIOUS
<1>1. /\ Sorted(n)' = Sorted(n) /\ Dues(n)' = Dues(n) /\ Hands(n)' = Hands(n)
      /\ Entries(n)' = Entries(n) /\ Works(n)' = Works(n) /\ Reads(n)' = Reads(n)
  BY StoreFrame DEF Submit, redisVars, groupVars
<1>2. handler'[h].job = S \ deferred \/ handler'[h].job = {}
  BY DEF Submit, TypeOK, ServiceTypeOK
<1>3. \A g \in Handlers : g # h => handler'[g] = handler[g]
  BY DEF Submit, TypeOK, ServiceTypeOK
<1>4. CASE n \in S
  <2>1. ~Known(n)
    BY <1>4 DEF Submit, Insertable, Known
  <2>2. Places(n) = {}
    BY <2>1, Absent
  <2>3. CASE n \in deferred
    <3>1. Jobs(n)' \subseteq Jobs(n)
      BY <1>2, <1>3, <2>3 DEF Jobs, HeldByHandler
    <3>2. Rows(n)' \subseteq {<<"row", n>>}
      BY DEF Rows
    <3>3. Places(n)' \subseteq {<<"row", n>>}
      BY <1>1, <2>2, <3>1, <3>2 DEF Places, Wait
    <3> QED
      BY <2>1, <2>2, <3>3 DEF Flow, WaitFlow
  <2>4. CASE n \notin deferred
    <3>1. status'[n] = "pending"
      BY <1>4, <2>4 DEF Submit, Insert
    <3>2. Rows(n)' = {}
      BY <3>1 DEF Rows, Claimable
    <3>3. \A g \in Handlers : g # h => n \notin handler[g].job
      BY <2>1 DEF KeyInv, StoredOnly
    <3>4. Jobs(n)' \subseteq {<<"handler", h>>}
      BY <1>3, <3>3 DEF Jobs, HeldByHandler
    <3>5. Places(n)' \subseteq {<<"handler", h>>}
      BY <1>1, <2>2, <3>2, <3>4 DEF Places, Wait
    <3> QED
      BY <2>1, <2>2, <3>5 DEF Flow, WaitFlow
  <2> QED
    BY <2>3, <2>4
<1>5. CASE n \notin S
  <2>1. status'[n] = status[n]
    BY <1>5 DEF Submit, Insert
  <2>2. Rows(n)' \subseteq Rows(n)
    BY <2>1 DEF Rows, Claimable
  <2>3. Jobs(n)' \subseteq Jobs(n)
    BY <1>2, <1>3, <1>5 DEF Jobs, HeldByHandler
  <2> QED
    BY <1>1, <2>2, <2>3, Shrunk
<1> QED
  BY <1>4, <1>5

LEMMA HandlerFlow ==
  ASSUME TypeOK, IndexOK, KeyInv, NEW h \in Handlers, HandlerStep(h), UNCHANGED <<due, pump, worker>>
  PROVE  \A n \in Notifications : Flow(n) /\ WaitFlow(n)
<1> USE DEF redisVars, groupVars, pgVars
<1>1. handler \in [Handlers -> [job : SUBSET Notifications, mark : SUBSET Notifications]]
  BY DEF TypeOK, ServiceTypeOK
<1>2. CASE Create(h) \/ CreateBatch(h)
  <2>1. \E S \in SUBSET Notifications : \E deferred \in SUBSET S, replied \in BOOLEAN :
          Submit(h, S, deferred, replied)
    BY <1>2, ServiceAssumption DEF Create, CreateBatch
  <2> QED
    BY <2>1, SubmitFlow
<1>3. CASE EnqueueNext(h)
  <2>1. PICK x \in handler[h].job, done \in BOOLEAN, replied \in BOOLEAN :
          EnqueueNext(h)!(x, done, replied)
    BY <1>3 DEF EnqueueNext
  <2>2. x \in Notifications
    BY <1>1
  <2>3. /\ \A g \in Handlers : handler'[g].job \subseteq handler[g].job
        /\ x \notin handler'[h].job
    BY <1>1, <2>1
  <2>4. \A n \in Notifications : Jobs(n)' \subseteq Jobs(n)
    BY <2>3 DEF Jobs, HeldByHandler
  <2>5. <<"handler", h>> \in Jobs(x) /\ <<"handler", h>> \notin Jobs(x)'
    BY <2>3 DEF Jobs, HeldByHandler
  <2>6. \A n : Dues(n)' = Dues(n) /\ Hands(n)' = Hands(n)
    BY <2>1, StoreFrame
  <2>7. <<"handler", h>> \notin Dues(x)' \cup Hands(x)'
    BY DEF Dues, Hands
  <2>8. Enqueue(x, done) /\ UNCHANGED <<lastDelivered, status, delayed, worker>>
    BY <2>1
  <2> QED
    BY <2>2, <2>4, <2>5, <2>6, <2>7, <2>8, EnqueueFlow
<1>4. CASE MarkQueued(h)
  <2>1. PICK x \in handler[h].mark, done \in BOOLEAN : MarkQueued(h)!(x, done)
    BY <1>4 DEF MarkQueued
  <2>2. \A g \in Handlers : handler'[g].job = handler[g].job
    BY <1>1, <2>1
  <2>3. \A n : Jobs(n)' \subseteq Jobs(n)
    BY <2>2 DEF Jobs, HeldByHandler
  <2>4. \A n : Rows(n)' \subseteq Rows(n)
    BY <2>1, RowsShrink
  <2>5. \A n : /\ Sorted(n)' = Sorted(n) /\ Dues(n)' = Dues(n) /\ Hands(n)' = Hands(n)
               /\ Entries(n)' = Entries(n) /\ Works(n)' = Works(n) /\ Reads(n)' = Reads(n)
    BY <2>1, StoreFrame
  <2> QED
    BY <2>3, <2>4, <2>5, Shrunk
<1> QED
  BY <1>2, <1>3, <1>4 DEF HandlerStep

LEMMA SchedulerFlow ==
  ASSUME TypeOK, IndexOK, KeyInv, NEW i \in Instances, SchedulerStep(i),
         UNCHANGED <<handler, pump, worker>>
  PROVE  \A n \in Notifications : Flow(n) /\ WaitFlow(n)
<1> USE DEF redisVars, groupVars, pgVars
<1>1. due \in [Instances -> SUBSET Notifications]
  BY DEF TypeOK, SchedulerTypeOK
<1>2. ASSUME FetchScheduledDue(i), NEW n \in Notifications
      PROVE  Flow(n) /\ WaitFlow(n)
  <2>0. PICK S \in SUBSET Claimable : FetchScheduledDue(i)!(S)
    BY <1>2 DEF FetchScheduledDue
  <2>1. PICK got \in SUBSET S : FetchScheduledDue(i)!(S)!(got)
    BY <2>0
  <2>2. /\ Sorted(n)' = Sorted(n) /\ Jobs(n)' = Jobs(n) /\ Hands(n)' = Hands(n)
        /\ Entries(n)' = Entries(n) /\ Works(n)' = Works(n) /\ Reads(n)' = Reads(n)
    BY <2>1, StoreFrame
  <2>3. due'[i] \subseteq S /\ \A j \in Instances : j # i => due'[j] = due[j]
    BY <1>1, <2>1
  <2>4. CASE n \in S
    <3>1. status[n] = "scheduled" /\ status'[n] = "pending"
      BY <2>1, <2>4 DEF Claimable
    <3>2. <<"row", n>> \in Rows(n) /\ Rows(n)' = {}
      BY <3>1 DEF Rows, Claimable
    <3>3. Dues(n)' \subseteq Dues(n) \cup {<<"scheduler", i>>}
      BY <2>3 DEF Dues, HeldByScheduler
    <3>4. <<"row", n>> \notin Sorted(n) \cup Jobs(n) \cup Dues(n) \cup Hands(n) \cup Entries(n)
                               \cup Works(n) \cup Reads(n)
      <4> DEFINE x == <<"row", n>>
      <4>1. x[1] = "row"
        OBVIOUS
      <4> HIDE DEF x
      <4>2. x \notin Sorted(n) \cup Jobs(n) \cup Dues(n) \cup Hands(n) \cup Entries(n)
                       \cup Works(n) \cup Reads(n)
        BY <4>1, Tags
      <4> QED
        BY <4>2 DEF x
    <3>5. <<"row", n>> \in Wait(n) /\ <<"row", n>> \in Places(n)
      BY <3>2 DEF Wait, Places
    <3>6. Places(n)' \subseteq (Places(n) \ {<<"row", n>>}) \cup {<<"scheduler", i>>}
      BY <2>2, <3>2, <3>3, <3>4 DEF Wait, Places
    <3> QED
      BY <3>5, <3>6 DEF Flow, WaitFlow
  <2>5. CASE n \notin S
    <3>1. status'[n] = status[n]
      BY <2>1, <2>5
    <3>2. Rows(n)' \subseteq Rows(n)
      BY <3>1 DEF Rows, Claimable
    <3>3. Dues(n)' \subseteq Dues(n)
      BY <2>3, <2>5 DEF Dues, HeldByScheduler
    <3> QED
      BY <2>2, <3>2, <3>3, Shrunk
  <2> QED
    BY <2>4, <2>5
<1>3. CASE EnqueueDue(i)
  <2>1. PICK x \in due[i], done \in Outcomes("redis", i) : EnqueueDue(i)!(x, done)
    BY <1>3 DEF EnqueueDue
  <2>2. x \in Notifications
    BY <1>1
  <2>3. /\ \A j \in Instances : due'[j] \subseteq due[j]
        /\ x \notin due'[i]
    BY <1>1, <2>1
  <2>4. \A n \in Notifications : Dues(n)' \subseteq Dues(n)
    BY <2>3 DEF Dues, HeldByScheduler
  <2>5. <<"scheduler", i>> \in Dues(x) /\ <<"scheduler", i>> \notin Dues(x)'
    BY <2>3 DEF Dues, HeldByScheduler
  <2>6. \A n : Jobs(n)' = Jobs(n) /\ Hands(n)' = Hands(n)
    BY <2>1, StoreFrame
  <2>7. <<"scheduler", i>> \notin Jobs(x)' \cup Hands(x)'
    BY DEF Jobs, Hands
  <2>8. Enqueue(x, done) /\ UNCHANGED <<lastDelivered, status, delayed, worker>>
    BY <2>1
  <2> QED
    BY <2>2, <2>4, <2>5, <2>6, <2>7, <2>8, EnqueueFlow
<1> QED
  BY <1>2, <1>3 DEF SchedulerStep

\* A call succeeds exactly when its context lives.
LEMMA ReliableCalls ==
  ASSUME Reliable, NEW store \in {"pg", "redis"}, NEW i \in Instances, NEW done \in Outcomes(store, i)
  PROVE  done \in BOOLEAN /\ (done <=> ctx[i] = "running")
<1>1. store \notin Faults
  BY DEF Reliable
<1> QED
  BY <1>1 DEF Outcomes

LEMMA RemoveFlow ==
  ASSUME Reliable, TypeOK, PumpOK, NEW i \in Instances, RemovePopped(i),
         UNCHANGED <<handler, due, worker>>, NEW n \in Notifications
  PROVE  Flow(n) /\ WaitFlow(n)
<1> USE DEF redisVars, groupVars, pgVars
<1>1. pump \in [Instances -> [hand : SUBSET Notifications, popped : BOOLEAN]]
  BY DEF TypeOK, DelayedRetryTypeOK
<1>2. PICK done \in Outcomes("redis", i) : RemovePopped(i)!(done)
  BY DEF RemovePopped
<1>3. done \in BOOLEAN /\ (done <=> ctx[i] = "running")
  BY ReliableCalls
<1>4. /\ Rows(n)' = Rows(n) /\ Jobs(n)' = Jobs(n) /\ Dues(n)' = Dues(n)
      /\ Entries(n)' = Entries(n) /\ Works(n)' = Works(n) /\ Reads(n)' = Reads(n)
  BY <1>2, StoreFrame
<1>5. /\ \A j \in Instances : pump'[j].hand = pump[j].hand
      /\ \A j \in Instances : j # i => pump'[j].popped = pump[j].popped
      /\ ctx' = ctx
  BY <1>1, <1>2
<1>6. CASE done /\ n \in pump[i].hand
  <2>1. n \in delayed /\ n \notin delayed'
    BY <1>2, <1>3, <1>6 DEF PumpOK
  <2>2. <<"zset", n>> \in Sorted(n) /\ Sorted(n)' = {}
    BY <2>1 DEF Sorted
  <2>3. Hands(n)' \subseteq Hands(n) \cup {<<"pump", i>>}
    BY <1>5 DEF Hands, HeldByPump
  <2> DEFINE x == <<"zset", n>>
  <2>4. x[1] = "zset" /\ x \in Sorted(n)
    BY <2>2
  <2> HIDE DEF x
  <2>5. x \notin Rows(n) \cup Jobs(n) \cup Dues(n) \cup Hands(n) \cup Entries(n) \cup Works(n) \cup Reads(n)
    BY <2>4, Tags
  <2>6. x \in Wait(n) /\ x \in Places(n)
    BY <2>4 DEF Wait, Places
  <2>7. Places(n)' \subseteq (Places(n) \ {x}) \cup {<<"pump", i>>}
    BY <1>4, <2>2, <2>3, <2>5 DEF Wait, Places
  <2> QED
    BY <2>6, <2>7 DEF Flow, WaitFlow
<1>7. CASE ~(done /\ n \in pump[i].hand)
  <2>1. Sorted(n)' \subseteq Sorted(n)
    <3>1. delayed' \subseteq delayed
      BY <1>2, <1>3
    <3> QED
      BY <3>1 DEF Sorted
  <2>2. Hands(n)' \subseteq Hands(n)
    BY <1>3, <1>5, <1>7 DEF Hands, HeldByPump
  <2> QED
    BY <1>4, <2>1, <2>2, Shrunk
<1> QED
  BY <1>6, <1>7

LEMMA DelayedRetryFlow ==
  ASSUME Reliable, TypeOK, IndexOK, PumpOK, NEW i \in Instances, DelayedRetryStep(i),
         UNCHANGED <<handler, due, worker>>
  PROVE  \A n \in Notifications : Flow(n) /\ WaitFlow(n)
<1> USE DEF storeVars, redisVars, groupVars, pgVars
<1>1. pump \in [Instances -> [hand : SUBSET Notifications, popped : BOOLEAN]]
  BY DEF TypeOK, DelayedRetryTypeOK
<1>2. ASSUME RangeDelayed(i), NEW n \in Notifications
      PROVE  Flow(n) /\ WaitFlow(n)
  <2>1. PICK S \in SUBSET delayed : RangeDelayed(i)!(S)
    BY <1>2 DEF RangeDelayed
  <2>2. pump' = [pump EXCEPT ![i].hand = S] /\ pump[i] = IdlePump /\ ctx' = ctx
    BY <2>1
  <2>3. Hands(n)' \subseteq Hands(n)
    <3>1. pump'[i].popped = FALSE
      BY <1>1, <2>2 DEF IdlePump
    <3>2. \A j \in Instances : j # i => pump'[j] = pump[j]
      BY <1>1, <2>2
    <3> QED
      BY <2>2, <3>1, <3>2 DEF Hands, HeldByPump
  <2>4. /\ Rows(n)' = Rows(n) /\ Sorted(n)' = Sorted(n) /\ Jobs(n)' = Jobs(n) /\ Dues(n)' = Dues(n)
        /\ Entries(n)' = Entries(n) /\ Works(n)' = Works(n) /\ Reads(n)' = Reads(n)
    BY <2>1, StoreFrame
  <2> QED
    BY <2>3, <2>4, Shrunk
<1>3. CASE Reenqueue(i)
  <2>1. PICK x \in pump[i].hand, done \in Outcomes("redis", i) : Reenqueue(i)!(x, done)
    BY <1>3 DEF Reenqueue
  <2>2. x \in Notifications /\ done \in BOOLEAN /\ (done <=> ctx[i] = "running")
    BY <1>1, ReliableCalls
  <2>3. /\ \A j \in Instances : pump'[j].hand \subseteq pump[j].hand
        /\ \A j \in Instances : pump'[j].popped => pump[j].popped
        /\ x \notin pump'[i].hand /\ ctx' = ctx /\ pump[i].popped
    BY <1>1, <2>1
  <2>4. \A n \in Notifications : Hands(n)' \subseteq Hands(n)
    BY <2>3 DEF Hands, HeldByPump
  <2>5. <<"pump", i>> \notin Hands(x)' /\ (done => <<"pump", i>> \in Hands(x))
    BY <2>2, <2>3 DEF Hands, HeldByPump
  <2>6. \A n : Jobs(n)' = Jobs(n) /\ Dues(n)' = Dues(n)
    BY <2>1, StoreFrame
  <2>7. <<"pump", i>> \notin Jobs(x)' \cup Dues(x)'
    BY DEF Jobs, Dues
  <2>8. Enqueue(x, done) /\ UNCHANGED <<lastDelivered, status, delayed, worker>>
    BY <2>1
  <2> QED
    BY <2>2, <2>4, <2>5, <2>6, <2>7, <2>8, EnqueueFlow
<1> QED
  BY <1>2, <1>3, RemoveFlow DEF DelayedRetryStep

\* A process that stops, dies or starts forgets copies and makes none.
LEMMA LifeFlow ==
  ASSUME TypeOK, IndexOK, PumpOK, NEW i \in Instances, Stop(i) \/ Crash(i) \/ Exit(i) \/ Start(i)
  PROVE  \A n \in Notifications : Flow(n) /\ WaitFlow(n)
<1> USE DEF redisVars, groupVars, pgVars
<1> SUFFICES ASSUME NEW n \in Notifications
             PROVE  Flow(n) /\ WaitFlow(n)
  OBVIOUS
<1>1. UNCHANGED <<status, delayed, stream, lastDelivered>>
  BY DEF Stop, Crash, Exit, Halt, Start
<1>2. Rows(n)' = Rows(n) /\ Sorted(n)' = Sorted(n) /\ Entries(n)' = Entries(n)
  BY <1>1, StoreFrame
<1>3. \A h \in Handlers : handler'[h].job \subseteq handler[h].job
  BY DEF Stop, Crash, Exit, Halt, Start, IdleHandler
<1>4. \A j \in Instances : due'[j] \subseteq due[j]
  BY DEF Stop, Crash, Exit, Halt, Start, TypeOK, SchedulerTypeOK
<1>5. \A j \in Instances : ctx'[j] = "running" /\ pump'[j].popped => 
        ctx[j] = "running" /\ pump'[j] = pump[j]
  BY DEF Stop, Crash, Exit, Halt, Start, PumpOK, IdlePump, TypeOK, DelayedRetryTypeOK, StoresTypeOK
<1>6. \A v \in Workers : worker'[v] = worker[v] \/ (worker'[v].pc \notin Engaged /\ worker'[v].rest = {})
  BY DEF Stop, Crash, Exit, Halt, Start, NewWorker, Engaged
<1>7. Grown
  BY <1>1 DEF Grown
<1>8. Jobs(n)' \subseteq Jobs(n) /\ Dues(n)' \subseteq Dues(n) /\ Hands(n)' \subseteq Hands(n)
  BY <1>3, <1>4, <1>5 DEF Jobs, Dues, Hands, HeldByHandler, HeldByScheduler, HeldByPump
<1>9. Works(n)' \subseteq Works(n) /\ Reads(n)' \subseteq Reads(n)
  BY <1>6, <1>7, WorksShrink, ReadsShrink
<1> QED
  BY <1>2, <1>8, <1>9, Shrunk

\* Steps within processMessage that keep the message at hand.
LEMMA SameMessage ==
  ASSUME TypeOK, NEW w \in Workers,
         \/ ReadNothing(w) \/ Limit(w) \/ Fetch(w) \/ FetchFailed(w) \/ Claim(w) \/ NoProvider(w)
         \/ Send(w) \/ CountAttempt(w) \/ RecordAttempt(w) \/ SetDelivered(w) \/ SetQueued(w)
         \/ SetFailed(w) \/ ScheduleRetry(w) \/ Bury(w)
  PROVE  /\ UNCHANGED <<stream, lastDelivered, ctx>>
         /\ worker'[w].msg = worker[w].msg /\ worker'[w].rest = worker[w].rest
         /\ worker'[w].pc \in Engaged => worker[w].pc \in Engaged
<1> USE DEF storeVars, redisVars, groupVars, pgVars, historyVars
<1>1. worker[w] \in WorkerRecord
  BY DEF TypeOK, DispatcherTypeOK, WorkerRecord
<1>2. CASE ReadNothing(w)
  <2>1. worker' = worker \/ Goto(w, "stopped")
    BY <1>2 DEF ReadNothing
  <2> QED
    BY <1>2, <2>1, GotoPC DEF ReadNothing, Engaged
<1>3. CASE Fetch(w) \/ Send(w)
  <2>1. \/ Goto(w, "ack")
        \/ worker' = [worker EXCEPT ![w].pc = "claim", ![w].seen = attemptCount[Id(w)]]
        \/ \E ok \in BOOLEAN : worker' = [worker EXCEPT ![w].pc = "count", ![w].ok = ok]
    BY <1>3, Zenon DEF Fetch, Send
  <2>2. worker'[w].msg = worker[w].msg /\ worker'[w].rest = worker[w].rest
    BY <1>1, <2>1, GotoPC DEF TypeOK, DispatcherTypeOK
  <2> QED
    BY <1>3, <2>2 DEF Fetch, Send, Engaged
<1>4. ASSUME NEW pc, Goto(w, pc)
      PROVE  /\ worker'[w].msg = worker[w].msg /\ worker'[w].rest = worker[w].rest
             /\ worker'[w].pc = pc
  BY <1>4, GotoPC
<1>5. CASE Limit(w) \/ FetchFailed(w) \/ Claim(w) \/ NoProvider(w) \/ CountAttempt(w)
  BY <1>4, <1>5 DEF Limit, FetchFailed, Claim, NoProvider, CountAttempt, Engaged
<1>6. CASE RecordAttempt(w) \/ SetDelivered(w) \/ SetQueued(w) \/ SetFailed(w)
  BY <1>4, <1>6 DEF RecordAttempt, SetDelivered, SetQueued, SetFailed, SetOutcome, Engaged
<1>7. CASE ScheduleRetry(w) \/ Bury(w)
  BY <1>4, <1>7 DEF ScheduleRetry, Bury, Engaged
<1> QED
  BY <1>2, <1>3, <1>5, <1>6, <1>7

\* Places under a step of worker w that reads no stream.
LEMMA WorkerFrame ==
  ASSUME TypeOK, IndexOK, NEW w \in Workers, WorkerStep(w), UNCHANGED <<handler, due, pump>>
  PROVE  /\ UNCHANGED <<stream, ctx>> /\ Grown
         /\ \A v \in Workers : v # w => worker'[v] = worker[v]
         /\ \A n : /\ Rows(n)' \subseteq Rows(n)
                   /\ Jobs(n)' = Jobs(n) /\ Dues(n)' = Dues(n) /\ Hands(n)' = Hands(n)
         /\ UNCHANGED delayed \/ ScheduleRetry(w)
         /\ UNCHANGED lastDelivered \/ Read(w) \/ ReadLost(w)
<1> USE DEF storeVars, redisVars, groupVars, pgVars, historyVars
<1>1. UNCHANGED <<stream, ctx>>
  BY ProcessMessageFrame DEF WorkerStep, Read, ReadLost, ReadNothing
<1>2. Grown
  BY <1>1 DEF Grown
<1>3. \A v \in Workers : v # w => worker'[v] = worker[v]
  BY OtherWorkers
<1>4. \A n : Jobs(n)' = Jobs(n) /\ Dues(n)' = Dues(n) /\ Hands(n)' = Hands(n)
  BY <1>1, StoreFrame
<1>5. \A n : Rows(n)' \subseteq Rows(n)
  <2>1. CASE UNCHANGED status
    BY <2>1, StoreFrame
  <2>2. ASSUME NEW s, s # "scheduled", NEW done, UpdateStatus(Id(w), s, done)
        PROVE  \A n : Rows(n)' \subseteq Rows(n)
    BY <2>2, RowsShrink
  <2>3. CASE Claim(w) \/ NoProvider(w) \/ SetDelivered(w) \/ SetQueued(w) \/ SetFailed(w)
    BY <2>2, <2>3 DEF Claim, NoProvider, SetDelivered, SetQueued, SetFailed, SetOutcome
  <2>4. CASE \/ Read(w) \/ ReadLost(w) \/ ReadNothing(w) \/ Limit(w) \/ LimitAborted(w) \/ Fetch(w)
             \/ FetchFailed(w) \/ Send(w) \/ CountAttempt(w) \/ RecordAttempt(w)
             \/ ScheduleRetry(w) \/ Bury(w) \/ Acknowledge(w)
    <3>1. UNCHANGED status
      BY <2>4 DEF Read, ReadLost, ReadNothing, Limit, LimitAborted, Fetch, FetchFailed, Send,
         CountAttempt, RecordAttempt, ScheduleRetry, Bury, Acknowledge
    <3> QED
      BY <2>1, <3>1
  <2> QED
    BY <2>3, <2>4 DEF WorkerStep, ProcessMessage
<1>6. UNCHANGED delayed \/ ScheduleRetry(w)
  BY Zenon DEF WorkerStep, ProcessMessage, Read, ReadLost, ReadNothing, Limit, LimitAborted, Fetch,
     FetchFailed, Claim, NoProvider, Send, CountAttempt, RecordAttempt, SetDelivered, SetQueued,
     SetFailed, SetOutcome, Bury, Acknowledge
<1>7. UNCHANGED lastDelivered \/ Read(w) \/ ReadLost(w)
  BY ProcessMessageFrame DEF WorkerStep, ReadNothing
<1> QED
  BY <1>1, <1>2, <1>3, <1>4, <1>5, <1>6, <1>7

\* The steps of SameMessage, but for the one that hands a retry over.
LEMMA ProcessFlow ==
  ASSUME TypeOK, IndexOK, NEW w \in Workers, WorkerStep(w), UNCHANGED <<handler, due, pump>>,
         UNCHANGED <<lastDelivered, delayed>>,
         worker'[w].msg = worker[w].msg, worker'[w].rest = worker[w].rest,
         worker'[w].pc \in Engaged => worker[w].pc \in Engaged
  PROVE  \A n \in Notifications : Flow(n) /\ WaitFlow(n)
<1> SUFFICES ASSUME NEW n \in Notifications
             PROVE  Flow(n) /\ WaitFlow(n)
  OBVIOUS
<1>1. /\ Grown /\ UNCHANGED stream
      /\ \A v \in Workers : v # w => worker'[v] = worker[v]
      /\ Rows(n)' \subseteq Rows(n) /\ Jobs(n)' = Jobs(n) /\ Dues(n)' = Dues(n) /\ Hands(n)' = Hands(n)
  BY WorkerFrame
<1>2. Sorted(n)' = Sorted(n) /\ Entries(n)' = Entries(n)
  BY <1>1, StoreFrame
<1>3. Works(n)' \subseteq Works(n) /\ Reads(n)' \subseteq Reads(n)
  BY <1>1, WorksShrink, ReadsShrink
<1> QED
  BY <1>1, <1>2, <1>3, Shrunk

\* A worker hands its notification to the sorted set.
LEMMA RetryFlow ==
  ASSUME TypeOK, IndexOK, NEW w \in Workers, ScheduleRetry(w), UNCHANGED <<handler, due, pump>>,
         NEW n \in Notifications
  PROVE  Flow(n) /\ (n # Id(w) \/ UNCHANGED delayed => WaitFlow(n))
<1>1. WorkerStep(w)
  BY DEF WorkerStep, ProcessMessage
<1>2. /\ Grown /\ UNCHANGED stream
      /\ \A v \in Workers : v # w => worker'[v] = worker[v]
      /\ Rows(n)' \subseteq Rows(n) /\ Jobs(n)' = Jobs(n) /\ Dues(n)' = Dues(n) /\ Hands(n)' = Hands(n)
  BY <1>1, WorkerFrame
<1>3. /\ UNCHANGED lastDelivered
      /\ worker'[w].msg = worker[w].msg /\ worker'[w].rest = worker[w].rest
  BY SameMessage
<1>4. Entries(n)' = Entries(n) /\ Reads(n)' \subseteq Reads(n)
  BY <1>2, <1>3, StoreFrame, ReadsShrink
<1>5. worker[w].pc = "delay" /\ worker'[w].pc = "ack"
  BY GotoPC DEF ScheduleRetry
<1>6. Works(n)' \subseteq Works(n) /\ <<"worker", w>> \notin Works(n)'
  BY <1>2, <1>5, WorksShrink DEF Engaged, Works
<1>7. delayed' = delayed \/ delayed' = delayed \cup {Id(w)}
  BY Zenon DEF ScheduleRetry, EnqueueDelayed
<1>8. CASE n # Id(w) \/ UNCHANGED delayed
  <2>1. Sorted(n)' \subseteq Sorted(n)
    BY <1>7, <1>8 DEF Sorted
  <2> QED
    BY <1>2, <1>4, <1>6, <2>1, Shrunk
<1>9. CASE n = Id(w) /\ delayed' # delayed
  <2> DEFINE x == <<"worker", w>>
  <2>1. x[1] = "worker" /\ x \in Works(n) /\ x \notin Works(n)'
    BY <1>5, <1>6, <1>9 DEF Works, Engaged
  <2> HIDE DEF x
  <2>2. x \notin Wait(n)
    BY <2>1, Tags DEF Wait
  <2>3. Sorted(n)' \subseteq {<<"zset", n>>}
    BY DEF Sorted
  <2>4. Places(n)' \subseteq (Places(n) \ {x}) \cup {<<"zset", n>>}
    BY <1>2, <1>4, <1>6, <2>1, <2>2, <2>3 DEF Places, Wait
  <2> QED
    BY <1>9, <2>1, <2>4 DEF Flow, Places
<1> QED
  BY <1>8, <1>9

\* processMessage returns, and the worker turns to the next message of its read.
LEMMA AdvanceFlow ==
  ASSUME TypeOK, IndexOK, NEW w \in Workers, WorkerStep(w), Advance(w),
         UNCHANGED <<handler, due, pump, lastDelivered, delayed>>, NEW n \in Notifications
  PROVE  Flow(n) /\ WaitFlow(n)
<1>1. /\ Grown /\ UNCHANGED stream
      /\ \A v \in Workers : v # w => worker'[v] = worker[v]
      /\ Rows(n)' \subseteq Rows(n) /\ Jobs(n)' = Jobs(n) /\ Dues(n)' = Dues(n) /\ Hands(n)' = Hands(n)
  BY WorkerFrame
<1>2. Sorted(n)' = Sorted(n) /\ Entries(n)' = Entries(n)
  BY <1>1, StoreFrame
<1>3. worker \in [Workers -> WorkerRecord]
  BY DEF TypeOK, DispatcherTypeOK, WorkerRecord
<1>4. CASE worker[w].rest = {}
  <2>1. worker'[w].pc \in {"reading", "stopped"} /\ worker'[w].rest = {}
    BY <1>3, <1>4 DEF Advance, NewWorker
  <2>2. Works(n)' \subseteq Works(n) /\ Reads(n)' \subseteq Reads(n)
    BY <1>1, <2>1, WorksShrink, ReadsShrink DEF Engaged
  <2> QED
    BY <1>1, <1>2, <2>2, Shrunk
<1>5. ASSUME NEW m \in worker[w].rest, Take(w, m, worker[w].rest)
      PROVE  Flow(n) /\ WaitFlow(n)
  <2>1. worker'[w].msg = m /\ worker'[w].rest = worker[w].rest \ {m}
    BY <1>3, <1>5 DEF Take
  <2>2. Reads(n)' \subseteq Reads(n) /\ <<"read", w, m>> \notin Reads(n)'
    <3>1. Reads(n)' \subseteq Reads(n)
      BY <1>1, <2>1, ReadsShrink
    <3>2. <<"read", w, m>> \notin Reads(n)'
      BY <2>1 DEF Reads
    <3> QED
      BY <3>1, <3>2
  <2>3. /\ Works(n)' \subseteq Works(n) \cup {<<"worker", w>>}
        /\ Subject(m) # n => Works(n)' \subseteq Works(n)
    BY <1>1, <2>1 DEF Works, Id, Subject
  <2>4. CASE Subject(m) # n
    BY <1>1, <1>2, <2>2, <2>3, <2>4, Shrunk
  <2>5. CASE Subject(m) = n
    <3> DEFINE x == <<"read", w, m>>
    <3>1. x[1] = "read" /\ x \in Reads(n) /\ x \notin Reads(n)'
      BY <2>2, <2>5 DEF Reads
    <3> HIDE DEF x
    <3>2. x \notin Rows(n) \cup Sorted(n) \cup Jobs(n) \cup Dues(n) \cup Hands(n) \cup Entries(n) \cup Works(n)
      BY <3>1, Tags
    <3>3. Places(n)' \subseteq (Places(n) \ {x}) \cup {<<"worker", w>>}
      BY <1>1, <1>2, <2>2, <2>3, <3>1, <3>2 DEF Places, Wait
    <3>4. x \in Wait(n) /\ x \in Places(n)
      BY <3>1 DEF Places, Wait
    <3> QED
      BY <3>3, <3>4 DEF Flow, WaitFlow
  <2> QED
    BY <2>4, <2>5
<1> QED
  BY <1>4, <1>5 DEF Advance

\* XREADGROUP takes one entry off every stream that has any.
LEMMA FreshUnread ==
  ASSUME TypeOK, DeliverFresh, UNCHANGED stream
  PROVE  Fresh \subseteq Unread /\ Unread' \subseteq Unread \ Fresh
<1>1. lastDelivered \in [Priority -> Nat] /\ \A p \in Priority : Len(stream[p]) \in Nat
  BY DEF TypeOK, StoresTypeOK
<1>2. Fresh \subseteq Unread
  BY <1>1 DEF Fresh, Undelivered, Unread
<1>3. ASSUME NEW m \in Unread'
      PROVE  m \in Unread /\ m \notin Fresh
  <2>1. PICK p \in Priority : \E k \in (lastDelivered'[p] + 1) .. Len(stream'[p]) : m = <<p, k>>
    BY <1>3 DEF Unread
  <2>2. PICK k \in (lastDelivered'[p] + 1) .. Len(stream[p]) : m = <<p, k>>
    BY <2>1
  <2>3. lastDelivered'[p] = IF p \in Undelivered THEN lastDelivered[p] + 1 ELSE lastDelivered[p]
    BY DEF DeliverFresh
  <2>4. k \in (lastDelivered[p] + 1) .. Len(stream[p])
    BY <1>1, <2>2, <2>3
  <2>5. p \in Undelivered => k # lastDelivered[p] + 1
    BY <1>1, <2>2, <2>3
  <2> QED
    BY <2>2, <2>4, <2>5 DEF Unread, Fresh
<1> QED
  BY <1>2, <1>3

LEMMA ReadFlow ==
  ASSUME TypeOK, IndexOK, OnePlace, NEW w \in Workers, Read(w), UNCHANGED <<handler, due, pump>>,
         NEW n \in Notifications
  PROVE  Flow(n) /\ WaitFlow(n)
<1>1. /\ UNCHANGED stream
      /\ \A v \in Workers : v # w => worker'[v] = worker[v]
      /\ Rows(n)' \subseteq Rows(n) /\ Jobs(n)' = Jobs(n) /\ Dues(n)' = Dues(n) /\ Hands(n)' = Hands(n)
  BY WorkerFrame DEF WorkerStep
<1>2. Sorted(n)' = Sorted(n)
  BY StoreFrame DEF Read
<1>3. Fresh \subseteq Unread /\ Unread' \subseteq Unread \ Fresh
  BY <1>1, FreshUnread DEF Read
<1>4. PICK m \in Fresh : Take(w, m, Fresh)
  BY DEF Read
<1>5. worker'[w].msg = m /\ worker'[w].rest = Fresh \ {m}
  BY <1>4 DEF Take, TypeOK, DispatcherTypeOK
<1>6. \A f \in Fresh : Subject(f) = n => <<"stream", f>> \in Entries(n) /\ <<"stream", f>> \notin Entries(n)'
  BY <1>3 DEF Entries
<1>7. Entries(n)' \subseteq Entries(n)
  BY <1>1, <1>3 DEF Entries, Subject
<1>8. /\ Works(n)' \subseteq Works(n) \cup {<<"worker", w>>}
      /\ Subject(m) # n => Works(n)' \subseteq Works(n)
  BY <1>1, <1>5 DEF Works, Id, Subject
<1>9. \A a \in Reads(n)' : \/ a \in Reads(n)
                           \/ \E f \in Fresh \ {m} : a = <<"read", w, f>> /\ Subject(f) = n
  <2> SUFFICES ASSUME NEW a \in Reads(n)'
               PROVE  \/ a \in Reads(n)
                      \/ \E f \in Fresh \ {m} : a = <<"read", w, f>> /\ Subject(f) = n
    OBVIOUS
  <2>1. PICK v \in Workers : \E f \in worker'[v].rest : a = <<"read", v, f>> /\ Subject(f) = n
    BY <1>1 DEF Reads, Subject
  <2>2. CASE v = w
    BY <1>5, <2>1, <2>2
  <2>3. CASE v # w
    BY <1>1, <2>1, <2>3 DEF Reads
  <2> QED
    BY <2>2, <2>3
<1>10. CASE \A f \in Fresh : Subject(f) # n
  BY <1>1, <1>2, <1>4, <1>7, <1>8, <1>9, <1>10, Shrunk
<1>11. ASSUME NEW f \in Fresh, Subject(f) = n
       PROVE  Flow(n) /\ WaitFlow(n)
  <2> DEFINE x == <<"stream", f>>
  <2>1. x \in Entries(n) /\ x \notin Entries(n)' /\ x[1] = "stream"
    BY <1>6, <1>11
  <2>2. \A g \in Fresh : Subject(g) = n => g = f
    <3>1. \A g \in Fresh : Subject(g) = n => <<"stream", g>> \in Places(n)
      BY <1>6 DEF Places, Wait
    <3> QED
      BY <1>11, <3>1 DEF OnePlace
  <2> HIDE DEF x
  <2>3. x \notin Rows(n) \cup Sorted(n) \cup Jobs(n) \cup Dues(n) \cup Hands(n) \cup Works(n) \cup Reads(n)
    BY <2>1, Tags
  <2>4. x \in Wait(n) /\ x \in Places(n)
    BY <2>1 DEF Places, Wait
  <2>5. CASE f = m
    <3>1. Reads(n)' \subseteq Reads(n)
      BY <1>9, <2>2, <2>5
    <3>2. Places(n)' \subseteq (Places(n) \ {x}) \cup {<<"worker", w>>}
      BY <1>1, <1>2, <1>7, <1>8, <2>1, <2>3, <3>1 DEF Places, Wait
    <3> QED
      BY <2>4, <3>2 DEF Flow, WaitFlow
  <2>6. CASE f # m
    <3>1. Reads(n)' \subseteq Reads(n) \cup {<<"read", w, f>>}
      BY <1>9, <2>2
    <3>2. Works(n)' \subseteq Works(n)
      BY <1>4, <1>8, <2>2, <2>6
    <3>3. Places(n)' \subseteq (Places(n) \ {x}) \cup {<<"read", w, f>>}
      BY <1>1, <1>2, <1>7, <2>1, <2>3, <3>1, <3>2 DEF Places, Wait
    <3> QED
      BY <2>4, <3>3 DEF Flow, WaitFlow
  <2> QED
    BY <2>5, <2>6
<1> QED
  BY <1>10, <1>11

LEMMA WorkerFlow ==
  ASSUME Reliable, TypeOK, IndexOK, OnePlace, NEW w \in Workers, WorkerStep(w),
         UNCHANGED <<handler, due, pump>>, NEW n \in Notifications
  PROVE  /\ Flow(n)
         /\ (ScheduleRetry(w) /\ delayed' # delayed /\ n = Id(w)) \/ WaitFlow(n)
<1>1. ~ReadLost(w)
  BY DEF ReadLost, Reliable
<1>2. CASE ScheduleRetry(w)
  BY <1>2, RetryFlow
<1>3. CASE LimitAborted(w) \/ Acknowledge(w)
  <2>1. Advance(w) /\ UNCHANGED <<lastDelivered, delayed>>
    BY <1>3 DEF LimitAborted, Acknowledge, redisVars, groupVars
  <2> QED
    BY <2>1, AdvanceFlow
<1>4. CASE /\ ~ScheduleRetry(w)
           /\ \/ ReadNothing(w) \/ Limit(w) \/ Fetch(w) \/ FetchFailed(w) \/ Claim(w) \/ NoProvider(w)
              \/ Send(w) \/ CountAttempt(w) \/ RecordAttempt(w) \/ SetDelivered(w) \/ SetQueued(w)
              \/ SetFailed(w) \/ Bury(w)
  <2>1. /\ UNCHANGED <<stream, lastDelivered, ctx>>
        /\ worker'[w].msg = worker[w].msg /\ worker'[w].rest = worker[w].rest
        /\ worker'[w].pc \in Engaged => worker[w].pc \in Engaged
    BY <1>4, SameMessage
  <2>2. UNCHANGED delayed
    BY <1>4, WorkerFrame
  <2> QED
    BY <2>1, <2>2, ProcessFlow
<1> QED
  BY <1>1, <1>2, <1>3, <1>4, ReadFlow DEF WorkerStep, ProcessMessage

LEMMA PumpNext ==
  ASSUME Reliable, TypeOK, IndexOK, PumpOK, [Next]_vars
  PROVE  PumpOK'
<1> USE DEF storeVars, redisVars, groupVars, pgVars, historyVars
<1>1. pump \in [Instances -> [hand : SUBSET Notifications, popped : BOOLEAN]]
  BY DEF TypeOK, DelayedRetryTypeOK
<1>2. ctx \in [Instances -> {"running", "stopping", "down"}]
  BY DEF TypeOK, StoresTypeOK
<1>3. CASE UNCHANGED <<pump, ctx>> /\ delayed \subseteq delayed'
  BY <1>3 DEF PumpOK
<1>4. CASE \E h \in Handlers : HandlerStep(h) /\ UNCHANGED <<due, pump, worker>>
  <2>1. UNCHANGED <<pump, ctx, delayed>>
    BY <1>4 DEF HandlerStep, Create, CreateBatch, Submit, EnqueueNext, MarkQueued
  <2> QED
    BY <1>3, <2>1
<1>5. CASE \E n \in Notifications : Cancel(n) /\ UNCHANGED <<due, pump, worker>>
  BY <1>3, <1>5 DEF Cancel
<1>6. CASE \E i \in Instances : SchedulerStep(i) /\ UNCHANGED <<handler, pump, worker>>
  <2>1. UNCHANGED <<pump, ctx, delayed>>
    BY <1>6 DEF SchedulerStep, FetchScheduledDue, EnqueueDue
  <2> QED
    BY <1>3, <2>1
<1>7. ASSUME NEW i \in Instances, DelayedRetryStep(i)
      PROVE  PumpOK'
  <2>1. \A j \in Instances : j = i
    BY DEF Reliable
  <2>2. CASE RangeDelayed(i)
    <3>1. PICK S \in SUBSET delayed : RangeDelayed(i)!(S)
      BY <2>2 DEF RangeDelayed
    <3>2. pump'[i].hand = S /\ UNCHANGED <<ctx, delayed>> /\ ctx[i] = "running"
      BY <1>1, <3>1
    <3> QED
      BY <2>1, <3>2 DEF PumpOK
  <2>3. CASE RemovePopped(i)
    <3>1. pump' = [pump EXCEPT ![i].popped = TRUE] /\ UNCHANGED ctx /\ pump[i].hand # {}
      BY <2>3 DEF RemovePopped
    <3>2. pump'[i].popped = TRUE
      BY <1>1, <3>1
    <3>3. ctx[i] # "down"
      BY <3>1 DEF PumpOK, IdlePump
    <3> QED
      BY <2>1, <3>1, <3>2, <3>3 DEF PumpOK
  <2>4. CASE Reenqueue(i)
    <3>1. PICK x \in pump[i].hand, done \in Outcomes("redis", i) : Reenqueue(i)!(x, done)
      BY <2>4 DEF Reenqueue
    <3>2. /\ pump'[i].hand = pump[i].hand \ {x} /\ pump'[i].popped = (pump[i].hand # {x})
          /\ UNCHANGED <<ctx, delayed>>
      BY <1>1, <3>1
    <3>3. ctx[i] # "down"
      BY <3>1 DEF PumpOK, IdlePump
    <3>4. ~pump'[i].popped => pump'[i].hand = {}
      BY <3>2
    <3> QED
      BY <2>1, <3>2, <3>3, <3>4 DEF PumpOK
  <2> QED
    BY <1>7, <2>2, <2>3, <2>4 DEF DelayedRetryStep
<1>8. CASE \E w \in Workers : WorkerStep(w) /\ UNCHANGED <<handler, due, pump>>
  <2>1. PICK w \in Workers : WorkerStep(w) /\ UNCHANGED <<handler, due, pump>>
    BY <1>8
  <2>2. UNCHANGED ctx /\ (UNCHANGED delayed \/ ScheduleRetry(w))
    BY <2>1, WorkerFrame
  <2>3. delayed \subseteq delayed'
    <3>1. ScheduleRetry(w) => delayed' = delayed \/ delayed' = delayed \cup {Id(w)}
      BY Zenon DEF ScheduleRetry, EnqueueDelayed
    <3> QED
      BY <2>2, <3>1
  <2> QED
    BY <1>3, <2>1, <2>2, <2>3
<1>9. ASSUME NEW i \in Instances, Stop(i) \/ Crash(i) \/ Exit(i) \/ Start(i)
      PROVE  PumpOK'
  <2>1. CASE Stop(i)
    BY <1>1, <1>2, <2>1 DEF Stop, PumpOK
  <2>2. CASE Crash(i) \/ Exit(i)
    BY <1>1, <1>2, <2>2 DEF Crash, Exit, Halt, PumpOK, IdlePump
  <2>3. CASE Start(i)
    BY <1>1, <1>2, <2>3 DEF Start, PumpOK, IdlePump
  <2> QED
    BY <1>9, <2>1, <2>2, <2>3
<1>10. CASE UNCHANGED vars
  BY <1>3, <1>10 DEF vars
<1> QED
  BY <1>4, <1>5, <1>6, <1>7, <1>8, <1>9, <1>10 DEF Next

-----------------------------------------------------------------------------
\* The ledger of a notification

SameLedger(n) ==
  /\ attemptCount'[n] = attemptCount[n] /\ attempts'[n] = attempts[n] /\ sends'[n] = sends[n]
  /\ dlq'[n] = dlq[n] /\ ("accepted" \in ends'[n] <=> "accepted" \in ends[n])

LEMMA EndKeeps ==
  ASSUME NEW S, NEW how, how # "accepted", End(S, how)
  PROVE  \A n \in Notifications : "accepted" \in ends'[n] <=> "accepted" \in ends[n]
BY DEF End

\* What the end of a process records is no acceptance.
LEMMA HaltKeeps ==
  ASSUME NEW i \in Instances, Halt(i), NEW n \in Notifications
  PROVE  "accepted" \in ends'[n] <=> "accepted" \in ends[n]
BY DEF Halt, Loss

LEMMA LevelKept ==
  ASSUME NEW n, SameLedger(n)
  PROVE  /\ Level(n) <=> /\ Undecided(n)' /\ attemptCount'[n] = sends'[n] /\ Len(attempts'[n]) = sends'[n]
                         /\ sends'[n] < Promise!Budget(n)
         /\ Undecided(n)' <=> Undecided(n)
         /\ Level(n)' <=> Level(n)
BY DEF SameLedger, Level, Undecided

\* A worker that neither moves nor sees its notification's ledger change.
LEMMA WorkerKept ==
  ASSUME TypeOK, IndexOK, Grown, NEW v \in Workers, WorkerOK(v),
         \/ worker'[v].pc \notin Engaged
         \/ /\ worker'[v] = worker[v] /\ SameLedger(Id(v))
            /\ Context(v)' = "running" => Context(v) = "running"
  PROVE  WorkerOK(v)'
<1>1. CASE worker'[v].pc \notin Engaged
  BY <1>1 DEF WorkerOK, NotYetSent, Engaged
<1>2. CASE /\ worker'[v].pc \in Engaged
           /\ worker'[v] = worker[v] /\ SameLedger(Id(v))
           /\ Context(v)' = "running" => Context(v) = "running"
  <2>1. Id(v)' = Id(v)
    BY <1>2, IdStable DEF Engaged, Active
  <2> DEFINE n == Id(v)
  <2>2. Id(v)' = n /\ SameLedger(n)
    BY <1>2, <2>1
  <2>3. Level(Id(v))' <=> Level(Id(v))
    BY <2>2 DEF SameLedger, Level, Undecided
  <2>4. Undecided(Id(v))' <=> Undecided(Id(v))
    BY <2>2 DEF SameLedger, Undecided
  <2>5. AttemptOK(v) => AttemptOK(v)'
    BY <1>2, <2>2 DEF SameLedger, AttemptOK
  <2> QED
    BY <1>2, <2>2, <2>3, <2>4, <2>5 DEF WorkerOK, SameLedger
<1> QED
  BY <1>1, <1>2

LedgerInv == WaitOK /\ (\A w \in Workers : WorkerOK(w)) /\ AttemptsAreNumbered

\* Steps in which no attempt is made, counted or recorded.
LEMMA LedgerKept ==
  ASSUME TypeOK, IndexOK, Grown, LedgerInv,
         \A n \in Notifications : SameLedger(n) /\ WaitFlow(n) /\ (Known(n) => Known(n)'),
         \A v \in Workers : \/ worker'[v].pc \notin Engaged
                            \/ /\ worker'[v] = worker[v]
                               /\ Context(v)' = "running" => Context(v) = "running"
  PROVE  LedgerInv'
<1>1. WaitOK'
  BY LevelKept DEF LedgerInv, WaitOK, WaitFlow
<1>2. ASSUME NEW v \in Workers
      PROVE  WorkerOK(v)'
  <2>1. CASE worker'[v].pc \notin Engaged
    BY <2>1, WorkerKept DEF LedgerInv
  <2>2. CASE worker'[v].pc \in Engaged
    <3>1. worker'[v] = worker[v] /\ (Context(v)' = "running" => Context(v) = "running")
      BY <2>2
    <3>2. Id(v) \in Notifications
      BY <2>2, <3>1, IdType DEF Engaged, Active
    <3> QED
      BY <3>1, <3>2, WorkerKept DEF LedgerInv
  <2> QED
    BY <2>1, <2>2
<1>3. AttemptsAreNumbered'
  BY DEF LedgerInv, AttemptsAreNumbered, SameLedger
<1> QED
  BY <1>1, <1>2, <1>3 DEF LedgerInv

\* Everybody but the workers.
LEMMA OthersLedger ==
  ASSUME Reliable, TypeOK, IndexOK, KeyInv, OnePlace, PumpOK, LedgerInv, [Next]_vars,
         ~\E w \in Workers : WorkerStep(w) /\ UNCHANGED <<handler, due, pump>>
  PROVE  OnePlace' /\ LedgerInv'
<1> USE DEF storeVars, redisVars, groupVars, pgVars, historyVars
<1>1. Grown
  BY NextGrows
<1>2. CASE \E h \in Handlers : HandlerStep(h) /\ UNCHANGED <<due, pump, worker>>
  <2>1. PICK h \in Handlers : HandlerStep(h) /\ UNCHANGED <<due, pump, worker>>
    BY <1>2
  <2>2. UNCHANGED <<attemptCount, attempts, sends, dlq, ctx>>
    BY <2>1 DEF HandlerStep, Create, CreateBatch, Submit, EnqueueNext, MarkQueued
  <2>3. UNCHANGED ends \/ \E S : End(S, "dropped") \/ End(S, "unqueued")
    BY <2>1 DEF HandlerStep, Create, CreateBatch, Submit, EnqueueNext, MarkQueued
  <2>4. \A n \in Notifications : SameLedger(n)
    BY <2>2, <2>3, EndKeeps DEF SameLedger
  <2>5. \A n \in Notifications : Flow(n) /\ WaitFlow(n)
    BY <2>1, HandlerFlow
  <2>6. \A n \in Notifications : Known(n) => Known(n)'
    <3>1. ASSUME NEW x \in Notifications, Known(x), NEW done, UpdateStatus(x, "queued", done)
          PROVE  \A n \in Notifications : Known(n)' <=> Known(n)
      BY <3>1, UpdateKnown DEF Status
    <3>2. CASE MarkQueued(h)
      <4>1. PICK x \in handler[h].mark, done \in BOOLEAN : MarkQueued(h)!(x, done)
        BY <3>2 DEF MarkQueued
      <4>2. x \in Notifications /\ Known(x)
        BY DEF TypeOK, ServiceTypeOK, KeyInv, StoredOnly
      <4> QED
        BY <3>1, <4>1, <4>2
    <3>3. CASE EnqueueNext(h)
      BY <3>3 DEF EnqueueNext, Known
    <3>4. CASE Create(h) \/ CreateBatch(h)
      BY <3>4 DEF Create, CreateBatch, Submit, Insert, Known
    <3> QED
      BY <2>1, <3>2, <3>3, <3>4 DEF HandlerStep
  <2> QED
    BY <1>1, <2>1, <2>2, <2>4, <2>5, <2>6, LedgerKept, FlowKeepsOnePlace DEF Context
<1>3. CASE \E x \in Notifications : Cancel(x) /\ UNCHANGED <<due, pump, worker>>
  <2>1. PICK x \in Notifications : Cancel(x) /\ UNCHANGED <<due, pump, worker>>
    BY <1>3
  <2>2. /\ UNCHANGED <<attemptCount, attempts, sends, dlq, ctx, delayed, stream, lastDelivered, handler>>
        /\ End({x}, "withdrawn") /\ UpdateStatus(x, "cancelled", TRUE) /\ Known(x)
    BY <2>1 DEF Cancel, CancellableStatus, Known
  <2>3. \A n \in Notifications : SameLedger(n)
    BY <2>2, EndKeeps DEF SameLedger
  <2>4. \A n \in Notifications : Flow(n) /\ WaitFlow(n)
    <3>1. \A n : Rows(n)' \subseteq Rows(n)
      BY <2>2, RowsShrink
    <3>2. \A n : /\ Sorted(n)' = Sorted(n) /\ Jobs(n)' = Jobs(n) /\ Dues(n)' = Dues(n)
                 /\ Hands(n)' = Hands(n) /\ Entries(n)' = Entries(n)
                 /\ Works(n)' = Works(n) /\ Reads(n)' = Reads(n)
      BY <2>1, <2>2, StoreFrame
    <3> QED
      BY <3>1, <3>2, Shrunk
  <2>5. \A n \in Notifications : Known(n) => Known(n)'
    BY <2>2, UpdateKnown DEF Status
  <2> QED
    BY <1>1, <2>1, <2>2, <2>3, <2>4, <2>5, LedgerKept, FlowKeepsOnePlace DEF Context
<1>4. CASE \E i \in Instances : SchedulerStep(i) /\ UNCHANGED <<handler, pump, worker>>
  <2>1. PICK i \in Instances : SchedulerStep(i) /\ UNCHANGED <<handler, pump, worker>>
    BY <1>4
  <2>2. UNCHANGED <<attemptCount, attempts, sends, dlq, ctx>> /\ \E S : End(S, "dropped")
    BY <2>1 DEF SchedulerStep, FetchScheduledDue, EnqueueDue
  <2>3. \A n \in Notifications : SameLedger(n)
    BY <2>2, EndKeeps DEF SameLedger
  <2>4. \A n \in Notifications : Known(n) => Known(n)'
    BY <2>1 DEF SchedulerStep, FetchScheduledDue, EnqueueDue, Known
  <2> QED
    BY <1>1, <2>1, <2>2, <2>3, <2>4, SchedulerFlow, LedgerKept, FlowKeepsOnePlace DEF Context
<1>5. CASE \E i \in Instances : DelayedRetryStep(i) /\ UNCHANGED <<handler, due, worker>>
  <2>1. PICK i \in Instances : DelayedRetryStep(i) /\ UNCHANGED <<handler, due, worker>>
    BY <1>5
  <2>2. /\ UNCHANGED <<status, attemptCount, attempts, sends, dlq, ctx>>
        /\ UNCHANGED ends \/ \E S : End(S, "dropped")
    BY <2>1 DEF DelayedRetryStep, RangeDelayed, RemovePopped, Reenqueue
  <2>3. \A n \in Notifications : SameLedger(n)
    BY <2>2, EndKeeps DEF SameLedger
  <2> QED
    BY <1>1, <2>1, <2>2, <2>3, DelayedRetryFlow, LedgerKept, FlowKeepsOnePlace DEF Context, Known
<1>6. CASE \E i \in Instances : Stop(i) \/ Crash(i) \/ Exit(i) \/ Start(i)
  <2>1. PICK i \in Instances : Stop(i) \/ Crash(i) \/ Exit(i) \/ Start(i)
    BY <1>6
  <2>2. /\ UNCHANGED <<status, attemptCount, attempts, sends, dlq>>
        /\ UNCHANGED ends \/ Halt(i)
    BY <2>1 DEF Stop, Crash, Exit, Halt, Start
  <2>3. \A n \in Notifications : SameLedger(n)
    BY <2>2, HaltKeeps DEF SameLedger
  <2>4. ASSUME NEW v \in Workers
        PROVE  \/ worker'[v].pc \notin Engaged
               \/ /\ worker'[v] = worker[v]
                  /\ Context(v)' = "running" => Context(v) = "running"
    BY <2>1, DispatcherAssumption
    DEF Stop, Crash, Exit, Halt, Start, NewWorker, Engaged, Context, TypeOK, StoresTypeOK
  <2> QED
    BY <1>1, <2>1, <2>2, <2>3, <2>4, LifeFlow, LedgerKept, FlowKeepsOnePlace DEF Known
<1>7. CASE UNCHANGED vars
  <2>1. \A n \in Notifications : SameLedger(n) /\ (Known(n) => Known(n)')
    BY <1>7 DEF vars, SameLedger, Known
  <2>2. \A n : /\ Rows(n)' = Rows(n) /\ Sorted(n)' = Sorted(n) /\ Jobs(n)' = Jobs(n)
               /\ Dues(n)' = Dues(n) /\ Hands(n)' = Hands(n) /\ Entries(n)' = Entries(n)
               /\ Works(n)' = Works(n) /\ Reads(n)' = Reads(n)
    BY <1>7, StoreFrame DEF vars
  <2>3. \A n \in Notifications : Flow(n) /\ WaitFlow(n)
    BY <2>2, Shrunk
  <2> QED
    BY <1>1, <1>7, <2>1, <2>3, LedgerKept, FlowKeepsOnePlace DEF vars, Context
<1> QED
  BY <1>2, <1>3, <1>4, <1>5, <1>6, <1>7 DEF Next

\* Which steps of a worker touch a ledger, and whose.
LEMMA WorkerLedger ==
  ASSUME TypeOK, IndexOK, NEW w \in Workers, WorkerStep(w), NEW n \in Notifications
  PROVE  SameLedger(n) \/ (n = Id(w) /\ (Send(w) \/ CountAttempt(w) \/ RecordAttempt(w) \/ Bury(w)))
<1> USE DEF storeVars, redisVars, groupVars, pgVars, historyVars
<1>1. ASSUME UNCHANGED <<attemptCount, attempts, sends, dlq>>,
             UNCHANGED ends \/ \E S : End(S, "dropped") \/ End(S, "unroutable")
      PROVE  SameLedger(n)
  BY <1>1, EndKeeps DEF SameLedger
<1>2. CASE \/ Read(w) \/ ReadLost(w) \/ ReadNothing(w) \/ Limit(w) \/ LimitAborted(w) \/ Fetch(w)
           \/ FetchFailed(w) \/ Claim(w) \/ NoProvider(w)
  BY <1>1, <1>2 DEF Read, ReadLost, ReadNothing, Limit, LimitAborted, Fetch, FetchFailed, Claim, NoProvider
<1>3. CASE \/ SetDelivered(w) \/ SetQueued(w) \/ SetFailed(w) \/ ScheduleRetry(w) \/ Acknowledge(w)
  BY <1>1, <1>3 DEF SetDelivered, SetQueued, SetFailed, SetOutcome, ScheduleRetry, Acknowledge
<1>4. CASE n # Id(w) /\ Send(w)
  <2>1. PICK ok \in BOOLEAN : Send(w)!(ok)
    BY <1>4 DEF Send
  <2>2. sends'[n] = sends[n]
    BY <1>4, <2>1 DEF TypeOK, StoresTypeOK
  <2>3. ends'[n] = ends[n]
    BY <1>4, <2>1 DEF End
  <2> QED
    BY <2>1, <2>2, <2>3 DEF SameLedger
<1>5. CASE n # Id(w) /\ CountAttempt(w)
  <2>1. attemptCount' = [attemptCount EXCEPT ![Id(w)] = @ + 1] \/ attemptCount' = attemptCount
    BY <1>5, Zenon DEF CountAttempt, IncrementAttempt
  <2>2. attemptCount'[n] = attemptCount[n]
    BY <1>5, <2>1 DEF TypeOK, StoresTypeOK
  <2> QED
    BY <1>5, <2>2 DEF CountAttempt, SameLedger
<1>6. CASE n # Id(w) /\ RecordAttempt(w)
  <2>1. \/ attempts' = [attempts EXCEPT ![Id(w)] = Append(@, worker[w].seen + 1)]
        \/ attempts' = attempts
    BY <1>6, Zenon DEF RecordAttempt, CreateDeliveryAttempt
  <2>2. attempts'[n] = attempts[n]
    BY <1>6, <2>1 DEF TypeOK, StoresTypeOK
  <2> QED
    BY <1>6, <2>2 DEF RecordAttempt, SameLedger
<1>7. CASE n # Id(w) /\ Bury(w)
  <2>1. dlq' = [dlq EXCEPT ![Id(w)] = @ + 1] \/ dlq' = dlq
    BY <1>7, Zenon DEF Bury, Push
  <2>2. dlq'[n] = dlq[n]
    BY <1>7, <2>1 DEF TypeOK, StoresTypeOK
  <2>3. "accepted" \in ends'[n] <=> "accepted" \in ends[n]
    BY <1>7, EndKeeps DEF Bury
  <2> QED
    BY <1>7, <2>2, <2>3 DEF Bury, SameLedger
<1> QED
  BY <1>2, <1>3, <1>4, <1>5, <1>6, <1>7 DEF WorkerStep, ProcessMessage

\* Nobody else is engaged with what an engaged worker has, and it waits nowhere.
LEMMA WorkerAlone ==
  ASSUME TypeOK, IndexOK, OnePlace, NEW w \in Workers, worker[w].pc \in Engaged
  PROVE  /\ Id(w) \in Notifications
         /\ Wait(Id(w)) = {}
         /\ \A v \in Workers : worker[v].pc \in Engaged /\ Id(v) = Id(w) => v = w
<1> DEFINE n == Id(w)
           x == <<"worker", w>>
<1>1. n \in Notifications
  BY IdType DEF Engaged, Active
<1>2. x \in Works(n) /\ x[1] = "worker"
  BY DEF Works
<1>3. \A v \in Workers : worker[v].pc \in Engaged /\ Id(v) = n => v = w
  <2>1. \A v \in Workers : worker[v].pc \in Engaged /\ Id(v) = n => <<"worker", v>> \in Places(n)
    BY DEF Works, Places
  <2> QED
    BY <1>1, <2>1 DEF OnePlace
<1> HIDE DEF x
<1>4. Places(n) = {x}
  BY <1>1, <1>2, Alone DEF Places
<1>5. x \notin Wait(n)
  BY <1>2, Tags DEF Wait
<1> QED
  BY <1>1, <1>3, <1>4, <1>5 DEF Places

\* The other workers, and the notifications that wait.
LEMMA WorkerOthers ==
  ASSUME Reliable, TypeOK, IndexOK, KeyInv, OnePlace, LedgerInv, NEW w \in Workers, WorkerStep(w),
         UNCHANGED <<handler, due, pump>>
  PROVE  /\ OnePlace'
         /\ \A v \in Workers : v # w => WorkerOK(v)'
         /\ (ScheduleRetry(w) /\ delayed' # delayed => Level(Id(w))) => WaitOK'
<1>1. /\ \A n \in Notifications : Flow(n)
      /\ \A n \in Notifications : (ScheduleRetry(w) /\ delayed' # delayed /\ n = Id(w)) \/ WaitFlow(n)
  BY WorkerFlow
<1>2. Grown /\ UNCHANGED ctx /\ \A v \in Workers : v # w => worker'[v] = worker[v]
  BY WorkerFrame
<1>3. Send(w) \/ CountAttempt(w) \/ RecordAttempt(w) \/ Bury(w) => worker[w].pc \in Engaged
  BY DEF Send, CountAttempt, RecordAttempt, Bury, Engaged
<1>4. ASSUME NEW v \in Workers, v # w
      PROVE  WorkerOK(v)'
  <2>1. CASE worker[v].pc \notin Engaged
    BY <1>2, <1>4, <2>1, WorkerKept DEF LedgerInv
  <2>2. CASE worker[v].pc \in Engaged
    <3>1. Id(v) \in Notifications
      BY <2>2, WorkerAlone
    <3>2. SameLedger(Id(v))
      BY <1>3, <1>4, <2>2, <3>1, WorkerLedger, WorkerAlone
    <3> QED
      BY <1>2, <1>4, <3>2, WorkerKept DEF LedgerInv, Context
  <2> QED
    BY <2>1, <2>2
<1>5. \A n \in Notifications : Known(n)' <=> Known(n)
  BY WorkerTouches
<1>6. ASSUME ScheduleRetry(w) /\ delayed' # delayed => Level(Id(w)),
             NEW n \in Notifications, Wait(n)' # {} \/ ~Known(n)'
      PROVE  Level(n)'
  <2>1. Level(n)
    BY <1>1, <1>5, <1>6 DEF LedgerInv, WaitOK, WaitFlow
  <2>2. CASE SameLedger(n)
    BY <2>1, <2>2, LevelKept
  <2>3. CASE n = Id(w) /\ (Send(w) \/ CountAttempt(w) \/ RecordAttempt(w) \/ Bury(w))
    <3>1. Wait(n) = {} /\ Known(n)
      BY <1>3, <2>3, WorkerAlone, IdKnown DEF KeyInv, Engaged, Active
    <3>2. ~ScheduleRetry(w)
      BY <2>3 DEF ScheduleRetry, Send, CountAttempt, RecordAttempt, Bury
    <3> QED
      BY <1>1, <1>5, <1>6, <3>1, <3>2 DEF WaitFlow
  <2> QED
    BY <2>2, <2>3, WorkerLedger
<1> QED
  BY <1>1, <1>4, <1>6, FlowKeepsOnePlace DEF WaitOK

\* The types of a worker and its notification's ledger.
LEMMA LedgerTypes ==
  ASSUME TypeOK, IndexOK, NEW w \in Workers, Active(w)
  PROVE  /\ worker[w] \in WorkerRecord /\ worker[w].seen \in Nat /\ worker[w].ok \in BOOLEAN
         /\ Id(w) \in Notifications /\ WorkerHost[w] \in Instances
         /\ attemptCount[Id(w)] \in Nat /\ sends[Id(w)] \in Nat /\ dlq[Id(w)] \in Nat
         /\ attempts[Id(w)] \in Seq(Nat) /\ Len(attempts[Id(w)]) \in Nat
         /\ MaxRetriesOf[Id(w)] \in Nat /\ Promise!Budget(Id(w)) \in Nat
         /\ MaxRetriesOf[Id(w)] # 0 => Promise!Budget(Id(w)) = MaxRetriesOf[Id(w)]
         /\ MaxRetriesOf[Id(w)] = 0 => Promise!Budget(Id(w)) = 1
<1>1. worker[w] \in WorkerRecord
  BY DEF TypeOK, DispatcherTypeOK, WorkerRecord
<1>2. worker[w].seen \in Nat /\ worker[w].ok \in BOOLEAN
  BY <1>1 DEF WorkerRecord
<1>3. Id(w) \in Notifications
  BY IdType
<1>4. /\ attemptCount[Id(w)] \in Nat /\ sends[Id(w)] \in Nat /\ dlq[Id(w)] \in Nat
      /\ attempts[Id(w)] \in Seq(Nat)
  BY <1>3 DEF TypeOK, StoresTypeOK
<1>5. MaxRetriesOf[Id(w)] \in Nat /\ WorkerHost[w] \in Instances
  BY <1>3, StoresAssumption, DispatcherAssumption
<1> QED
  BY <1>1, <1>2, <1>3, <1>4, <1>5 DEF Promise!Budget

\* Turning to a message: it was waiting, so its ledger is level.
LEMMA TakeLevel ==
  ASSUME TypeOK, IndexOK, LedgerInv, NEW w \in Workers, UNCHANGED stream, NEW m, NEW S,
         Take(w, m, S), Subject(m) \in Notifications, Wait(Subject(m)) # {}, SameLedger(Subject(m))
  PROVE  WorkerOK(w)'
<1>1. worker'[w].msg = m /\ worker'[w].pc = "limit"
  BY DEF Take, TypeOK, DispatcherTypeOK
<1>2. Id(w)' = Subject(m)
  BY <1>1 DEF Id, Subject
<1>3. Level(Subject(m))
  BY DEF LedgerInv, WaitOK
<1>4. Level(Id(w))'
  BY <1>2, <1>3, LevelKept DEF Level, Undecided
<1> QED
  BY <1>1, <1>4 DEF WorkerOK, NotYetSent, Engaged, HasSent

\* Up to the send nothing is owed.
LEMMA BeforeSend ==
  ASSUME TypeOK, IndexOK, LedgerInv, NEW w \in Workers,
         Limit(w) \/ Fetch(w) \/ Claim(w)
  PROVE  WorkerOK(w)'
<1> USE DEF storeVars, redisVars, groupVars, pgVars, historyVars
<1>1. WorkerStep(w) /\ Active(w)
  BY DEF WorkerStep, ProcessMessage, Limit, Fetch, Claim, Active
<1>2. UNCHANGED stream /\ worker'[w].msg = worker[w].msg
  BY SameMessage
<1>3. Id(w) \in Notifications /\ Id(w)' = Id(w)
  BY <1>1, <1>2, LedgerTypes DEF Id, Subject
<1>4. SameLedger(Id(w))
  BY <1>1, <1>3, WorkerLedger DEF Limit, Fetch, Claim, Send, CountAttempt, RecordAttempt, Bury
<1>5. Level(Id(w))' <=> Level(Id(w))
  BY <1>3, <1>4 DEF Level, Undecided, SameLedger
<1>6. WorkerOK(w)
  BY DEF LedgerInv
<1>7. CASE Limit(w)
  <2>1. worker[w].pc = "limit" /\ worker'[w].pc = "fetch"
    BY <1>7, GotoPC DEF Limit
  <2> QED
    BY <1>5, <1>6, <2>1 DEF WorkerOK, NotYetSent, Engaged, HasSent
<1>8. CASE Fetch(w)
  <2>1. worker[w].pc = "fetch" /\ Level(Id(w))
    BY <1>6, <1>8 DEF Fetch, WorkerOK
  <2>2. \/ Goto(w, "ack")
        \/ worker' = [worker EXCEPT ![w].pc = "claim", ![w].seen = attemptCount[Id(w)]]
    BY <1>8, Zenon DEF Fetch
  <2>3. CASE Goto(w, "ack")
    BY <2>3, GotoPC DEF WorkerOK, NotYetSent, Engaged, HasSent
  <2>4. CASE worker' = [worker EXCEPT ![w].pc = "claim", ![w].seen = attemptCount[Id(w)]]
    <3>1. worker'[w].pc = "claim" /\ worker'[w].seen = attemptCount[Id(w)]
      BY <2>4 DEF TypeOK, DispatcherTypeOK
    <3>2. worker'[w].seen = sends'[Id(w)]
      BY <1>4, <2>1, <3>1 DEF Level, SameLedger
    <3> QED
      BY <1>3, <1>5, <2>1, <3>1, <3>2 DEF WorkerOK, NotYetSent, Engaged, HasSent
  <2> QED
    BY <2>2, <2>3, <2>4
<1>9. CASE Claim(w)
  <2>1. worker[w].pc = "claim" /\ (Goto(w, "send") \/ Goto(w, "noprov"))
    BY <1>9 DEF Claim
  <2>2. worker'[w].pc \in {"send", "noprov"} /\ worker'[w].seen = worker[w].seen
    BY <2>1, GotoSeen
  <2>3. Level(Id(w)) /\ worker[w].seen = sends[Id(w)]
    BY <1>6, <2>1 DEF WorkerOK, NotYetSent
  <2>4. worker'[w].seen = sends'[Id(w)]
    BY <1>4, <2>2, <2>3 DEF SameLedger
  <2> QED
    BY <1>3, <1>5, <2>2, <2>3, <2>4 DEF WorkerOK, NotYetSent, Engaged, HasSent
<1> QED
  BY <1>7, <1>8, <1>9

LEMMA SendLedger ==
  ASSUME TypeOK, IndexOK, LedgerInv, NEW w \in Workers, Send(w)
  PROVE  WorkerOK(w)'
<1> USE DEF redisVars, pgVars
<1>1. PICK ok \in BOOLEAN : Send(w)!(ok)
  BY DEF Send
<1> DEFINE n == Id(w)
<1>2. Active(w)
  BY <1>1 DEF Active
<1>3. worker'[w].msg = worker[w].msg /\ UNCHANGED stream
  BY SameMessage
<1>4. Id(w)' = n
  BY <1>3 DEF Id, Subject
<1>5. /\ worker'[w].pc = "count" /\ worker'[w].ok = ok /\ worker'[w].seen = worker[w].seen
  BY <1>1 DEF TypeOK, DispatcherTypeOK
<1>6. Level(n) /\ worker[w].seen = sends[n]
  BY <1>1 DEF LedgerInv, WorkerOK, NotYetSent
<1>7. /\ sends'[n] = sends[n] + 1
      /\ attemptCount'[n] = attemptCount[n] /\ attempts'[n] = attempts[n] /\ dlq'[n] = dlq[n]
  BY <1>1, <1>2, LedgerTypes DEF TypeOK, StoresTypeOK
<1>8. ~ok => ends'[n] = ends[n]
  BY <1>1, <1>2, LedgerTypes DEF End
<1>9. ~ok => Undecided(Id(w))'
  BY <1>4, <1>6, <1>7, <1>8 DEF Level, Undecided
<1>10. AttemptOK(w)'
  BY <1>2, <1>4, <1>5, <1>6, <1>7, LedgerTypes DEF AttemptOK, Level
<1> QED
  BY <1>5, <1>9, <1>10 DEF WorkerOK, NotYetSent

LEMMA CountLedger ==
  ASSUME Reliable, TypeOK, IndexOK, LedgerInv, NEW w \in Workers, CountAttempt(w)
  PROVE  WorkerOK(w)'
<1> USE DEF redisVars, historyVars
<1>1. PICK done \in Calls("pg", w) : CountAttempt(w)!(done)
  BY DEF CountAttempt
<1> DEFINE n == Id(w)
<1>2. Active(w) /\ worker[w].pc = "count"
  BY <1>1 DEF Active
<1>3. worker'[w].msg = worker[w].msg /\ UNCHANGED stream
  BY SameMessage
<1>4. Id(w)' = n
  BY <1>3 DEF Id, Subject
<1>5. worker'[w].pc = "record" /\ worker'[w].ok = worker[w].ok /\ worker'[w].seen = worker[w].seen
  BY <1>1, GotoPC, GotoSeen
<1>6. done \in BOOLEAN /\ (done <=> Context(w) = "running") /\ Context(w)' = Context(w)
  BY <1>1, <1>2, LedgerTypes, ReliableCalls DEF Calls, Context
<1>7. /\ sends'[n] = sends[n] /\ attempts'[n] = attempts[n] /\ dlq'[n] = dlq[n] /\ ends'[n] = ends[n]
  BY <1>1
<1>8. done => attemptCount'[n] = attemptCount[n] + 1
  BY <1>1, <1>2, LedgerTypes DEF IncrementAttempt, TypeOK, StoresTypeOK
<1>9. /\ ~worker[w].ok => Undecided(n)
      /\ Context(w) = "running" => AttemptOK(w)
  BY <1>2 DEF LedgerInv, WorkerOK, Engaged, HasSent
<1>10. Undecided(Id(w))' <=> Undecided(n)
  BY <1>4, <1>7 DEF Undecided
<1>11. ASSUME Context(w) = "running" PROVE AttemptOK(w)'
  BY <1>2, <1>4, <1>5, <1>6, <1>7, <1>8, <1>9, <1>11, LedgerTypes DEF AttemptOK
<1> QED
  BY <1>5, <1>6, <1>9, <1>10, <1>11 DEF WorkerOK, NotYetSent

\* A worker that has settled or handed on its message, or has none, owes nothing.
LEMMA Disengaged ==
  ASSUME NEW w, worker'[w].pc \notin Engaged
  PROVE  WorkerOK(w)'
<1>1. worker'[w].pc \notin {"limit", "fetch"} /\ worker'[w].pc \notin NotYetSent
  BY DEF Engaged, NotYetSent
<1>2. worker'[w].pc \notin {"requeue", "delay", "fail", "bury"}
  BY DEF Engaged
<1> QED
  BY <1>1, <1>2, Zenon DEF WorkerOK

LEMMA RecordLedger ==
  ASSUME Reliable, TypeOK, IndexOK, LedgerInv, NEW w \in Workers, RecordAttempt(w)
  PROVE  WorkerOK(w)' /\ AttemptsAreNumbered'
<1> USE DEF redisVars, historyVars
<1>1. PICK done \in Calls("pg", w) : RecordAttempt(w)!(done)
  BY DEF RecordAttempt
<1> DEFINE n == Id(w)
           seen == worker[w].seen
<1>2. Active(w) /\ worker[w].pc = "record"
  BY <1>1 DEF Active
<1>3. worker'[w].msg = worker[w].msg /\ UNCHANGED stream
  BY SameMessage
<1>4. Id(w)' = n
  BY <1>3 DEF Id, Subject
<1>5. /\ worker'[w].ok = worker[w].ok /\ worker'[w].seen = seen
      /\ worker'[w].pc = IF worker[w].ok THEN "deliver"
                         ELSE IF ShouldRetry(seen + 1, MaxRetriesOf[n]) THEN "requeue" ELSE "fail"
  BY <1>1, GotoPC, GotoSeen
<1>6. done \in BOOLEAN /\ (done <=> Context(w) = "running") /\ Context(w)' = Context(w)
  BY <1>1, <1>2, LedgerTypes, ReliableCalls DEF Calls, Context
<1>7. /\ sends'[n] = sends[n] /\ attemptCount'[n] = attemptCount[n]
      /\ dlq'[n] = dlq[n] /\ ends'[n] = ends[n]
  BY <1>1
<1>8. attempts' = IF done THEN [attempts EXCEPT ![n] = Append(@, seen + 1)] ELSE attempts
  BY <1>1 DEF CreateDeliveryAttempt
<1>9. done => attempts'[n] = Append(attempts[n], seen + 1)
  BY <1>2, <1>8, LedgerTypes DEF TypeOK, StoresTypeOK
<1>10. /\ ~worker[w].ok => Undecided(n)
       /\ Context(w) = "running" => AttemptOK(w)
  BY <1>2 DEF LedgerInv, WorkerOK, Engaged, HasSent
<1>11. Undecided(Id(w))' <=> Undecided(n)
  BY <1>4, <1>7 DEF Undecided
<1>12. done => Len(attempts[n]) = seen /\ Len(attempts'[n]) = seen + 1
  BY <1>2, <1>6, <1>9, <1>10, LedgerTypes DEF AttemptOK
<1>13. ASSUME worker[w].ok PROVE WorkerOK(w)'
  <2>1. worker'[w].pc = "deliver"
    BY <1>5, <1>13, Zenon
  <2> QED
    BY <2>1, Disengaged DEF Engaged
<1>14. ASSUME ~worker[w].ok PROVE WorkerOK(w)'
  <2>1. \/ worker'[w].pc = "requeue" /\ seen + 1 < MaxRetriesOf[n]
        \/ worker'[w].pc = "fail" /\ MaxRetriesOf[n] <= seen + 1
    <3>1. worker'[w].pc = IF ShouldRetry(seen + 1, MaxRetriesOf[n]) THEN "requeue" ELSE "fail"
      BY <1>5, <1>14, Zenon
    <3> QED
      BY <1>2, <3>1, LedgerTypes DEF ShouldRetry
  <2>2. ASSUME Context(w) = "running" PROVE AttemptOK(w)'
    BY <1>2, <1>4, <1>5, <1>6, <1>7, <1>10, <1>12, <2>1, <2>2 DEF AttemptOK
  <2>3. ~worker'[w].ok /\ Undecided(Id(w))'
    BY <1>5, <1>10, <1>11, <1>14, Zenon
  <2>4. worker'[w].pc \notin {"limit", "fetch"} /\ worker'[w].pc \notin NotYetSent
    BY <2>1 DEF NotYetSent
  <2> QED
    BY <1>6, <2>2, <2>3, <2>4, Zenon DEF WorkerOK
<1>15. AttemptsAreNumbered'
  <2> SUFFICES ASSUME NEW x \in Notifications, NEW k \in DOMAIN attempts'[x]
               PROVE  attempts'[x][k] = k
    BY DEF AttemptsAreNumbered
  <2>1. CASE attempts'[x] = attempts[x]
    BY <2>1 DEF LedgerInv, AttemptsAreNumbered
  <2>2. CASE x = n /\ done
    <3>1. attempts[n] \in Seq(Nat) /\ seen \in Nat /\ n \in Notifications
      BY <1>2, LedgerTypes
    <3>2. k \in 1 .. seen + 1
      BY <1>9, <1>12, <2>2, <3>1
    <3>3. CASE k = seen + 1
      BY <1>9, <1>12, <2>2, <3>1, <3>3
    <3>4. CASE k \in 1 .. seen
      <4>1. k \in DOMAIN attempts[n] /\ attempts'[n][k] = attempts[n][k]
        BY <1>9, <1>12, <2>2, <3>1, <3>4
      <4> QED
        BY <2>2, <3>1, <4>1 DEF LedgerInv, AttemptsAreNumbered
    <3> QED
      BY <3>1, <3>2, <3>3, <3>4
  <2>3. x # n \/ ~done => attempts'[x] = attempts[x]
    BY <1>8 DEF TypeOK, StoresTypeOK
  <2> QED
    BY <2>1, <2>2, <2>3
<1> QED
  BY <1>13, <1>14, <1>15

LEMMA OutcomeLedger ==
  ASSUME TypeOK, IndexOK, LedgerInv, NEW w \in Workers, SetQueued(w) \/ SetFailed(w)
  PROVE  WorkerOK(w)'
<1> USE DEF redisVars, historyVars
<1>1. WorkerStep(w) /\ Active(w)
  BY DEF WorkerStep, ProcessMessage, SetQueued, SetFailed, SetOutcome, Active
<1>2. \/ worker[w].pc = "requeue" /\ Goto(w, "delay")
      \/ worker[w].pc = "fail" /\ Goto(w, "bury")
  BY DEF SetQueued, SetFailed, SetOutcome
<1>3. UNCHANGED <<stream, ctx>> /\ worker'[w].msg = worker[w].msg
  BY SameMessage
<1>4. Id(w) \in Notifications /\ Id(w)' = Id(w)
  BY <1>1, <1>3, LedgerTypes DEF Id, Subject
<1>5. SameLedger(Id(w))
  BY <1>1, <1>2, <1>4, WorkerLedger DEF Send, CountAttempt, RecordAttempt, Bury
<1>6. /\ worker'[w].ok = worker[w].ok /\ worker'[w].seen = worker[w].seen
      /\ \/ worker[w].pc = "requeue" /\ worker'[w].pc = "delay"
         \/ worker[w].pc = "fail" /\ worker'[w].pc = "bury"
  BY <1>2, GotoPC, GotoSeen
<1>7. /\ ~worker[w].ok /\ Undecided(Id(w))
      /\ Context(w) = "running" => AttemptOK(w)
  BY <1>2 DEF LedgerInv, WorkerOK, Engaged, HasSent
<1>8. Undecided(Id(w))'
  BY <1>4, <1>5, <1>7 DEF Undecided, SameLedger
<1>9. AttemptOK(w) => AttemptOK(w)'
  BY <1>4, <1>5, <1>6 DEF AttemptOK, SameLedger
<1>10. Context(w)' = Context(w)
  BY <1>3 DEF Context
<1> QED
  BY <1>6, <1>7, <1>8, <1>9, <1>10 DEF WorkerOK, NotYetSent

LEMMA WorkerSelf ==
  ASSUME Reliable, TypeOK, IndexOK, LedgerInv, NEW w \in Workers, WorkerStep(w)
  PROVE  WorkerOK(w)' /\ AttemptsAreNumbered'
<1> USE DEF storeVars, redisVars, groupVars, pgVars, historyVars
<1>1. UNCHANGED stream
  BY ProcessMessageFrame DEF WorkerStep, Read, ReadLost, ReadNothing
<1>2. ~ReadLost(w)
  BY DEF ReadLost, Reliable
<1>3. AttemptsAreNumbered' \/ RecordAttempt(w)
  <2>1. UNCHANGED attempts \/ RecordAttempt(w)
    BY Zenon DEF WorkerStep, ProcessMessage, Read, ReadLost, ReadNothing, Limit, LimitAborted, Fetch,
       FetchFailed, Claim, NoProvider, Send, CountAttempt, SetDelivered, SetQueued,
       SetFailed, SetOutcome, ScheduleRetry, Bury, Acknowledge
  <2> QED
    BY <2>1 DEF LedgerInv, AttemptsAreNumbered
<1>4. CASE \/ FetchFailed(w) \/ NoProvider(w) \/ SetDelivered(w) \/ ScheduleRetry(w) \/ Bury(w)
  <2>1. Goto(w, "ack")
    BY <1>4 DEF FetchFailed, NoProvider, SetDelivered, SetOutcome, ScheduleRetry, Bury
  <2>2. worker'[w].pc = "ack"
    BY <2>1, GotoPC
  <2> QED
    BY <1>3, <1>4, <2>2 DEF WorkerOK, NotYetSent, Engaged, RecordAttempt, FetchFailed, NoProvider,
       SetDelivered, SetOutcome, ScheduleRetry, Bury
<1>5. CASE ReadNothing(w)
  <2>1. worker[w].pc = "reading" /\ (worker' = worker \/ Goto(w, "stopped"))
    BY <1>5 DEF ReadNothing
  <2>2. worker'[w].pc \notin Engaged
    BY <2>1, GotoPC DEF Engaged
  <2> QED
    BY <1>3, <2>1, <2>2 DEF WorkerOK, NotYetSent, Engaged, RecordAttempt
<1>6. CASE Read(w)
  <2>1. PICK m \in Fresh : Take(w, m, Fresh)
    BY <1>6 DEF Read
  <2>2. m \in Unread
    BY <1>1, <1>6, FreshUnread DEF Read
  <2>3. Subject(m) \in Notifications
    <3>1. m[1] \in Priority /\ m[2] = lastDelivered[m[1]] + 1 /\ lastDelivered[m[1]] < Len(stream[m[1]])
      BY DEF Fresh, Undelivered
    <3>2. stream[m[1]] \in Seq(Notifications) /\ lastDelivered[m[1]] \in Nat
      BY <3>1 DEF TypeOK, StoresTypeOK
    <3>3. m[2] \in 1 .. Len(stream[m[1]])
      BY <3>1, <3>2
    <3> QED
      BY <3>2, <3>3 DEF Subject
  <2>4. Wait(Subject(m)) # {}
    BY <2>2 DEF Wait, Entries
  <2>5. SameLedger(Subject(m))
    BY <1>6, <2>3, WorkerLedger DEF Read, Send, CountAttempt, RecordAttempt, Bury
  <2> QED
    BY <1>1, <1>3, <1>6, <2>1, <2>3, <2>4, <2>5, TakeLevel DEF Read, RecordAttempt
<1>7. CASE LimitAborted(w) \/ Acknowledge(w)
  <2>1. Advance(w) /\ worker[w].pc \in {"limit", "ack"}
    BY <1>7 DEF LimitAborted, Acknowledge
  <2>2. ASSUME NEW m \in worker[w].rest, Take(w, m, worker[w].rest)
        PROVE  WorkerOK(w)'
    <3>1. Subject(m) \in Notifications
      BY SubjectType DEF IndexOK
    <3>2. <<"read", w, m>> \in Reads(Subject(m))
      BY DEF Reads
    <3>3. Wait(Subject(m)) # {}
      BY <3>2 DEF Wait
    <3>4. SameLedger(Subject(m))
      BY <2>1, <3>1, WorkerLedger DEF Send, CountAttempt, RecordAttempt, Bury
    <3> QED
      BY <1>1, <2>2, <3>1, <3>3, <3>4, TakeLevel
  <2>3. ASSUME worker[w].rest = {} PROVE WorkerOK(w)'
    <3>1. worker'[w].pc \in {"reading", "stopped"}
      BY <2>1, <2>3 DEF Advance, NewWorker, TypeOK, DispatcherTypeOK
    <3> QED
      BY <3>1, Disengaged DEF Engaged
  <2>4. WorkerOK(w)'
    BY <2>1, <2>2, <2>3 DEF Advance
  <2> QED
    BY <1>3, <2>1, <2>4 DEF RecordAttempt
<1>8. CASE Limit(w) \/ Fetch(w) \/ Claim(w)
  BY <1>3, <1>8, BeforeSend DEF Limit, Fetch, Claim, RecordAttempt
<1>9. CASE Send(w) \/ CountAttempt(w)
  BY <1>3, <1>9, SendLedger, CountLedger DEF Send, CountAttempt, RecordAttempt
<1>10. CASE SetQueued(w) \/ SetFailed(w)
  BY <1>3, <1>10, OutcomeLedger DEF SetQueued, SetFailed, SetOutcome, RecordAttempt
<1> QED
  BY <1>2, <1>4, <1>5, <1>6, <1>7, <1>8, <1>9, <1>10, RecordLedger DEF WorkerStep, ProcessMessage

\* A worker that schedules a retry has an attempt left, all of them recorded.
LEMMA RetryIsLevel ==
  ASSUME Reliable, TypeOK, IndexOK, LedgerInv, NEW w \in Workers, ScheduleRetry(w), delayed' # delayed
  PROVE  Level(Id(w))
<1>1. PICK done \in Calls("redis", w) : ScheduleRetry(w)!(done)
  BY DEF ScheduleRetry
<1>2. worker[w].pc = "delay" /\ Active(w)
  BY <1>1 DEF Active
<1>3. done
  BY <1>1, Zenon DEF EnqueueDelayed
<1>4. Context(w) = "running"
  BY <1>2, <1>3, LedgerTypes, ReliableCalls DEF Calls, Context
<1>5. AttemptOK(w) /\ Undecided(Id(w))
  BY <1>2, <1>4 DEF LedgerInv, WorkerOK, Engaged, HasSent
<1> QED
  BY <1>2, <1>5, LedgerTypes DEF AttemptOK, Level

LEMMA PlaceNext ==
  ASSUME Reliable, TypeOK, IndexOK, KeyInv, PlaceInv, [Next]_vars
  PROVE  PlaceInv'
<1>1. PumpOK'
  BY PumpNext DEF PlaceInv
<1>2. LedgerInv /\ OnePlace
  BY DEF PlaceInv, LedgerInv
<1>3. ASSUME NEW w \in Workers, WorkerStep(w), UNCHANGED <<handler, due, pump>>
      PROVE  OnePlace' /\ LedgerInv'
  <2>1. WorkerOK(w)' /\ AttemptsAreNumbered'
    BY <1>2, <1>3, WorkerSelf
  <2>2. /\ OnePlace'
        /\ \A v \in Workers : v # w => WorkerOK(v)'
        /\ (ScheduleRetry(w) /\ delayed' # delayed => Level(Id(w))) => WaitOK'
    BY <1>2, <1>3, WorkerOthers
  <2>3. WaitOK'
    BY <1>2, <2>2, RetryIsLevel
  <2> QED
    BY <2>1, <2>2, <2>3 DEF LedgerInv
<1>4. OnePlace' /\ LedgerInv'
  BY <1>2, <1>3, OthersLedger DEF PlaceInv
<1> QED
  BY <1>1, <1>4 DEF PlaceInv, LedgerInv

LEMMA PlaceInit == Init => PlaceInv
<1> SUFFICES ASSUME Init PROVE PlaceInv
  OBVIOUS
<1> USE DEF Init, StoresInit, ServiceInit, SchedulerInit, DelayedRetryInit, DispatcherInit
<1>1. TypeOK /\ IndexOK /\ KeyInv
  BY InitOK, KeyInit
<1>2. \A n \in Notifications : ~Known(n)
  BY DEF Known
<1>3. \A n \in Notifications : Places(n) = {}
  BY <1>1, <1>2, Absent
<1>4. OnePlace
  BY <1>3 DEF OnePlace
<1>5. ASSUME NEW n \in Notifications PROVE Level(n)
  <2>1. MaxRetriesOf[n] \in Nat
    BY StoresAssumption
  <2>2. Promise!Budget(n) \in Nat /\ Promise!Budget(n) > 0
    BY <2>1 DEF Promise!Budget
  <2> QED
    BY <2>2 DEF Level, Undecided
<1>6. \A w \in Workers : WorkerOK(w)
  BY DEF WorkerOK, NewWorker, NotYetSent, Engaged
<1>7. PumpOK
  BY DEF PumpOK, IdlePump
<1>8. AttemptsAreNumbered
  BY DEF AttemptsAreNumbered
<1> QED
  BY <1>4, <1>5, <1>6, <1>7, <1>8 DEF PlaceInv, WaitOK

-----------------------------------------------------------------------------

LEMMA PlaceCorrect ==
  ASSUME Reliable
  PROVE  Spec => [](TypeOK /\ IndexOK /\ KeyInv /\ PlaceInv)
<1>1. Init => TypeOK /\ IndexOK /\ KeyInv /\ PlaceInv
  BY InitOK, KeyInit, PlaceInit
<1>2. TypeOK /\ IndexOK /\ KeyInv /\ PlaceInv /\ [Next]_vars
        => TypeOK' /\ IndexOK' /\ KeyInv' /\ PlaceInv'
  BY NextOK, KeyNext, PlaceNext
<1> QED
  BY <1>1, <1>2, PTL DEF Spec

\* With one process and stores that answer, a notification is in one place at
\* a time, whatever clients, signals and crashes do: the handler, the
\* scheduler, the workers and the pump never make a second copy of it.
THEOREM OneCarrier ==
  ASSUME Reliable
  PROVE  Spec => []AtMostOneCarrier
<1>1. PlaceInv => AtMostOneCarrier
  <2> SUFFICES ASSUME PlaceInv, NEW n \in Notifications
               PROVE  \A a, b \in Copies(n) : a = b
    BY DEF AtMostOneCarrier
  <2>1. \A w \in Workers : Processing(w, n) => worker[w].pc \in Engaged /\ Id(w) = n
    BY DEF Processing, Unsettled, Engaged
  <2>2. {<<"worker", w>> : w \in {w \in Workers : Processing(w, n)}} \subseteq Works(n)
    BY <2>1 DEF Works
  <2>3. Copies(n) \subseteq Places(n)
    BY <2>2 DEF Copies, Places, Wait, Rows, Sorted, Jobs, Dues, Hands, Entries, Reads
  <2> QED
    BY <2>3 DEF PlaceInv, OnePlace
<1> QED
  BY <1>1, PlaceCorrect, PTL

\* Under the same conditions the recorded attempts of a notification are
\* numbered 1, 2, 3, ..., although each number was computed from a count that
\* was fetched several calls earlier.
THEOREM AttemptsStayNumbered ==
  ASSUME Reliable
  PROVE  Spec => []AttemptsAreNumbered
<1>1. PlaceInv => AttemptsAreNumbered
  BY DEF PlaceInv
<1> QED
  BY <1>1, PlaceCorrect, PTL

-----------------------------------------------------------------------------
\* The refinement of Delivery: what a client sees of each step.

Stored == {n \in Notifications : status[n] # "absent"}
Confirmed == {n \in Notifications : "accepted" \in ends[n]}
Buried == {n \in Notifications : dlq[n] > 0}
promiseVars == <<Stored, sends, Confirmed, Buried>>

\* The client sees nothing of n.
Unseen(n) ==
  /\ Known(n)' <=> Known(n)
  /\ dlq'[n] = dlq[n] /\ ("accepted" \in ends'[n] <=> "accepted" \in ends[n])

LEMMA UnseenStutters ==
  ASSUME UNCHANGED sends, \A n \in Notifications : Unseen(n)
  PROVE  UNCHANGED promiseVars
<1>1. Stored' = Stored
  BY DEF Stored, Unseen, Known
<1>2. Confirmed' = Confirmed
  BY DEF Confirmed, Unseen
<1>3. Buried' = Buried
  BY DEF Buried, Unseen
<1> QED
  BY <1>1, <1>2, <1>3 DEF promiseVars

LEMMA SubmitRefines ==
  ASSUME TypeOK, NEW h \in Handlers, NEW S \in SUBSET Notifications, NEW deferred, NEW replied,
         Submit(h, S, deferred, replied)
  PROVE  Promise!Submit(S)
<1> USE DEF redisVars
<1>1. \A n \in S : status[n] = "absent"
  BY DEF Submit, Insertable
<1>2. S \cap Stored = {}
  BY <1>1 DEF Stored
<1>3. Stored' = Stored \cup S
  <2>1. \A n \in S : status'[n] = "scheduled" \/ status'[n] = "pending"
    BY DEF Submit, Insert
  <2>2. \A n \in Notifications \ S : status'[n] = status[n]
    BY DEF Submit, Insert
  <2> QED
    BY <2>1, <2>2 DEF Stored
<1>4. UNCHANGED <<sends, dlq>>
  BY DEF Submit
<1>5. \A n \in Notifications : "accepted" \in ends'[n] <=> "accepted" \in ends[n]
  BY EndKeeps DEF Submit
<1>6. Confirmed' = Confirmed /\ Buried' = Buried
  BY <1>4, <1>5 DEF Confirmed, Buried
<1> QED
  BY <1>2, <1>3, <1>4, <1>6 DEF Promise!Submit, Stored, Confirmed, Buried

LEMMA HandlerRefines ==
  ASSUME TypeOK, KeyInv, NEW h \in Handlers, HandlerStep(h)
  PROVE  Promise!Next \/ UNCHANGED promiseVars
<1> USE DEF storeVars, pgVars, redisVars, groupVars, historyVars
<1>1. handler \in [Handlers -> [job : SUBSET Notifications, mark : SUBSET Notifications]]
  BY DEF TypeOK, ServiceTypeOK
<1>2. CASE Create(h)
  <2>1. PICK n \in Notifications : \E deferred \in SUBSET {n}, replied \in BOOLEAN :
               Submit(h, {n}, deferred, replied)
    BY <1>2 DEF Create
  <2>2. {n} \in SUBSET Notifications
    OBVIOUS
  <2> QED
    BY <2>1, <2>2, SubmitRefines DEF Promise!Next
<1>3. CASE CreateBatch(h)
  <2>1. PICK S \in BatchInputs : \E deferred \in SUBSET S, replied \in BOOLEAN :
               Submit(h, S, deferred, replied)
    BY <1>3 DEF CreateBatch
  <2>2. S \in SUBSET Notifications
    BY ServiceAssumption
  <2> QED
    BY <2>1, <2>2, SubmitRefines DEF Promise!Next
<1>4. CASE EnqueueNext(h)
  <2>1. /\ UNCHANGED <<status, dlq, sends>>
        /\ \E S : End(S, "unqueued")
    BY <1>4 DEF EnqueueNext
  <2>2. \A n \in Notifications : Unseen(n)
    BY <2>1, EndKeeps DEF Unseen, Known
  <2> QED
    BY <2>1, <2>2, UnseenStutters
<1>5. CASE MarkQueued(h)
  <2>1. PICK x \in handler[h].mark, done \in BOOLEAN : MarkQueued(h)!(x, done)
    BY <1>5 DEF MarkQueued
  <2>2. x \in Notifications /\ Known(x)
    BY <1>1 DEF KeyInv, StoredOnly
  <2>3. \A n \in Notifications : Known(n)' <=> Known(n)
    BY <2>1, <2>2, UpdateKnown DEF Status
  <2>4. UNCHANGED <<dlq, sends, ends>>
    BY <2>1
  <2> QED
    BY <2>3, <2>4, UnseenStutters DEF Unseen
<1> QED
  BY <1>2, <1>3, <1>4, <1>5 DEF HandlerStep

LEMMA BackgroundStutters ==
  ASSUME TypeOK,
         \/ \E n \in Notifications : Cancel(n)
         \/ \E i \in Instances : SchedulerStep(i) \/ DelayedRetryStep(i)
         \/ \E i \in Instances : Stop(i) \/ Crash(i) \/ Exit(i) \/ Start(i)
  PROVE  UNCHANGED promiseVars
<1> USE DEF storeVars, pgVars, redisVars, groupVars, historyVars
<1>1. ASSUME UNCHANGED <<dlq, sends>>, \A n \in Notifications : Known(n)' <=> Known(n),
             \/ UNCHANGED ends
             \/ \E S : End(S, "dropped") \/ End(S, "withdrawn")
             \/ \E i \in Instances : Halt(i)
      PROVE  UNCHANGED promiseVars
  <2>1. \A n \in Notifications : "accepted" \in ends'[n] <=> "accepted" \in ends[n]
    BY <1>1, EndKeeps, HaltKeeps
  <2> QED
    BY <1>1, <2>1, UnseenStutters DEF Unseen
<1>2. ASSUME NEW n \in Notifications, Cancel(n) PROVE UNCHANGED promiseVars
  <2>1. status' = [status EXCEPT ![n] = "cancelled"] /\ status[n] # "absent"
    BY <1>2 DEF Cancel, UpdateStatus, CancellableStatus
  <2>2. \A x \in Notifications : Known(x)' <=> Known(x)
    BY <2>1 DEF Known, TypeOK, StoresTypeOK
  <2> QED
    BY <1>1, <1>2, <2>2 DEF Cancel
<1>3. ASSUME NEW i \in Instances, FetchScheduledDue(i) PROVE UNCHANGED promiseVars
  <2>1. PICK S \in SUBSET Claimable : \E got \in SUBSET S : FetchScheduledDue(i)!(S)!(got)
    BY <1>3 DEF FetchScheduledDue
  <2>2. \A x \in Notifications : Known(x)' <=> Known(x)
    BY <2>1 DEF Known, Claimable
  <2> QED
    BY <1>1, <2>1, <2>2
<1>4. ASSUME NEW i \in Instances,
             EnqueueDue(i) \/ DelayedRetryStep(i) \/ Stop(i) \/ Crash(i) \/ Exit(i) \/ Start(i)
      PROVE  UNCHANGED promiseVars
  <2>1. UNCHANGED <<status, dlq, sends>>
    BY <1>4 DEF EnqueueDue, DelayedRetryStep, RangeDelayed, RemovePopped, Reenqueue, Stop, Crash,
       Exit, Halt, Start
  <2>2. UNCHANGED ends \/ (\E S : End(S, "dropped")) \/ Halt(i)
    BY <1>4 DEF EnqueueDue, DelayedRetryStep, RangeDelayed, RemovePopped, Reenqueue, Stop, Crash,
       Exit, Halt, Start
  <2> QED
    BY <1>1, <2>1, <2>2 DEF Known
<1> QED
  BY <1>2, <1>3, <1>4 DEF SchedulerStep

LEMMA SendRefines ==
  ASSUME TypeOK, IndexOK, KeyInv, PlaceInv, NEW w \in Workers, Send(w),
         NEW n \in Notifications, n = Id(w)
  PROVE  Promise!Attempt(n)
<1> USE DEF pgVars, redisVars
<1>1. PICK ok \in BOOLEAN : Send(w)!(ok)
  BY DEF Send
<1>2. Active(w) /\ worker[w].pc = "send"
  BY <1>1 DEF Active
<1>3. n \in Notifications /\ Known(n)
  BY <1>2, IdKnown DEF KeyInv
<1>4. Level(n)
  BY <1>2 DEF PlaceInv, WorkerOK, NotYetSent
<1>5. n \in Stored \ (Confirmed \cup Buried)
  BY <1>3, <1>4 DEF Level, Undecided, Stored, Confirmed, Buried, Known
<1>6. sends[n] < Promise!Budget(n)
  BY <1>4 DEF Level
<1>7. sends' = [sends EXCEPT ![n] = @ + 1] /\ UNCHANGED <<status, dlq>>
  BY <1>1
<1>8. Stored' = Stored /\ Buried' = Buried
  BY <1>7 DEF Stored, Buried
<1>9. Confirmed' = Confirmed \/ Confirmed' = Confirmed \cup {n}
  <2>1. End({n}, "accepted") \/ End({}, "accepted")
    BY <1>1, Zenon
  <2>2. CASE End({n}, "accepted")
    BY <1>3, <2>2 DEF End, Confirmed
  <2>3. CASE End({}, "accepted")
    BY <2>3 DEF End, Confirmed
  <2> QED
    BY <2>1, <2>2, <2>3
<1> QED
  BY <1>5, <1>6, <1>7, <1>8, <1>9 DEF Promise!Attempt, Promise!Open, Stored, Confirmed, Buried

LEMMA BuryRefines ==
  ASSUME Reliable, TypeOK, IndexOK, KeyInv, PlaceInv, NEW w \in Workers, Bury(w),
         NEW n \in Notifications, n = Id(w)
  PROVE  Promise!Bury(n) \/ UNCHANGED promiseVars
<1> USE DEF pgVars
<1>1. PICK done \in Calls("redis", w) : Bury(w)!(done)
  BY DEF Bury
<1>2. Active(w) /\ worker[w].pc = "bury"
  BY <1>1 DEF Active
<1>3. n \in Notifications /\ Known(n)
  BY <1>2, IdKnown DEF KeyInv
<1>4. \A x \in Notifications : "accepted" \in ends'[x] <=> "accepted" \in ends[x]
  BY <1>1, EndKeeps
<1>5. UNCHANGED <<status, sends>> /\ \A x \in Notifications : Known(x)' <=> Known(x)
  BY <1>1 DEF Known
<1>6. done \in BOOLEAN /\ (done <=> Context(w) = "running")
  BY <1>2, LedgerTypes, ReliableCalls DEF Calls, Context
<1>7. CASE ~done
  <2>1. dlq' = dlq
    BY <1>1, <1>7, Zenon DEF Push
  <2> QED
    BY <1>4, <1>5, <2>1, UnseenStutters DEF Unseen
<1>8. CASE done
  <2>1. dlq' = [dlq EXCEPT ![n] = @ + 1]
    BY <1>1, <1>8, Zenon DEF Push
  <2>2. AttemptOK(w) /\ Undecided(n)
    BY <1>2, <1>6, <1>8 DEF PlaceInv, WorkerOK, Engaged, HasSent
  <2>3. sends[n] = Promise!Budget(n)
    BY <1>2, <2>2, LedgerTypes DEF AttemptOK
  <2>4. n \in Stored \ (Confirmed \cup Buried)
    BY <1>3, <2>2 DEF Undecided, Stored, Confirmed, Buried, Known
  <2>5. Stored' = Stored /\ Confirmed' = Confirmed
    BY <1>4, <1>5 DEF Stored, Confirmed
  <2>6. Buried' = Buried \cup {n}
    <3>1. dlq \in [Notifications -> Nat]
      BY DEF TypeOK, StoresTypeOK
    <3>2. dlq'[n] > 0 /\ \A x \in Notifications : x # n => dlq'[x] = dlq[x]
      BY <1>3, <2>1, <3>1
    <3> QED
      BY <1>3, <3>2 DEF Buried
  <2> QED
    BY <1>5, <2>3, <2>4, <2>5, <2>6 DEF Promise!Bury, Promise!Open, Stored, Confirmed, Buried
<1> QED
  BY <1>6, <1>7, <1>8

LEMMA WorkerRefines ==
  ASSUME Reliable, TypeOK, IndexOK, KeyInv, PlaceInv, NEW w \in Workers, WorkerStep(w)
  PROVE  Promise!Next \/ UNCHANGED promiseVars
<1>1. Active(w) => Id(w) \in Notifications
  BY IdType
<1>2. CASE Send(w)
  <2>1. PICK n \in Notifications : n = Id(w)
    BY <1>1, <1>2 DEF Send, Active
  <2>2. Promise!Attempt(n)
    BY <1>2, <2>1, SendRefines
  <2> QED
    BY <2>1, <2>2 DEF Promise!Next
<1>3. CASE Bury(w)
  <2>1. PICK n \in Notifications : n = Id(w)
    BY <1>1, <1>3 DEF Bury, Active
  <2>2. Promise!Bury(n) \/ UNCHANGED promiseVars
    BY <1>3, <2>1, BuryRefines
  <2> QED
    BY <2>1, <2>2 DEF Promise!Next
<1>4. CASE ~Send(w) /\ ~Bury(w)
  <2>1. \A n \in Notifications : Known(n)' <=> Known(n)
    BY WorkerTouches
  <2>2. \A n \in Notifications :
          sends'[n] = sends[n] /\ dlq'[n] = dlq[n] /\ ("accepted" \in ends'[n] <=> "accepted" \in ends[n])
    <3> SUFFICES ASSUME NEW n \in Notifications
                 PROVE  /\ sends'[n] = sends[n] /\ dlq'[n] = dlq[n]
                        /\ "accepted" \in ends'[n] <=> "accepted" \in ends[n]
      OBVIOUS
    <3>1. CASE SameLedger(n)
      BY <3>1 DEF SameLedger
    <3>2. CASE CountAttempt(w) \/ RecordAttempt(w)
      BY <3>2 DEF CountAttempt, RecordAttempt, redisVars, historyVars
    <3> QED
      BY <1>4, <3>1, <3>2, WorkerLedger
  <2>3. sends' = sends
    BY <1>4 DEF WorkerStep, ProcessMessage, Read, ReadLost, ReadNothing, Limit, LimitAborted, Fetch,
       FetchFailed, Claim, NoProvider, CountAttempt, RecordAttempt, SetDelivered, SetQueued,
       SetFailed, SetOutcome, ScheduleRetry, Acknowledge, storeVars, historyVars
  <2> QED
    BY <2>1, <2>2, <2>3, UnseenStutters DEF Unseen
<1> QED
  BY <1>2, <1>3, <1>4

LEMMA NextRefines ==
  ASSUME Reliable, TypeOK, IndexOK, KeyInv, PlaceInv, [Next]_vars
  PROVE  Promise!Next \/ UNCHANGED promiseVars
<1>1. CASE \E h \in Handlers : HandlerStep(h)
  BY <1>1, HandlerRefines
<1>2. CASE \/ \E n \in Notifications : Cancel(n)
           \/ \E i \in Instances : SchedulerStep(i) \/ DelayedRetryStep(i)
           \/ \E i \in Instances : Stop(i) \/ Crash(i) \/ Exit(i) \/ Start(i)
  BY <1>2, BackgroundStutters
<1>3. CASE \E w \in Workers : WorkerStep(w)
  BY <1>3, WorkerRefines
<1>4. CASE UNCHANGED vars
  BY <1>4, UnseenStutters DEF vars, storeVars, pgVars, redisVars, historyVars, Unseen, Known
<1> QED
  BY <1>1, <1>2, <1>3, <1>4 DEF Next

\* One process whose stores answer keeps the promise of Delivery: an insert is
\* a submission, a call of the provider an attempt within the budget, a push
\* to the dead letter queue the one burial of a notification whose budget is
\* used up, and every other step is invisible to the client.
THEOREM PromiseKept ==
  ASSUME Reliable
  PROVE  Spec => KeepsPromise
<1>1. Init => Promise!Init
  BY DEF Init, StoresInit, Promise!Init
<1>2. TypeOK /\ IndexOK /\ KeyInv /\ PlaceInv /\ [Next]_vars
        => [Promise!Next]_<<{n \in Notifications : status[n] # "absent"}, sends,
                            {n \in Notifications : "accepted" \in ends[n]},
                            {n \in Notifications : dlq[n] > 0}>>
  <2>1. ASSUME TypeOK, IndexOK, KeyInv, PlaceInv, [Next]_vars
        PROVE  Promise!Next \/ UNCHANGED promiseVars
    BY <2>1, NextRefines
  <2> QED
    BY <2>1, Zenon DEF promiseVars, Stored, Confirmed, Buried
<1> QED
  BY <1>1, <1>2, PlaceCorrect, PTL DEF Spec, KeepsPromise, Promise!Spec

=============================================================================
