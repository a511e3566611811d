-------------------------- MODULE RateLimiterProofs --------------------------
(***************************************************************************)
(* Theorems about the sliding-window limiter, for any number of callers,   *)
(* limit, window, delay no longer than it, and supply of random numbers.   *)
(*                                                                         *)
(* WindowBound speaks of the admissions of the past, while the script      *)
(* counts the entries of the sorted set, which other scripts and the key's *)
(* expiry cut down.  What connects the two is that the set still holds     *)
(* every admission whose reading lies in the window that ends now          *)
(* (Retained), which rests on how far a reading may lie behind the clock   *)
(* (CallOK, LogOK) and on when the key goes (ExpiryOK).                    *)
(***************************************************************************)
EXTENDS RateLimiter, TLAPS, FiniteSetTheorems

\* A call has one reading, at most MaxDelay old.
CallOK ==
  \A c \in Callers :
    /\ \A now \in call[c] : now <= clock /\ clock <= now + MaxDelay
    /\ \A a, b \in call[c] : a = b

\* A script ran no earlier than its reading and at most MaxDelay after it.
LogOK ==
  \A k \in DOMAIN log :
    /\ log[k].at <= clock
    /\ log[k].entry.score <= log[k].at
    /\ log[k].at <= log[k].entry.score + MaxDelay

\* The key outlives the window of every admission.
ExpiryOK == \A k \in DOMAIN log : log[k].at + Window <= expires

\* The sorted set has no more entries than the limit, each of an admission.
EntriesOK ==
  /\ IsFiniteSet(entries) /\ Cardinality(entries) <= MaxPerSec
  /\ \A e \in entries : \E k \in DOMAIN log : log[k].entry = e

\* An admission in the window that ends now is still in the sorted set.
Retained == \A k \in DOMAIN log : log[k].entry.score > clock - Window => log[k].entry \in entries

WindowInv == CallOK /\ LogOK /\ ExpiryOK /\ EntriesOK /\ Retained

-----------------------------------------------------------------------------
\* Typing

LEMMA TypeInit == Init => LimiterTypeOK
BY RateLimiterAssumption DEF Init, LimiterTypeOK, Time

LEMMA TypeNext ==
  ASSUME LimiterTypeOK, [Next]_vars
  PROVE  LimiterTypeOK'
<1> USE RateLimiterAssumption DEF LimiterTypeOK, Time
<1>1. CASE Tick
  BY <1>1 DEF Tick
<1>2. ASSUME NEW c \in Callers, ReadClock(c)
      PROVE  LimiterTypeOK'
  BY <1>2 DEF ReadClock
<1>3. ASSUME NEW c \in Callers, Admit(c)
      PROVE  LimiterTypeOK'
  <2>1. PICK now \in call[c], tie \in Randoms : Admit(c)!(now, tie)
    BY <1>3 DEF Admit
  <2> DEFINE entry == [score |-> now, tie |-> tie]
  <2>2. entry \in Entry /\ entries' = Live(now) \cup {entry}
        /\ log' = Append(log, [at |-> clock, entry |-> entry])
    BY <2>1 DEF Entry
  <2>3. Live(now) \subseteq entries
    BY DEF Live
  <2> HIDE DEF entry
  <2>4. log' \in Seq([at : Time, entry : Entry])
    BY <2>2
  <2>5. expires' \in 0 .. MaxTime + Window
    BY <2>1 DEF Expiry
  <2> QED
    BY <2>1, <2>2, <2>3, <2>4, <2>5
<1>4. ASSUME NEW c \in Callers, Refuse(c)
      PROVE  LimiterTypeOK'
  BY <1>4 DEF Refuse, Live
<1>5. ASSUME NEW c \in Callers, Fail(c)
      PROVE  LimiterTypeOK'
  BY <1>5 DEF Fail
<1>6. CASE UNCHANGED vars
  BY <1>6 DEF vars
<1> QED
  BY <1>1, <1>2, <1>3, <1>4, <1>5, <1>6 DEF Next

\* Every variable of the limiter keeps its type: in particular the key never
\* outlives the last window of the model, because PEXPIRE is set from the time
\* the script runs.
THEOREM LimiterTypeCorrect == Spec => []LimiterTypeOK
BY TypeInit, TypeNext, PTL DEF Spec

-----------------------------------------------------------------------------
\* The sorted set and the log

LEMMA LiveBounds ==
  ASSUME EntriesOK, NEW now
  PROVE  /\ IsFiniteSet(Live(now))
         /\ Cardinality(Live(now)) \in Nat
         /\ Cardinality(Live(now)) <= Cardinality(entries)
         /\ Cardinality(entries) \in Nat
<1>1. Live(now) \in SUBSET entries
  BY DEF Live
<1> QED
  BY <1>1, FS_Subset, FS_CardinalityType DEF EntriesOK

\* The names of logged admissions that are all in the sorted set.
LEMMA AtMostLimit ==
  ASSUME EntriesOK, NEW S \in SUBSET entries
  PROVE  Cardinality(S) <= MaxPerSec
<1>1. IsFiniteSet(entries) /\ Cardinality(entries) <= MaxPerSec
  BY DEF EntriesOK
<1>2. IsFiniteSet(S) /\ Cardinality(S) <= Cardinality(entries)
  BY <1>1, FS_Subset
<1>3. Cardinality(S) \in Nat /\ Cardinality(entries) \in Nat
  BY <1>1, <1>2, FS_CardinalityType
<1> QED
  BY <1>1, <1>2, <1>3, RateLimiterAssumption

\* What ZADD appends to the log.
LEMMA Appended ==
  ASSUME LimiterTypeOK, NEW r \in [at : Time, entry : Entry], log' = Append(log, r)
  PROVE  /\ DOMAIN log = 1 .. Len(log) /\ Len(log) \in Nat
         /\ DOMAIN log' = 1 .. Len(log) + 1
         /\ \A k \in DOMAIN log : k \in DOMAIN log' /\ log'[k] = log[k]
         /\ log'[Len(log) + 1] = r
         /\ \A k \in DOMAIN log' : k \in DOMAIN log \/ k = Len(log) + 1
<1>1. log \in Seq([at : Time, entry : Entry])
  BY DEF LimiterTypeOK
<1> QED
  BY <1>1

\* Typing of what the log holds.
LEMMA LogTypes ==
  ASSUME LimiterTypeOK
  PROVE  /\ clock \in Int /\ expires \in Int
         /\ \A k \in DOMAIN log : log[k].at \in Int /\ log[k].entry.score \in Int
         /\ \A c \in Callers : \A now \in call[c] : now \in Time /\ now \in Int
         /\ \A e \in entries : e.score \in Int
<1>1. \A k \in DOMAIN log : log[k] \in [at : Time, entry : Entry]
  <2> DEFINE R == [at : Time, entry : Entry]
  <2>1. log \in Seq(R)
    BY DEF LimiterTypeOK
  <2> HIDE DEF R
  <2>2. \A k \in DOMAIN log : log[k] \in R
    BY <2>1
  <2> QED
    BY <2>2 DEF R
<1> QED
  BY <1>1, RateLimiterAssumption DEF LimiterTypeOK, Time, Entry

-----------------------------------------------------------------------------
\* The invariant that connects them

LEMMA WindowInit == Init => WindowInv
<1> SUFFICES ASSUME Init PROVE WindowInv
  OBVIOUS
<1>1. DOMAIN log = {}
  BY DEF Init
<1>2. EntriesOK
  BY FS_EmptySet, RateLimiterAssumption DEF Init, EntriesOK
<1> QED
  BY <1>1, <1>2 DEF Init, WindowInv, CallOK, LogOK, ExpiryOK, Retained

LEMMA TickKeeps ==
  ASSUME LimiterTypeOK, WindowInv, Tick
  PROVE  WindowInv'
<1> USE RateLimiterAssumption, LogTypes
<1>1. clock' = clock + 1 /\ UNCHANGED <<call, expires, log>>
  BY DEF Tick
<1>2. CallOK'
  BY <1>1 DEF Tick, WindowInv, CallOK
<1>3. LogOK' /\ ExpiryOK'
  BY <1>1 DEF WindowInv, LogOK, ExpiryOK
<1>4. CASE clock' < expires
  <2>1. entries' = entries
    BY <1>4 DEF Tick
  <2> QED
    BY <1>1, <1>2, <1>3, <2>1 DEF WindowInv, EntriesOK, Retained
<1>5. CASE ~(clock' < expires)
  <2>1. entries' = {}
    BY <1>5 DEF Tick
  <2>2. EntriesOK'
    BY <2>1, FS_EmptySet DEF EntriesOK
  <2>3. \A k \in DOMAIN log : log[k].entry.score <= clock' - Window
    BY <1>1, <1>5 DEF WindowInv, LogOK, ExpiryOK
  <2>4. Retained'
    BY <1>1, <2>3 DEF Retained
  <2> QED
    BY <1>2, <1>3, <2>2, <2>4 DEF WindowInv
<1> QED
  BY <1>4, <1>5

LEMMA AdmitKeeps ==
  ASSUME LimiterTypeOK, WindowInv, NEW c \in Callers, Admit(c)
  PROVE  WindowInv'
<1> USE RateLimiterAssumption, LogTypes
<1>1. PICK now \in call[c], tie \in Randoms : Admit(c)!(now, tie)
  BY DEF Admit
<1> DEFINE entry == [score |-> now, tie |-> tie]
           r == [at |-> clock, entry |-> entry]
<1>2. /\ entries' = Live(now) \cup {entry} /\ log' = Append(log, r)
      /\ expires' = clock + Window /\ clock' = clock /\ call' = [call EXCEPT ![c] = {}]
      /\ Cardinality(Live(now)) < MaxPerSec
  BY <1>1 DEF Expiry
<1>3. /\ entry.score = now /\ r.at = clock /\ r.entry = entry
      /\ r \in [at : Time, entry : Entry]
  BY DEF Entry, LimiterTypeOK
<1> HIDE DEF r
<1> HIDE DEF entry
<1>4. now <= clock /\ clock <= now + MaxDelay
  BY DEF WindowInv, CallOK
<1>5. CallOK'
  BY <1>2 DEF WindowInv, CallOK, LimiterTypeOK
<1>6. /\ \A k \in DOMAIN log : k \in DOMAIN log' /\ log'[k] = log[k]
      /\ \A k \in DOMAIN log' : k \in DOMAIN log \/ log'[k] = r
      /\ \E k \in DOMAIN log' : log'[k] = r
  BY <1>2, <1>3, Appended
<1>7. LogOK'
  BY <1>2, <1>3, <1>4, <1>6 DEF WindowInv, LogOK
<1>8. ExpiryOK'
  BY <1>2, <1>3, <1>6 DEF WindowInv, LogOK, ExpiryOK
<1>9. EntriesOK'
  <2>1. IsFiniteSet(Live(now)) /\ Cardinality(Live(now)) \in Nat
    BY LiveBounds DEF WindowInv
  <2>2. /\ IsFiniteSet(entries')
        /\ Cardinality(entries') \in {Cardinality(Live(now)), Cardinality(Live(now)) + 1}
    BY <1>2, <2>1, FS_AddElement, Zenon
  <2>3. Cardinality(entries') \in Nat
    BY <2>2, FS_CardinalityType
  <2>4. \A e \in entries' : \E k \in DOMAIN log' : log'[k].entry = e
    BY <1>2, <1>3, <1>6 DEF WindowInv, EntriesOK, Live
  <2>5. Cardinality(entries') <= MaxPerSec
    BY <1>2, <2>1, <2>2, <2>3
  <2> QED
    BY <2>2, <2>4, <2>5 DEF EntriesOK
<1>10. Retained'
  <2>1. ASSUME NEW k \in DOMAIN log, log[k].entry.score > clock - Window
        PROVE  log[k].entry \in Live(now)
    BY <1>4, <2>1 DEF WindowInv, Retained, Live
  <2> QED
    BY <1>2, <1>3, <1>6, <2>1 DEF Retained
<1> QED
  BY <1>5, <1>7, <1>8, <1>9, <1>10 DEF WindowInv

LEMMA RefuseKeeps ==
  ASSUME LimiterTypeOK, WindowInv, NEW c \in Callers, Refuse(c)
  PROVE  WindowInv'
<1> USE RateLimiterAssumption, LogTypes
<1>1. PICK now \in call[c] : Refuse(c)!(now)
  BY DEF Refuse
<1>2. CallOK'
  BY <1>1 DEF WindowInv, CallOK, LimiterTypeOK
<1>3. LogOK' /\ ExpiryOK'
  BY <1>1 DEF WindowInv, LogOK, ExpiryOK
<1>4. EntriesOK'
  <2>1. /\ IsFiniteSet(Live(now)) /\ Cardinality(Live(now)) \in Nat
        /\ Cardinality(Live(now)) <= Cardinality(entries) /\ Cardinality(entries) \in Nat
    BY LiveBounds DEF WindowInv
  <2>2. Cardinality(entries) <= MaxPerSec
    BY DEF WindowInv, EntriesOK
  <2>3. \A e \in entries' : \E k \in DOMAIN log' : log'[k].entry = e
    BY <1>1 DEF WindowInv, EntriesOK, Live
  <2> QED
    BY <1>1, <2>1, <2>2, <2>3 DEF EntriesOK
<1>5. Retained'
  <2>1. now <= clock
    BY DEF WindowInv, CallOK
  <2> QED
    BY <1>1, <2>1 DEF WindowInv, Retained, Live
<1> QED
  BY <1>2, <1>3, <1>4, <1>5 DEF WindowInv

LEMMA WindowNext ==
  ASSUME LimiterTypeOK, WindowInv, [Next]_vars
  PROVE  WindowInv'
<1>1. ASSUME NEW c \in Callers, ReadClock(c)
      PROVE  WindowInv'
  <2>1. CallOK'
    BY <1>1, LogTypes, RateLimiterAssumption DEF ReadClock, WindowInv, CallOK, LimiterTypeOK
  <2> QED
    BY <1>1, <2>1 DEF ReadClock, WindowInv, LogOK, ExpiryOK, EntriesOK, Retained
<1>2. ASSUME NEW c \in Callers, Fail(c)
      PROVE  WindowInv'
  <2>1. CallOK'
    BY <1>2 DEF Fail, WindowInv, CallOK, LimiterTypeOK
  <2> QED
    BY <1>2, <2>1 DEF Fail, WindowInv, LogOK, ExpiryOK, EntriesOK, Retained
<1>3. CASE UNCHANGED vars
  BY <1>3 DEF vars, WindowInv, CallOK, LogOK, ExpiryOK, EntriesOK, Retained
<1> QED
  BY <1>1, <1>2, <1>3, TickKeeps, AdmitKeeps, RefuseKeeps DEF Next

-----------------------------------------------------------------------------
\* The limit

\* WindowBound for the stretch that ends now.
BoundNow == Cardinality({log[k].entry : k \in RunIn(clock, Window - MaxDelay)}) <= MaxPerSec

\* The admissions of that stretch are all in the sorted set still.
LEMMA RecentAreEntries ==
  ASSUME LimiterTypeOK, WindowInv
  PROVE  BoundNow
<1> DEFINE S == {log[k].entry : k \in RunIn(clock, Window - MaxDelay)}
<1>1. \A k \in DOMAIN log : clock - (Window - MaxDelay) < log[k].at => log[k].entry \in entries
  BY LogTypes, RateLimiterAssumption DEF WindowInv, LogOK, Retained
<1>2. S \in SUBSET entries
  BY <1>1 DEF RunIn
<1> HIDE DEF S
<1>3. Cardinality(S) <= MaxPerSec
  BY <1>2, AtMostLimit DEF WindowInv
<1> QED
  BY <1>3 DEF BoundNow, S

\* What a step appends to the log ran now: earlier stretches stay as they were.
LEMMA PastIsSettled ==
  ASSUME LimiterTypeOK, [Next]_vars, NEW t \in 0 .. clock', t < clock', NEW width \in Int
  PROVE  {log'[k].entry : k \in RunIn(t, width)'} = {log[k].entry : k \in RunIn(t, width)}
<1>1. CASE UNCHANGED log
  BY <1>1 DEF RunIn
<1>2. ASSUME NEW c \in Callers, Admit(c)
      PROVE  RunIn(t, width)' = RunIn(t, width) /\ \A k \in RunIn(t, width) : log'[k] = log[k]
  <2>1. PICK now \in call[c], tie \in Randoms : Admit(c)!(now, tie)
    BY <1>2 DEF Admit
  <2> DEFINE r == [at |-> clock, entry |-> [score |-> now, tie |-> tie]]
  <2>2. r \in [at : Time, entry : Entry] /\ r.at = clock /\ log' = Append(log, r) /\ clock' = clock
    BY <2>1, LogTypes DEF Entry, LimiterTypeOK
  <2> HIDE DEF r
  <2>3. /\ \A k \in DOMAIN log : k \in DOMAIN log' /\ log'[k] = log[k]
        /\ \A k \in DOMAIN log' : k \in DOMAIN log \/ log'[k] = r
    BY <2>2, Appended
  <2>4. ~(r.at <= t)
    BY <2>2, LogTypes
  <2> QED
    BY <2>3, <2>4 DEF RunIn
<1>3. CASE \E c \in Callers : Admit(c)
  BY <1>2, <1>3
<1> QED
  BY <1>1, <1>3 DEF Next, Tick, ReadClock, Refuse, Fail, vars

LEMMA BoundNext ==
  ASSUME LimiterTypeOK, LimiterTypeOK', WindowBound, BoundNow', [Next]_vars
  PROVE  WindowBound'
<1> USE RateLimiterAssumption
<1>1. clock \in Nat /\ clock' \in Nat
  BY DEF LimiterTypeOK, Time
<1>2. clock' = clock \/ clock' = clock + 1
  BY DEF Next, Tick, ReadClock, Admit, Refuse, Fail, vars
<1>3. ASSUME NEW t \in 0 .. clock'
      PROVE  Cardinality({log'[k].entry : k \in RunIn(t, Window - MaxDelay)'}) <= MaxPerSec
  <2>1. CASE t = clock'
    BY <2>1 DEF BoundNow, RunIn
  <2>2. CASE t < clock'
    <3>1. t \in 0 .. clock /\ Window - MaxDelay \in Int
      BY <1>1, <1>2, <2>2
    <3>2. {log'[k].entry : k \in RunIn(t, Window - MaxDelay)'}
            = {log[k].entry : k \in RunIn(t, Window - MaxDelay)}
      BY <2>2, <3>1, PastIsSettled
    <3> QED
      BY <3>1, <3>2 DEF WindowBound
  <2> QED
    BY <1>1, <2>1, <2>2
<1> QED
  BY <1>3 DEF WindowBound

\* Whatever the order in which delayed scripts run and remove each other's
\* entries, no stretch of time a script's delay shorter than the window
\* contains more than MaxPerSec differently named admissions.
THEOREM WindowHolds == Spec => []WindowBound
<1>1. Init => WindowBound
  <2>1. ASSUME Init PROVE WindowBound
    <3>1. \A t \in 0 .. clock : {log[k].entry : k \in RunIn(t, Window - MaxDelay)} = {}
      BY <2>1 DEF Init, RunIn
    <3> QED
      BY <3>1, FS_EmptySet, RateLimiterAssumption DEF WindowBound
  <2> QED
    BY <2>1
<1> QED
  BY <1>1, LimiterTypeCorrect, WindowInit, WindowNext, RecentAreEntries, BoundNext, PTL DEF Spec

-----------------------------------------------------------------------------
\* Refusals

\* Finitely many admissions have finitely many names.
LEMMA NamesAreFinite ==
  ASSUME LimiterTypeOK, NEW S \in SUBSET DOMAIN log
  PROVE  IsFiniteSet({log[k].entry : k \in S})
<1> DEFINE T == {log[k].entry : k \in S}
           f == [k \in S |-> log[k].entry]
<1>1. IsFiniteSet(S)
  <2>1. Len(log) \in Nat /\ DOMAIN log = 1 .. Len(log)
    BY DEF LimiterTypeOK
  <2>2. IsFiniteSet(1 .. Len(log))
    BY <2>1, FS_Interval
  <2> QED
    BY <2>1, <2>2, FS_Subset
<1>2. f \in Surjection(S, T)
  BY DEF Surjection
<1> HIDE DEF f
<1> HIDE DEF T
<1>3. IsFiniteSet(T)
  BY <1>1, <1>2, FS_Surjection
<1> QED
  BY <1>3 DEF T

\* A call is refused only when MaxPerSec differently named calls were admitted in
\* the time, a delay longer than the window, up to the run of its script: what
\* the script counts are admissions, however old the reading it measures from.
THEOREM RefusalsAreJust == Spec => RefusesOnlyWhenFull
<1>1. ASSUME LimiterTypeOK, WindowInv, NEW c \in Callers, Refuse(c)
      PROVE  Cardinality({log[k].entry : k \in RunIn(clock, Window + MaxDelay)}) >= MaxPerSec
  <2> DEFINE K == RunIn(clock, Window + MaxDelay)
             T == {log[k].entry : k \in K}
  <2>1. PICK now \in call[c] : Cardinality(Live(now)) >= MaxPerSec
    BY <1>1 DEF Refuse
  <2>2. /\ now \in Nat /\ clock \in Nat /\ clock <= now + MaxDelay
        /\ Window \in Nat /\ MaxDelay \in Nat
    BY <1>1, RateLimiterAssumption DEF LimiterTypeOK, WindowInv, CallOK, Time
  <2>3. IsFiniteSet(T)
    <3>1. K \in SUBSET DOMAIN log
      BY DEF RunIn
    <3> HIDE DEF K
    <3> QED
      BY <1>1, <3>1, NamesAreFinite
  <2>4. ASSUME NEW e \in Live(now) PROVE e \in T
    <3>1. PICK k \in DOMAIN log : log[k].entry = e
      BY <1>1 DEF Live, WindowInv, EntriesOK
    <3>2. log[k].at <= clock /\ e.score <= log[k].at /\ e.score > now - Window
      BY <1>1, <3>1 DEF WindowInv, LogOK, Live
    <3>3. log[k].at \in Int /\ e.score \in Int
      BY <1>1, <3>1, LogTypes
    <3>4. clock - (Window + MaxDelay) < log[k].at
      BY <2>2, <3>2, <3>3
    <3> QED
      BY <3>1, <3>2, <3>4 DEF RunIn
  <2>5. Live(now) \in SUBSET T
    BY <2>4
  <2> HIDE DEF T
  <2>6. Cardinality(Live(now)) <= Cardinality(T)
    BY <2>3, <2>5, FS_Subset
  <2>7. Cardinality(T) \in Nat /\ Cardinality(Live(now)) \in Nat
    BY <1>1, <2>3, FS_CardinalityType, LiveBounds DEF WindowInv
  <2>8. Cardinality(T) >= MaxPerSec
    BY <2>1, <2>6, <2>7, RateLimiterAssumption
  <2> QED
    BY <2>8 DEF T
<1>2. ASSUME LimiterTypeOK, WindowInv
      PROVE  [\A c \in Callers :
                Refuse(c) => Cardinality({log[k].entry : k \in RunIn(clock, Window + MaxDelay)})
                               >= MaxPerSec]_vars
  BY <1>1, <1>2
<1> QED
  BY <1>2, LimiterTypeCorrect, WindowInit, WindowNext, PTL DEF Spec, RefusesOnlyWhenFull

=============================================================================
