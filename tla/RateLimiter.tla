----------------------------- MODULE RateLimiter -----------------------------
(***************************************************************************)
(* The sliding-window limiter of one channel.  A worker reads its clock    *)
(* and sends a script that Redis runs atomically later, so scripts may run *)
(* in another order than the clocks were read.  Each admission is a member *)
(* of a sorted set whose score is the reading and whose name is the        *)
(* reading and a "random" number: an admission that repeats a name leaves  *)
(* the set as it was.                                                      *)
(*                                                                         *)
(* All processes share one clock here.  Units of time are abstract.        *)
(***************************************************************************)
EXTENDS Integers, Sequences, FiniteSets

CONSTANTS
  Callers,        \* worker goroutines of all processes
  MaxPerSec,      \* limit
  Window,         \* windowMs
  MaxDelay,       \* bound: from reading the clock to the script's run
  Randoms,        \* values math.random returns; Redis seeds every run alike
  MaxTime,        \* bound: last instant of the model
  MaxAdmissions   \* bound: admissions recorded

ASSUME RateLimiterAssumption ==
  /\ MaxPerSec \in Nat /\ Window \in Nat \ {0} /\ MaxDelay \in 0 .. Window
  /\ MaxTime \in Nat /\ MaxAdmissions \in Nat

VARIABLES
  clock,    \* the time
  call,     \* the clock reading of the call under way, if any
  entries,  \* the sorted set
  expires,  \* when Redis deletes the key
  log       \* history: admissions, with the time the script ran

vars == <<clock, call, entries, expires, log>>

Time == 0 .. MaxTime
Entry == [score : Time, tie : Randoms]

LimiterTypeOK ==
  /\ clock \in Time
  /\ call \in [Callers -> SUBSET Time]
  /\ entries \subseteq Entry
  /\ expires \in 0 .. MaxTime + Window
  /\ log \in Seq([at : Time, entry : Entry])

Init ==
  /\ clock = 0 /\ call = [c \in Callers |-> {}]
  /\ entries = {} /\ expires = 0 /\ log = <<>>

Tick ==
  /\ clock < MaxTime
  /\ \A c \in Callers : \A now \in call[c] : clock < now + MaxDelay
  /\ clock' = clock + 1
  /\ entries' = IF clock' < expires THEN entries ELSE {}
  /\ UNCHANGED <<call, expires, log>>

\* time.Now() in Allow.
ReadClock(c) ==
  /\ call[c] = {}
  /\ call' = [call EXCEPT ![c] = {clock}]
  /\ UNCHANGED <<clock, entries, expires, log>>

\* Slips: an entry expires an instant early, or never.
LiveTooShort(now) == {e \in entries : e.score > now - Window + 1}
LiveForEver(now) == entries

\* What ZREMRANGEBYSCORE leaves.
Live(now) == {e \in entries : e.score > now - Window}

\* A slip for LimiterTypeOK: the key lives on beyond its entries.
ExpiryTwice == clock + 2 * Window

\* PEXPIRE.
Expiry == clock + Window

\* The script admits the call.
Admit(c) ==
  \E now \in call[c], tie \in Randoms :
    LET entry == [score |-> now, tie |-> tie] IN
    /\ Cardinality(Live(now)) < MaxPerSec
    /\ Len(log) < MaxAdmissions
    /\ entries' = Live(now) \cup {entry}
    /\ expires' = Expiry
    /\ log' = Append(log, [at |-> clock, entry |-> entry])
    /\ call' = [call EXCEPT ![c] = {}]
    /\ UNCHANGED clock

\* The script refuses the call; the worker pauses and calls again.
Refuse(c) ==
  \E now \in call[c] :
    /\ Cardinality(Live(now)) >= MaxPerSec
    /\ entries' = Live(now)
    /\ call' = [call EXCEPT ![c] = {}]
    /\ UNCHANGED <<clock, expires, log>>

\* The call fails before the script runs; the worker goes on without one.
Fail(c) ==
  /\ call[c] # {}
  /\ call' = [call EXCEPT ![c] = {}]
  /\ UNCHANGED <<clock, entries, expires, log>>

Next == Tick \/ \E c \in Callers : ReadClock(c) \/ Admit(c) \/ Refuse(c) \/ Fail(c)

Spec == Init /\ [][Next]_vars

-----------------------------------------------------------------------------

\* Admissions whose script ran in the width instants up to t.
RunIn(t, width) == {k \in DOMAIN log : t - width < log[k].at /\ log[k].at <= t}

\* As far as admissions have different names, no stretch of time a script's
\* delay shorter than the window contains more than MaxPerSec of them,
\* whatever the order in which delayed scripts run and expire each other's
\* entries.
WindowBound ==
  \A t \in 0 .. clock :
    Cardinality({log[k].entry : k \in RunIn(t, Window - MaxDelay)}) <= MaxPerSec

\* A call is refused only when the limiter is busy: MaxPerSec differently named
\* calls were admitted in the time, one script's delay longer than the window,
\* that ends when the script runs.  Old admissions do not go on counting,
\* although the script measures the window from a reading that may be old, and
\* counts admissions that were read, and ran, after that reading too.
RefusesOnlyWhenFull ==
  [][\A c \in Callers :
       Refuse(c) => Cardinality({log[k].entry : k \in RunIn(clock, Window + MaxDelay)})
                      >= MaxPerSec]_vars

\* At most MaxPerSec calls are admitted in a window (README, configuration:
\* "Rate limit per channel per second").
WithinLimit == \A t \in 0 .. clock : Cardinality(RunIn(t, Window)) <= MaxPerSec

=============================================================================
