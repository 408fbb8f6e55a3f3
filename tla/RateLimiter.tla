---------------------------- MODULE RateLimiter ----------------------------
(***************************************************************************)
(* The token buckets of httpx.RateLimiter.  The server makes one limiter   *)
(* per scope; each keeps a bucket per key under one mutex, refills it when *)
(* the key comes back, and once a minute forgets the keys it has not seen  *)
(* for GcAfter.  Tokens are counted in parts: a request takes *)
(* Token of them and a tick of the clock brings Rate[s].                   *)
(***************************************************************************)
EXTENDS Integers

CONSTANTS
  Scopes,     \* the limiters: "auth" and "bid" in main.go
  Keys,       \* what clientIP makes of a request: a header it carries, or its address
  Rate,       \* rate per second, for each scope
  Burst,      \* size of a bucket, for each scope
  Token,      \* what a request costs
  GcAfter,    \* idle time after which a bucket is forgotten
  MaxTime     \* bound of the clock

\* Refilling a bucket takes no longer than forgetting it (5 minutes against
\* 10 tokens at 5 per second), and a full bucket admits a request.
ASSUME LimiterAssumption ==
  /\ Token \in Nat \ {0} /\ GcAfter \in Nat
  /\ Rate \in [Scopes -> Nat] /\ Burst \in [Scopes -> Nat]
  /\ \A s \in Scopes : Token <= Burst[s] /\ Burst[s] <= Rate[s] * GcAfter

VARIABLES
  now,
  buckets,    \* scope -> the keys with a bucket -> [tokens, last]
  lastSeen,   \* scope -> the same keys -> time of the last request
  opened,     \* when somebody began to count (any moment)
  count       \* requests admitted since then, per scope and key

limiterVars == <<now, buckets, lastSeen, opened, count>>

Bucket == [tokens : Nat, last : Nat]

LimiterInit ==
  /\ now = 0 /\ opened = 0
  /\ buckets  = [s \in Scopes |-> <<>>]
  /\ lastSeen = [s \in Scopes |-> <<>>]
  /\ count    = [s \in Scopes |-> [k \in Keys |-> 0]]

Known(s, k) == k \in DOMAIN buckets[s]

Least(m, n) == IF m <= n THEN m ELSE n

\* What is in the bucket when the key comes now; a new one is full.
Level(s, k) ==
  IF Known(s, k)
    THEN Least(Burst[s], buckets[s][k].tokens + (now - buckets[s][k].last) * Rate[s])
    ELSE Burst[s]

\* Mutant: the bucket may be overdrawn by a part of a token.
AdmitsEarly(s, k) == ~Known(s, k) \/ Level(s, k) > 0

\* A new bucket admits without a look at its tokens.
Admits(s, k) == ~Known(s, k) \/ Level(s, k) >= Token

\* Mutant: a refusal is paid for, too.
AlwaysPaid(s, k) == Level(s, k) - Token

Left(s, k) == IF Admits(s, k) THEN Level(s, k) - Token ELSE Level(s, k)

With(f, k, v) == [x \in DOMAIN f \cup {k} |-> IF x = k THEN v ELSE f[x]]

\* allow: one critical section, whether it admits or not.
Allow(s, k) ==
  /\ lastSeen' = [lastSeen EXCEPT ![s] = With(@, k, now)]
  /\ buckets' = [buckets EXCEPT ![s] = With(@, k, [tokens |-> Left(s, k), last |-> now])]
  /\ count' = IF Admits(s, k) THEN [count EXCEPT ![s][k] = @ + 1] ELSE count
  /\ UNCHANGED <<now, opened>>

Idle(s) == {k \in DOMAIN buckets[s] : lastSeen[s][k] < now - GcAfter}

\* One round of gcLoop.
Collect(s) ==
  /\ Idle(s) # {}
  /\ buckets'  = [buckets  EXCEPT ![s] = [k \in DOMAIN buckets[s] \ Idle(s) |-> @[k]]]
  /\ lastSeen' = [lastSeen EXCEPT ![s] = [k \in DOMAIN lastSeen[s] \ Idle(s) |-> @[k]]]
  /\ UNCHANGED <<now, opened, count>>

\* Time passes.  At any instant an observer, of whom the program knows nothing,
\* may start a new count: a window that opens between two requests of an
\* instant admits no more than the one that opened with it.
Tick ==
  /\ now < MaxTime
  /\ now' = now + 1
  /\ \/ UNCHANGED <<opened, count>>
     \/ opened' = now' /\ count' = [s \in Scopes |-> [k \in Keys |-> 0]]
  /\ UNCHANGED <<buckets, lastSeen>>

LimiterNext ==
  \/ \E s \in Scopes : Collect(s) \/ \E k \in Keys : Allow(s, k)
  \/ Tick

LimiterSpec == LimiterInit /\ [][LimiterNext]_limiterVars

-----------------------------------------------------------------------------
(* Properties *)

\* Times never run ahead of the clock, a bucket holds between nothing and
\* Burst, and buckets and lastSeen know the same keys at the same times:
\* the collector, which looks at lastSeen, never drops a bucket in use
\* (ratelimit.go:44-56, 65-70).
LimiterTypeOK ==
  /\ now \in Nat /\ opened \in 0..now
  /\ count \in [Scopes -> [Keys -> Nat]]
  /\ DOMAIN buckets = Scopes /\ DOMAIN lastSeen = Scopes
  /\ \A s \in Scopes :
       /\ DOMAIN buckets[s] \subseteq Keys
       /\ DOMAIN lastSeen[s] = DOMAIN buckets[s]
       /\ \A k \in DOMAIN buckets[s] :
            /\ buckets[s][k].tokens \in 0..Burst[s]
            /\ buckets[s][k].last \in 0..now
            /\ lastSeen[s][k] = buckets[s][k].last

\* From any moment on, requests under one key are admitted no more often than a
\* full bucket and the rate allow, whoever sends them, and although the
\* collector forgets the bucket and the key then gets a full one
\* (ratelimit.go:40-58, 60-74).
WithinBudget ==
  \A s \in Scopes, k \in Keys :
    count[s][k] * Token <= Burst[s] + (now - opened) * Rate[s]

\* A key that was quiet for as long as a token takes to come back is not
\* refused, however many of its requests were refused before
\* (ratelimit.go:50-55).
PatientAdmitted ==
  [][\A s \in Scopes : \A k \in DOMAIN lastSeen[s] :
       (now - lastSeen[s][k]) * Rate[s] >= Token /\ Allow(s, k) => count'[s][k] = count[s][k] + 1]_limiterVars
=============================================================================
