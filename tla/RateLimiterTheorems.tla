------------------------ MODULE RateLimiterTheorems ------------------------
(***************************************************************************)
(* What the rate limiter guarantees, for every number of scopes and        *)
(* clients, every rate, burst and clock bound.                             *)
(***************************************************************************)
EXTENDS RateLimiter, TLAPS

USE LimiterAssumption

-----------------------------------------------------------------------------
(* Arithmetic. *)

LEMMA ProductNat == ASSUME NEW m \in Nat, NEW n \in Nat PROVE m * n \in Nat
  BY SMT

LEMMA ProductGrows ==
  ASSUME NEW m \in Nat, NEW n \in Nat, NEW r \in Nat, m <= n
  PROVE  m * r <= n * r
  <1>1. n - m \in Nat /\ n = m + (n - m)
    BY SMT
  <1>2. (n - m) * r \in Nat
    BY <1>1, ProductNat
  <1>3. n * r = m * r + (n - m) * r
    BY SMT
  <1> QED
    BY <1>2, <1>3, ProductNat, SMT

LEMMA OneMore ==
  ASSUME NEW m \in Int, NEW r \in Int
  PROVE  (m + 1) * r = m * r + r
  BY SMT

-----------------------------------------------------------------------------
(* What one client finds. *)

\* A level lies between nothing and a full bucket.
LEMMA LevelType ==
  ASSUME LimiterTypeOK, NEW s \in Scopes, NEW k \in Keys
  PROVE  Level(s, k) \in 0..Burst[s]
  <1>1. CASE Known(s, k)
    <2> DEFINE b == buckets[s][k]
               n == (now - b.last) * Rate[s]
    <2>1. b.tokens \in 0..Burst[s] /\ b.last \in 0..now /\ now \in Nat
      BY <1>1 DEF LimiterTypeOK, Known
    <2>2. n \in Nat
      <3>1. now - b.last \in Nat
        BY <2>1, SMT
      <3> QED
        BY <3>1, ProductNat
    <2>3. Level(s, k) = Least(Burst[s], b.tokens + n)
      BY <1>1 DEF Level
    <2> HIDE DEF n
    <2> QED
      BY <2>1, <2>2, <2>3, SMT DEF Least
  <1>2. CASE ~Known(s, k)
    BY <1>2, SMT DEF Level
  <1> QED
    BY <1>1, <1>2

\* What a client leaves lies between nothing and a full bucket, too.
LEMMA LeftType ==
  ASSUME LimiterTypeOK, NEW s \in Scopes, NEW k \in Keys
  PROVE  Left(s, k) \in 0..Burst[s]
  <1>1. Level(s, k) \in 0..Burst[s]
    BY LevelType
  <1>2. Admits(s, k) => Level(s, k) >= Token
    BY SMT DEF Admits, Level
  <1> QED
    BY <1>1, <1>2, SMT DEF Left

-----------------------------------------------------------------------------
(* Types. *)

LEMMA TypeInit == LimiterInit => LimiterTypeOK
  <1> SUFFICES ASSUME LimiterInit PROVE LimiterTypeOK
    OBVIOUS
  <1>1. \A s \in Scopes : DOMAIN buckets[s] = {} /\ DOMAIN lastSeen[s] = {}
    <2>1. \A s \in Scopes : buckets[s] = <<>> /\ lastSeen[s] = <<>>
      BY DEF LimiterInit
    <2>2. DOMAIN <<>> = {}
      OBVIOUS
    <2> QED
      BY <2>1, <2>2
  <1>2. count \in [Scopes -> [Keys -> Nat]] /\ now \in Nat /\ opened \in 0..now
    BY SMT DEF LimiterInit
  <1>3. DOMAIN buckets = Scopes /\ DOMAIN lastSeen = Scopes
    BY DEF LimiterInit
  <1> QED
    BY <1>1, <1>2, <1>3 DEF LimiterTypeOK

LEMMA TypeAllow ==
  ASSUME LimiterTypeOK, NEW s \in Scopes, NEW k \in Keys, Allow(s, k)
  PROVE  LimiterTypeOK'
  <1> DEFINE v == [tokens |-> Left(s, k), last |-> now]
  <1>1. now' = now /\ opened' = opened
    BY DEF Allow
  <1>2. count' \in [Scopes -> [Keys -> Nat]]
    <2>1. count \in [Scopes -> [Keys -> Nat]]
      BY DEF LimiterTypeOK
    <2>2. count' = count \/ count' = [count EXCEPT ![s] = [count[s] EXCEPT ![k] = count[s][k] + 1]]
      BY DEF Allow
    <2>3. [count[s] EXCEPT ![k] = count[s][k] + 1] \in [Keys -> Nat]
      BY <2>1
    <2> QED
      BY <2>1, <2>2, <2>3
  <1>3. /\ DOMAIN buckets' = Scopes /\ DOMAIN lastSeen' = Scopes
        /\ buckets'[s] = With(buckets[s], k, v) /\ lastSeen'[s] = With(lastSeen[s], k, now)
        /\ \A x \in Scopes : x # s => buckets'[x] = buckets[x] /\ lastSeen'[x] = lastSeen[x]
    BY DEF Allow, LimiterTypeOK
  <1>4. ASSUME NEW x \in Scopes
        PROVE  /\ DOMAIN buckets'[x] \subseteq Keys
               /\ DOMAIN lastSeen'[x] = DOMAIN buckets'[x]
               /\ \A y \in DOMAIN buckets'[x] :
                    /\ buckets'[x][y].tokens \in 0..Burst[x]
                    /\ buckets'[x][y].last \in 0..now'
                    /\ lastSeen'[x][y] = buckets'[x][y].last
    <2>1. CASE x # s
      BY <1>1, <1>3, <2>1 DEF LimiterTypeOK
    <2>2. CASE x = s
      <3>1. /\ DOMAIN buckets'[s] = DOMAIN buckets[s] \cup {k}
            /\ DOMAIN lastSeen'[s] = DOMAIN lastSeen[s] \cup {k}
            /\ buckets'[s][k] = v /\ lastSeen'[s][k] = now
            /\ \A y \in DOMAIN buckets[s] : y # k => buckets'[s][y] = buckets[s][y]
            /\ \A y \in DOMAIN lastSeen[s] : y # k => lastSeen'[s][y] = lastSeen[s][y]
        <4>1. DOMAIN lastSeen[s] = DOMAIN buckets[s]
          BY DEF LimiterTypeOK
        <4> HIDE DEF v
        <4>2. /\ DOMAIN buckets'[s] = DOMAIN buckets[s] \cup {k}
              /\ buckets'[s][k] = v
              /\ \A y \in DOMAIN buckets[s] : y # k => buckets'[s][y] = buckets[s][y]
          BY <1>3 DEF With
        <4>3. /\ DOMAIN lastSeen'[s] = DOMAIN lastSeen[s] \cup {k}
              /\ lastSeen'[s][k] = now
              /\ \A y \in DOMAIN lastSeen[s] : y # k => lastSeen'[s][y] = lastSeen[s][y]
          BY <1>3 DEF With
        <4> QED
          BY <4>2, <4>3
      <3>2. v.tokens \in 0..Burst[s] /\ v.last \in 0..now /\ v.last = now
        BY LeftType DEF LimiterTypeOK
      <3> HIDE DEF v
      <3> QED
        BY <1>1, <2>2, <3>1, <3>2 DEF LimiterTypeOK
    <2> QED
      BY <2>1, <2>2
  <1>5. now' \in Nat /\ opened' \in 0..now'
    BY <1>1 DEF LimiterTypeOK
  <1> QED
    BY <1>2, <1>3, <1>4, <1>5 DEF LimiterTypeOK

LEMMA CollectKeeps ==
  ASSUME LimiterTypeOK, NEW s \in Scopes, Collect(s)
  PROVE  /\ DOMAIN buckets' = Scopes /\ DOMAIN lastSeen' = Scopes
         /\ DOMAIN buckets'[s] = DOMAIN buckets[s] \ Idle(s)
         /\ DOMAIN lastSeen'[s] = DOMAIN buckets[s] \ Idle(s)
         /\ \A k \in DOMAIN buckets[s] \ Idle(s) :
              buckets'[s][k] = buckets[s][k] /\ lastSeen'[s][k] = lastSeen[s][k]
         /\ \A x \in Scopes : x # s => buckets'[x] = buckets[x] /\ lastSeen'[x] = lastSeen[x]
  BY DEF Collect, LimiterTypeOK

LEMMA TypeCollect ==
  ASSUME LimiterTypeOK, NEW s \in Scopes, Collect(s)
  PROVE  LimiterTypeOK'
  <1>1. now' = now /\ opened' = opened /\ count' = count
    BY DEF Collect
  <1>2. ASSUME NEW x \in Scopes
        PROVE  /\ DOMAIN buckets'[x] \subseteq Keys
               /\ DOMAIN lastSeen'[x] = DOMAIN buckets'[x]
               /\ \A y \in DOMAIN buckets'[x] :
                    /\ buckets'[x][y].tokens \in 0..Burst[x]
                    /\ buckets'[x][y].last \in 0..now'
                    /\ lastSeen'[x][y] = buckets'[x][y].last
    <2>1. CASE x # s
      BY <1>1, <2>1, CollectKeeps DEF LimiterTypeOK
    <2>2. CASE x = s
      <3>1. /\ DOMAIN buckets'[s] = DOMAIN buckets[s] \ Idle(s)
            /\ DOMAIN lastSeen'[s] = DOMAIN buckets[s] \ Idle(s)
            /\ \A y \in DOMAIN buckets[s] \ Idle(s) :
                 buckets'[s][y] = buckets[s][y] /\ lastSeen'[s][y] = lastSeen[s][y]
        BY CollectKeeps
      <3> QED
        BY <1>1, <2>2, <3>1 DEF LimiterTypeOK
    <2> QED
      BY <2>1, <2>2
  <1> QED
    BY <1>1, <1>2, CollectKeeps DEF LimiterTypeOK

LEMMA TypeTick ==
  ASSUME LimiterTypeOK, Tick
  PROVE  LimiterTypeOK'
  <1>1. now' = now + 1 /\ now \in Nat /\ buckets' = buckets /\ lastSeen' = lastSeen
    BY DEF Tick, LimiterTypeOK
  <1>2. now' \in Nat /\ opened' \in 0..now' /\ count' \in [Scopes -> [Keys -> Nat]]
    BY <1>1 DEF Tick, LimiterTypeOK
  <1>3. \A n \in Int : n \in 0..now => n \in 0..now'
    BY <1>1
  <1> QED
    BY <1>1, <1>2, <1>3 DEF LimiterTypeOK

LEMMA TypeStep == LimiterTypeOK /\ [LimiterNext]_limiterVars => LimiterTypeOK'
  <1> SUFFICES ASSUME LimiterTypeOK, [LimiterNext]_limiterVars PROVE LimiterTypeOK'
    OBVIOUS
  <1>1. CASE UNCHANGED limiterVars
    BY <1>1 DEF limiterVars, LimiterTypeOK
  <1>2. CASE Tick
    BY <1>2, TypeTick
  <1>3. ASSUME NEW s \in Scopes, Collect(s) PROVE LimiterTypeOK'
    BY <1>3, TypeCollect
  <1>4. ASSUME NEW s \in Scopes, NEW k \in Keys, Allow(s, k) PROVE LimiterTypeOK'
    BY <1>4, TypeAllow
  <1> QED
    BY <1>1, <1>2, <1>3, <1>4 DEF LimiterNext

\* The limiter keeps its types, and its two maps agree (ratelimit.go:44-56).
THEOREM LimiterTypeCorrect == LimiterSpec => []LimiterTypeOK
  BY TypeInit, TypeStep, PTL DEF LimiterSpec

-----------------------------------------------------------------------------
(* What a step does to the level of a bucket. *)

\* A request that is let in takes a token, one that is refused takes nothing,
\* and neither touches the bucket of another client.
LEMMA AllowLevel ==
  ASSUME LimiterTypeOK, NEW s \in Scopes, NEW k \in Keys, Allow(s, k),
         NEW x \in Scopes, NEW y \in Keys
  PROVE  Level(x, y)' = IF x = s /\ y = k THEN Left(s, k) ELSE Level(x, y)
  <1>1. /\ now' = now /\ now \in Nat
        /\ buckets' = [buckets EXCEPT ![s] = With(buckets[s], k, [tokens |-> Left(s, k), last |-> now])]
        /\ DOMAIN buckets = Scopes
    BY DEF Allow, LimiterTypeOK
  <1>2. CASE x = s /\ y = k
    <2>1. k \in DOMAIN buckets'[s] /\ buckets'[s][k] = [tokens |-> Left(s, k), last |-> now]
      BY <1>1 DEF With
    <2>2. Level(s, k)' = Least(Burst[s], Left(s, k) + (now - now) * Rate[s])
      BY <1>1, <2>1 DEF Level, Known
    <2>3. Left(s, k) \in 0..Burst[s]
      BY LeftType
    <2>4. (now - now) * Rate[s] = 0
      <3>1. now - now = 0
        BY <1>1, SMT
      <3> QED
        BY <3>1, SMT
    <2> QED
      BY <1>2, <2>2, <2>3, <2>4, SMT DEF Least
  <1>3. CASE ~(x = s /\ y = k)
    <2>1. (y \in DOMAIN buckets'[x] <=> y \in DOMAIN buckets[x])
          /\ (y \in DOMAIN buckets[x] => buckets'[x][y] = buckets[x][y])
      BY <1>1, <1>3 DEF With
    <2> QED
      BY <1>1, <1>3, <2>1 DEF Level, Known
  <1> QED
    BY <1>2, <1>3

\* Whom the collector forgets would have found a full bucket anyway.
LEMMA CollectLevel ==
  ASSUME LimiterTypeOK, NEW s \in Scopes, Collect(s), NEW x \in Scopes, NEW y \in Keys
  PROVE  Level(x, y)' = Level(x, y)
  <1>1. now' = now
    BY DEF Collect
  <1>2. CASE x = s /\ y \in Idle(s)
    <2> DEFINE b == buckets[s][y]
               d == now - b.last
    <2>1. /\ y \in DOMAIN buckets[s] /\ lastSeen[s][y] < now - GcAfter
          /\ lastSeen[s][y] = b.last /\ b.tokens \in 0..Burst[s] /\ b.last \in 0..now /\ now \in Nat
      BY <1>2 DEF Idle, LimiterTypeOK
    <2>2. d \in Nat /\ GcAfter <= d
      BY <2>1, SMT
    <2>3. GcAfter * Rate[s] <= d * Rate[s]
      BY <2>2, ProductGrows
    <2>4. Burst[s] <= d * Rate[s] /\ d * Rate[s] \in Nat
      BY <2>2, <2>3, ProductNat, SMT
    <2>5. Level(s, y) = Least(Burst[s], b.tokens + d * Rate[s])
      BY <2>1 DEF Level, Known
    <2>6. Level(s, y) = Burst[s]
      <3> DEFINE n == d * Rate[s]
      <3>1. n \in Nat /\ Burst[s] <= n /\ Level(s, y) = Least(Burst[s], b.tokens + n)
        BY <2>4, <2>5
      <3> HIDE DEF n
      <3> QED
        BY <2>1, <3>1, SMT DEF Least
    <2>7. y \notin DOMAIN buckets'[s]
      BY <1>2, CollectKeeps
    <2> QED
      BY <1>2, <2>6, <2>7 DEF Level, Known
  <1>3. CASE ~(x = s /\ y \in Idle(s))
    <2>1. (y \in DOMAIN buckets'[x] <=> y \in DOMAIN buckets[x])
          /\ (y \in DOMAIN buckets[x] => buckets'[x][y] = buckets[x][y])
      <3>1. CASE x = s
        BY <1>3, <3>1, CollectKeeps
      <3>2. CASE x # s
        BY <3>2, CollectKeeps
      <3> QED
        BY <3>1, <3>2
    <2> QED
      BY <1>1, <2>1 DEF Level, Known
  <1> QED
    BY <1>2, <1>3

\* A tick brings no more than the rate.
LEMMA TickLevel ==
  ASSUME LimiterTypeOK, Tick, NEW x \in Scopes, NEW y \in Keys
  PROVE  Level(x, y)' <= Level(x, y) + Rate[x]
  <1>1. now' = now + 1 /\ now \in Nat /\ buckets' = buckets
    BY DEF Tick, LimiterTypeOK
  <1>2. CASE Known(x, y)
    <2> DEFINE b == buckets[x][y]
               d == now - b.last
               n == d * Rate[x]
    <2>1. b.tokens \in 0..Burst[x] /\ b.last \in 0..now
      BY <1>2 DEF LimiterTypeOK, Known
    <2>2. d \in Nat /\ now' - b.last = d + 1
      BY <1>1, <2>1, SMT
    <2>3. (d + 1) * Rate[x] = n + Rate[x]
      BY <2>2, OneMore
    <2>4. Level(x, y) = Least(Burst[x], b.tokens + n)
      BY <1>2 DEF Level
    <2>5. Level(x, y)' = Least(Burst[x], b.tokens + (now' - b.last) * Rate[x])
      BY <1>1, <1>2 DEF Level, Known
    <2>6. Level(x, y)' = Least(Burst[x], b.tokens + (n + Rate[x]))
      BY <2>2, <2>3, <2>5
    <2>7. n \in Nat
      BY <2>2, ProductNat
    <2> HIDE DEF n, d
    <2> QED
      BY <2>1, <2>4, <2>6, <2>7, SMT DEF Least
  <1>3. CASE ~Known(x, y)
    <2>1. Level(x, y) = Burst[x] /\ Level(x, y)' = Burst[x]
      BY <1>1, <1>3 DEF Level, Known
    <2> QED
      BY <2>1, SMT
  <1> QED
    BY <1>2, <1>3

-----------------------------------------------------------------------------
(* The budget. *)

\* What was admitted and what could still be admitted now, together.
Budget ==
  \A s \in Scopes, k \in Keys :
    count[s][k] * Token + Level(s, k) <= Burst[s] + (now - opened) * Rate[s]

LimiterInv == LimiterTypeOK /\ Budget

\* A count that has just begun owes nothing.
LEMMA FreshBudget ==
  ASSUME NEW s \in Scopes, NEW k \in Keys, NEW n \in Nat, NEW c \in Nat,
         NEW l \in 0..Burst[s], c = 0
  PROVE  c * Token + l <= Burst[s] + (n - n) * Rate[s]
  <1>1. c * Token = 0 /\ n - n = 0
    BY SMT
  <1>2. (n - n) * Rate[s] = 0
    BY <1>1, SMT
  <1> QED
    BY <1>1, <1>2, SMT

LEMMA BudgetInit == LimiterInit => Budget
  <1> SUFFICES ASSUME LimiterInit, NEW s \in Scopes, NEW k \in Keys
      PROVE count[s][k] * Token + Level(s, k) <= Burst[s] + (now - opened) * Rate[s]
    BY DEF Budget
  <1>1. Level(s, k) \in 0..Burst[s]
    BY TypeInit, LevelType
  <1>2. count[s][k] = 0 /\ now \in Nat /\ opened = now
    BY DEF LimiterInit
  <1> QED
    BY <1>1, <1>2, FreshBudget

LEMMA BudgetAllow ==
  ASSUME LimiterInv, NEW s \in Scopes, NEW k \in Keys, Allow(s, k)
  PROVE  Budget'
  <1> SUFFICES ASSUME NEW x \in Scopes, NEW y \in Keys
      PROVE count'[x][y] * Token + Level(x, y)' <= Burst[x] + (now' - opened') * Rate[x]
    BY DEF Budget
  <1> USE DEF LimiterInv
  <1>1. now' = now /\ opened' = opened
    BY DEF Allow
  <1>2. count[x][y] * Token + Level(x, y) <= Burst[x] + (now - opened) * Rate[x]
    BY DEF Budget
  <1>3. count[x][y] \in Nat /\ count \in [Scopes -> [Keys -> Nat]]
    BY DEF LimiterTypeOK
  <1>4. CASE x = s /\ y = k /\ Admits(s, k)
    <2>1. Level(x, y)' = Level(s, k) - Token /\ Level(s, k) \in Nat
      BY <1>4, AllowLevel, LevelType DEF Left
    <2>2. count'[s][k] = count[s][k] + 1
      BY <1>3, <1>4 DEF Allow
    <2>3. (count[s][k] + 1) * Token = count[s][k] * Token + Token
      BY <1>3, <1>4, OneMore
    <2>4. count'[x][y] * Token + Level(x, y)' = count[x][y] * Token + Level(x, y)
      <3> DEFINE m == count[s][k] * Token
      <3>1. m \in Nat /\ count'[s][k] * Token = m + Token
        BY <1>3, <1>4, <2>2, <2>3, ProductNat
      <3> HIDE DEF m
      <3>2. count'[s][k] * Token + Level(x, y)' = m + Level(s, k)
        BY <2>1, <3>1, SMT
      <3> QED
        BY <1>4, <3>2 DEF m
    <2> QED
      BY <1>1, <1>2, <2>4
  <1>5. CASE ~(x = s /\ y = k /\ Admits(s, k))
    <2>1. Level(x, y)' = Level(x, y)
      BY <1>5, AllowLevel DEF Left
    <2>2. count'[x][y] = count[x][y]
      BY <1>3, <1>5 DEF Allow
    <2> QED
      BY <1>1, <1>2, <2>1, <2>2
  <1> QED
    BY <1>4, <1>5

LEMMA LevelsNext ==
  LimiterTypeOK' => (\A s \in Scopes, k \in Keys : Level(s, k) \in 0..Burst[s])'
  <1>1. LimiterTypeOK => \A s \in Scopes, k \in Keys : Level(s, k) \in 0..Burst[s]
    BY LevelType
  <1> QED
    BY <1>1, PTL

LEMMA BudgetTick ==
  ASSUME LimiterInv, Tick
  PROVE  Budget'
  <1> SUFFICES ASSUME NEW s \in Scopes, NEW k \in Keys
      PROVE count'[s][k] * Token + Level(s, k)' <= Burst[s] + (now' - opened') * Rate[s]
    BY DEF Budget
  <1> USE DEF LimiterInv
  <1>1. now' = now + 1 /\ now \in Nat /\ opened \in 0..now
    BY DEF Tick, LimiterTypeOK
  <1>2. CASE UNCHANGED <<opened, count>>
    <2> DEFINE m == count[s][k] * Token
               n == (now - opened) * Rate[s]
               l == Level(s, k)
    <2>1. now' - opened' = (now - opened) + 1
      BY <1>1, <1>2, SMT
    <2>2. ((now - opened) + 1) * Rate[s] = n + Rate[s]
      BY <1>1, OneMore
    <2>3. m + l <= Burst[s] + n
      BY DEF Budget
    <2>4. Level(s, k)' <= l + Rate[s] /\ Level(s, k)' \in Nat /\ l \in Nat
      <3>1. Level(s, k)' \in 0..Burst[s]
        BY TypeTick, LevelsNext
      <3> QED
        BY <3>1, TickLevel, LevelType
    <2>5. m \in Nat /\ n \in Nat
      <3>1. count[s][k] \in Nat /\ now - opened \in Nat
        BY <1>1 DEF LimiterTypeOK
      <3> QED
        BY <3>1, ProductNat
    <2>6. count'[s][k] * Token = m
      BY <1>2
    <2> HIDE DEF m, n, l
    <2>7. m + Level(s, k)' <= Burst[s] + (n + Rate[s])
      BY <2>3, <2>4, <2>5, SMT
    <2> QED
      BY <2>1, <2>2, <2>6, <2>7
  <1>3. CASE opened' = now' /\ count' = [x \in Scopes |-> [y \in Keys |-> 0]]
    <2>1. count'[s][k] = 0 /\ now' \in Nat
      BY <1>1, <1>3
    <2>2. Level(s, k)' \in 0..Burst[s]
      BY TypeTick, LevelsNext
    <2> QED
      BY <1>3, <2>1, <2>2, FreshBudget
  <1> QED
    BY <1>2, <1>3 DEF Tick

LEMMA BudgetStep == LimiterInv /\ [LimiterNext]_limiterVars => Budget'
  <1> SUFFICES ASSUME LimiterInv, [LimiterNext]_limiterVars PROVE Budget'
    OBVIOUS
  <1>1. CASE UNCHANGED limiterVars
    BY <1>1 DEF limiterVars, LimiterInv, Budget, Level, Known
  <1>2. CASE Tick
    BY <1>2, BudgetTick
  <1>3. ASSUME NEW s \in Scopes, Collect(s) PROVE Budget'
    <2>1. count' = count /\ now' = now /\ opened' = opened
      BY <1>3 DEF Collect
    <2>2. \A x \in Scopes, y \in Keys : Level(x, y)' = Level(x, y)
      BY <1>3, CollectLevel DEF LimiterInv
    <2> QED
      BY <2>1, <2>2 DEF LimiterInv, Budget
  <1>4. ASSUME NEW s \in Scopes, NEW k \in Keys, Allow(s, k) PROVE Budget'
    BY <1>4, BudgetAllow
  <1> QED
    BY <1>1, <1>2, <1>3, <1>4 DEF LimiterNext

LEMMA LimiterInvariant == LimiterSpec => []LimiterInv
  <1>1. LimiterInit => LimiterInv
    BY TypeInit, BudgetInit DEF LimiterInv
  <1>2. LimiterInv /\ [LimiterNext]_limiterVars => LimiterInv'
    BY TypeStep, BudgetStep DEF LimiterInv
  <1> QED
    BY <1>1, <1>2, PTL DEF LimiterSpec

LEMMA BudgetSuffices == LimiterInv => WithinBudget
  <1> SUFFICES ASSUME LimiterInv, NEW s \in Scopes, NEW k \in Keys
      PROVE count[s][k] * Token <= Burst[s] + (now - opened) * Rate[s]
    BY DEF WithinBudget
  <1> DEFINE m == count[s][k] * Token
             n == Burst[s] + (now - opened) * Rate[s]
  <1>1. m + Level(s, k) <= n
    BY DEF LimiterInv, Budget
  <1>2. m \in Nat /\ n \in Nat /\ Level(s, k) \in Nat
    <2>1. count[s][k] \in Nat /\ now - opened \in Nat
      BY DEF LimiterInv, LimiterTypeOK
    <2>2. (now - opened) * Rate[s] \in Nat /\ m \in Nat
      BY <2>1, ProductNat
    <2> QED
      BY <2>2, LevelType DEF LimiterInv
  <1> HIDE DEF m, n
  <1>3. m <= n
    BY <1>1, <1>2, SMT
  <1> QED
    BY <1>3 DEF m, n

\* Counted from any moment, no client is admitted more often than a full bucket
\* and the rate allow, garbage collection or not (ratelimit.go:40-74).
THEOREM NeverOverBudget == LimiterSpec => []WithinBudget
  BY LimiterInvariant, BudgetSuffices, PTL

\* A client that waited for one token to come back is admitted
\* (ratelimit.go:50-55).
THEOREM PatienceIsRewarded == LimiterSpec => PatientAdmitted
  <1> DEFINE Patient == \A s \in Scopes : \A k \in DOMAIN lastSeen[s] :
               (now - lastSeen[s][k]) * Rate[s] >= Token /\ Allow(s, k)
                 => count'[s][k] = count[s][k] + 1
  <1>1. LimiterTypeOK => Patient
    <2> SUFFICES ASSUME LimiterTypeOK, NEW s \in Scopes, NEW k \in DOMAIN lastSeen[s],
                        (now - lastSeen[s][k]) * Rate[s] >= Token, Allow(s, k)
        PROVE count'[s][k] = count[s][k] + 1
      OBVIOUS
    <2> DEFINE b == buckets[s][k]
               n == (now - b.last) * Rate[s]
    <2>1. /\ k \in Keys /\ Known(s, k) /\ lastSeen[s][k] = b.last
          /\ b.tokens \in 0..Burst[s] /\ b.last \in 0..now /\ now \in Nat
      BY DEF LimiterTypeOK, Known
    <2>2. n >= Token
      BY <2>1
    <2>3. n \in Nat
      <3>1. now - b.last \in Nat
        BY <2>1, SMT
      <3> QED
        BY <3>1, ProductNat
    <2>4. Level(s, k) = Least(Burst[s], b.tokens + n)
      BY <2>1 DEF Level
    <2>5. Admits(s, k)
      <3> HIDE DEF n
      <3>1. Level(s, k) >= Token
        BY <2>1, <2>2, <2>3, <2>4, SMT DEF Least
      <3> QED
        BY <3>1 DEF Admits
    <2>6. count' = [count EXCEPT ![s][k] = @ + 1] /\ count \in [Scopes -> [Keys -> Nat]]
      BY <2>5 DEF Allow, LimiterTypeOK
    <2> QED
      BY <2>1, <2>6
  <1>2. [][Patient]_limiterVars <=> PatientAdmitted
    BY DEF PatientAdmitted
  <1> QED
    BY <1>1, <1>2, LimiterTypeCorrect, PTL
=============================================================================
