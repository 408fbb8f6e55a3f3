-------------------------- MODULE GatewayTheorems --------------------------
(***************************************************************************)
(* What accounts, sessions and the limiters in front of them guarantee,    *)
(* for every number of clients and addresses, every set of forms, every    *)
(* rate, token life, clock bound and size of the table.                    *)
(***************************************************************************)
EXTENDS Gateway, RateLimiterTheorems, FiniteSetTheorems

USE LimiterAssumption, GatewayAssumption

-----------------------------------------------------------------------------
(* The gateway uses the limiters as RateLimiter describes. *)

LEMMA LimitedStep ==
  ASSUME [Next]_vars
  PROVE  [LimiterNext]_limiterVars
  <1>1. "auth" \in Scopes /\ "bid" \in Scopes
    OBVIOUS
  <1>2. ASSUME NEW k \in Keys, Allow("auth", k) \/ Allow("bid", k)
        PROVE  LimiterNext
    BY <1>1, <1>2 DEF LimiterNext
  <1>3. CASE UNCHANGED vars
    BY <1>3 DEF vars
  <1>4. CASE \E sc \in Scopes : Collect(sc)
    BY <1>4 DEF LimiterNext
  <1>5. CASE Tick
    BY <1>5 DEF LimiterNext
  <1>6. ASSUME NEW c \in Clients, NEW k \in Keys, NEW kind \in {"register", "login"},
               NEW f \in Forms, Submit(c, k, kind, f)
        PROVE  LimiterNext
    BY <1>2, <1>6 DEF Submit, Limited
  <1>7. ASSUME NEW k \in Keys, ShowForm(k) PROVE LimiterNext
    BY <1>2, <1>7 DEF ShowForm
  <1>8. ASSUME NEW c \in Clients, NEW k \in Keys, NEW header \in Headers(c), PlaceBid(c, k, header)
        PROVE  LimiterNext
    BY <1>2, <1>8 DEF PlaceBid
  <1>9. ASSUME NEW c \in Clients,
               Register(c) \/ Login(c) \/ Deliver(c) \/ LoseAnswer(c) \/ Logout(c)
        PROVE  UNCHANGED limiterVars
    BY <1>9 DEF Register, Login, Deliver, LoseAnswer, Logout
  <1> QED
    BY <1>3, <1>4, <1>5, <1>6, <1>7, <1>8, <1>9 DEF Next

\* Every behaviour of the gateway is, seen at its limiters, one of RateLimiter
\* (routes.go:20-21, 46-65; ratelimit.go:40-74).
THEOREM GatewayLimits == Spec => LimiterSpec
  <1>1. Init => LimiterInit
    BY DEF Init
  <1> QED
    BY <1>1, LimitedStep, PTL DEF Spec, LimiterSpec

\* The budget of every key holds behind the real routes
\* (routes.go:20-21, ratelimit.go:40-74).
THEOREM GatewayBudget == Spec => [](LimiterTypeOK /\ WithinBudget)
  BY GatewayLimits, LimiterTypeCorrect, NeverOverBudget, PTL

-----------------------------------------------------------------------------
(* The inductive invariant. *)

\* Rows are normalised, and differ as they are stored.
TableInv ==
  /\ users \in Seq(Account) /\ Len(users) <= MaxUsers
  /\ \A i \in 1..Len(users) : users[i].name.style # "padded" /\ users[i].email.style = "plain"
  /\ \A i, j \in 1..Len(users) :
       i # j => users[i].name # users[j].name /\ users[i].email # users[j].email

LEMMA ClientsFinite == IsFiniteSet(Clients) /\ Cardinality(Clients) \in Nat
  BY FS_CardinalityType

LEMMA PendingFinite ==
  ASSUME NEW k
  PROVE  /\ IsFiniteSet(Pending(k)) /\ Cardinality(Pending(k)) \in Nat
         /\ Cardinality(Pending(k)) <= Cardinality(Clients)
  <1>1. Pending(k) \subseteq Clients
    BY DEF Pending
  <1> QED
    BY <1>1, ClientsFinite, FS_Subset, FS_CardinalityType

RequestInv ==
  /\ DOMAIN request = Clients
  /\ \A c \in Clients :
       /\ request[c].stage \in {"none", "admitted", "answered"}
       /\ request[c].stage = "admitted" => request[c].form \in Forms /\ request[c].key \in Keys

ProofInv ==
  /\ guesses \in [Keys -> Int]
  /\ proved \in [Clients -> [Ids -> Int]]
  /\ \A c \in Clients, i \in Ids : proved[c][i] <= now

\* The tokens a client holds, in an answer, a cookie or a header.
Hand(c) ==
  (IF request[c].stage = "answered" THEN {request[c].token} ELSE {})
    \cup (IF jar[c] # None THEN {jar[c].token} ELSE {})
    \cup (IF bearer[c] # None THEN {bearer[c]} ELSE {})

\* A token is for a row of the table, and no fresher than the password given.
Backed(c, t) ==
  /\ t.uid \in 1..Len(users)
  /\ t.exp \in Int /\ t.exp <= proved[c][t.uid] + TokenTTL

HandInv ==
  /\ DOMAIN jar = Clients /\ DOMAIN bearer = Clients
  /\ \A c \in Clients : \A t \in Hand(c) : Backed(c, t)

SessionInv == TableInv /\ RequestInv /\ ProofInv /\ HandInv

GatewayInv == LimiterTypeOK /\ SessionInv

LEMMA SessionInit == Init => SessionInv
  <1> SUFFICES ASSUME Init PROVE SessionInv
    OBVIOUS
  <1>1. TableInv
    <2>1. users = <<>> /\ Len(users) = 0 /\ users \in Seq(Account)
      BY DEF Init
    <2> QED
      BY <2>1 DEF TableInv
  <1>2. RequestInv
    BY DEF Init, RequestInv, Idle0
  <1>3. ProofInv
    <2>1. now = 0 /\ guesses \in [Keys -> Int]
      BY DEF Init, LimiterInit
    <2>2. -TokenTTL \in Int /\ -TokenTTL <= 0
      BY SMT
    <2>3. proved = [c \in Clients |-> [u \in Ids |-> -TokenTTL]]
      BY DEF Init
    <2> DEFINE m == -TokenTTL
    <2> HIDE DEF m
    <2> QED
      BY <2>1, <2>2, <2>3 DEF ProofInv, m
  <1>4. HandInv
    <2>1. \A c \in Clients : Hand(c) = {}
      BY DEF Init, Idle0, Hand
    <2> QED
      BY <2>1 DEF Init, HandInv
  <1> QED
    BY <1>1, <1>2, <1>3, <1>4 DEF SessionInv

-----------------------------------------------------------------------------
(* Steps. *)

\* Nobody loses a row or the merit of having given a password.
Grown ==
  /\ Len(users) <= Len(users')
  /\ \A c \in Clients, i \in Ids : proved'[c][i] >= proved[c][i]

\* A step keeps HandInv if what it hands out is backed.
LEMMA HandKept ==
  ASSUME SessionInv, ProofInv', TableInv', Grown,
         DOMAIN jar' = Clients, DOMAIN bearer' = Clients,
         \A c \in Clients : \A t \in Hand(c)' : t \in Hand(c) \/ Backed(c, t)'
  PROVE  HandInv'
  <1> SUFFICES ASSUME NEW c \in Clients, NEW t \in Hand(c)' PROVE Backed(c, t)'
    BY DEF HandInv
  <1>1. CASE t \in Hand(c)
    <2>1. /\ t.uid \in 1..Len(users) /\ t.exp \in Int
          /\ t.exp <= proved[c][t.uid] + TokenTTL
      BY <1>1 DEF SessionInv, HandInv, Backed
    <2>2. Len(users) \in Nat /\ Len(users') \in Nat /\ Len(users) <= MaxUsers
      BY DEF SessionInv, TableInv
    <2>3. t.uid \in Ids /\ t.uid \in 1..Len(users')
      BY <2>1, <2>2 DEF Grown, Ids
    <2>4. proved'[c][t.uid] \in Int /\ proved[c][t.uid] \in Int
      BY <2>3 DEF SessionInv, ProofInv
    <2>5. proved'[c][t.uid] >= proved[c][t.uid]
      BY <2>3 DEF Grown
    <2>6. t.exp <= proved'[c][t.uid] + TokenTTL
      <3> DEFINE p == proved[c][t.uid]
                 q == proved'[c][t.uid]
      <3>1. p \in Int /\ q \in Int /\ q >= p /\ t.exp \in Int /\ t.exp <= p + TokenTTL
        BY <2>1, <2>4, <2>5
      <3> HIDE DEF p, q
      <3>2. t.exp <= q + TokenTTL
        BY <3>1, SMT
      <3> QED
        BY <3>2 DEF q
    <2>7. t.uid \in 1..Len(users') /\ t.exp \in Int
      BY <2>1, <2>3
    <2> QED
      BY <2>6, <2>7 DEF Backed
  <1>2. CASE Backed(c, t)'
    BY <1>2
  <1> QED
    BY <1>1, <1>2

LEMMA SameGrown ==
  ASSUME SessionInv, users' = users, proved' = proved
  PROVE  Grown /\ TableInv'
  <1>1. Len(users) <= Len(users')
    BY DEF SessionInv, TableInv
  <1>2. \A c \in Clients, i \in Ids : proved'[c][i] >= proved[c][i]
    <2>1. \A c \in Clients, i \in Ids : proved[c][i] \in Int
      BY DEF SessionInv, ProofInv
    <2> QED
      BY <2>1
  <1>3. TableInv'
    BY DEF SessionInv, TableInv
  <1> QED
    BY <1>1, <1>2, <1>3 DEF Grown

\* Time and the limiters leave accounts alone.
LEMMA OnlyTime ==
  ASSUME SessionInv, now \in Nat, now' \in Nat, now <= now',
         UNCHANGED <<users, request, jar, bearer, proved>>, guesses' \in [Keys -> Int]
  PROVE  SessionInv'
  <1>1. ProofInv'
    <2>1. \A c \in Clients, i \in Ids : proved[c][i] \in Int /\ proved[c][i] <= now
      BY DEF SessionInv, ProofInv
    <2>2. \A c \in Clients, i \in Ids : proved[c][i] <= now'
      BY <2>1
    <2> QED
      BY <2>2 DEF SessionInv, ProofInv
  <1>2. TableInv' /\ Grown
    BY SameGrown
  <1>3. RequestInv'
    BY DEF SessionInv, RequestInv
  <1>4. HandInv'
    <2>1. \A c \in Clients : \A t \in Hand(c)' : t \in Hand(c)
      BY DEF Hand
    <2> QED
      BY <1>1, <1>2, <2>1, HandKept DEF SessionInv, HandInv
  <1> QED
    BY <1>1, <1>2, <1>3, <1>4 DEF SessionInv

LEMMA SameProof ==
  ASSUME SessionInv, now' = now, proved' = proved, guesses' \in [Keys -> Int]
  PROVE  ProofInv'
  BY DEF SessionInv, ProofInv

LEMMA SubmitSession ==
  ASSUME SessionInv, NEW c \in Clients, NEW k \in Keys, NEW kind \in {"register", "login"},
         NEW f \in Forms, Submit(c, k, kind, f)
  PROVE  SessionInv'
  <1> DEFINE r == [stage |-> "admitted", key |-> k, kind |-> kind, form |-> f]
  <1>1. /\ request' = [request EXCEPT ![c] = r] \/ request' = request
        /\ now' = now /\ UNCHANGED <<users, jar, bearer, proved, guesses>>
    BY DEF Submit, Limited, Allow
  <1>2. RequestInv'
    BY <1>1 DEF SessionInv, RequestInv
  <1>3. ProofInv'
    BY <1>1, SameProof DEF SessionInv, ProofInv
  <1>4. TableInv' /\ Grown
    BY <1>1, SameGrown
  <1>5. \A d \in Clients : \A t \in Hand(d)' : t \in Hand(d)
    BY <1>1 DEF Hand, SessionInv, RequestInv
  <1>6. HandInv'
    BY <1>1, <1>3, <1>4, <1>5, HandKept DEF SessionInv, HandInv
  <1> QED
    BY <1>2, <1>3, <1>4, <1>6 DEF SessionInv

\* The end of a request: its answer reaches the cookie jar or gets lost.
LEMMA EndSession ==
  ASSUME SessionInv, NEW c \in Clients, Deliver(c) \/ LoseAnswer(c) \/ Logout(c)
  PROVE  SessionInv'
  <1>1. now' = now /\ UNCHANGED <<users, proved, guesses>>
    BY DEF Deliver, LoseAnswer, Logout, limiterVars
  <1>2. RequestInv'
    BY DEF Deliver, LoseAnswer, Logout, Failed, Idle0, SessionInv, RequestInv
  <1>3. ProofInv'
    BY <1>1, SameProof DEF SessionInv, ProofInv
  <1>4. TableInv' /\ Grown
    BY <1>1, SameGrown
  <1>5. DOMAIN jar' = Clients /\ DOMAIN bearer' = Clients
    BY DEF Deliver, LoseAnswer, Logout, SessionInv, HandInv
  <1>6. \A d \in Clients : \A t \in Hand(d)' : t \in Hand(d)
    <2>1. DOMAIN request = Clients /\ DOMAIN jar = Clients /\ DOMAIN bearer = Clients
      BY DEF SessionInv, RequestInv, HandInv
    <2>2. CASE Deliver(c)
      <3>1. /\ request[c].stage = "answered"
            /\ request' = [request EXCEPT ![c] = Idle0]
            /\ jar' = [jar EXCEPT ![c] = Cookie(request[c].token)]
            /\ bearer' = bearer \/ bearer' = [bearer EXCEPT ![c] = request[c].token]
        BY <2>2 DEF Deliver, Failed
      <3>2. Cookie(request[c].token).token = request[c].token
        BY DEF Cookie
      <3> QED
        BY <2>1, <3>1, <3>2 DEF Hand, Idle0
    <2>3. CASE LoseAnswer(c)
      BY <2>1, <2>3 DEF LoseAnswer, Failed, Idle0, Hand
    <2>4. CASE Logout(c)
      BY <2>1, <2>4 DEF Logout, Hand
    <2> QED
      BY <2>2, <2>3, <2>4
  <1>7. HandInv'
    BY <1>3, <1>4, <1>5, <1>6, HandKept
  <1> QED
    BY <1>2, <1>3, <1>4, <1>7 DEF SessionInv

\* A password has just been given: the token is worth as long as that.
LEMMA IssueSession ==
  ASSUME SessionInv, now \in Nat, now' = now, TableInv', Len(users) <= Len(users'),
         NEW c \in Clients, NEW i \in Ids, i \in 1..Len(users'), Proved(c, i),
         Answered(c, i) \/ Failed(c), UNCHANGED <<jar, bearer>>, guesses' \in [Keys -> Int]
  PROVE  SessionInv'
  <1>1. /\ proved \in [Clients -> [Ids -> Int]]
        /\ \A d \in Clients, j \in Ids : proved[d][j] <= now /\ proved[d][j] \in Int
    BY DEF SessionInv, ProofInv
  <1> DEFINE p == [proved[c] EXCEPT ![i] = now]
  <1>2. p \in [Ids -> Int] /\ p[i] = now /\ \A j \in Ids : j # i => p[j] = proved[c][j]
    BY <1>1
  <1>3. proved' = [proved EXCEPT ![c] = p]
    BY DEF Proved
  <1> HIDE DEF p
  <1>4. /\ proved' \in [Clients -> [Ids -> Int]] /\ proved'[c][i] = now
        /\ \A d \in Clients, j \in Ids :
             proved'[d][j] = IF d = c /\ j = i THEN now ELSE proved[d][j]
    BY <1>1, <1>2, <1>3
  <1>5. ASSUME NEW d \in Clients, NEW j \in Ids
        PROVE  proved'[d][j] <= now' /\ proved'[d][j] >= proved[d][j]
    <2>1. proved[d][j] \in Int /\ proved[d][j] <= now
      BY <1>1
    <2>2. proved'[d][j] = now \/ proved'[d][j] = proved[d][j]
      BY <1>4
    <2> QED
      BY <2>1, <2>2, SMT
  <1>6. ProofInv' /\ Grown
    BY <1>4, <1>5, Zenon DEF ProofInv, Grown
  <1>7. RequestInv'
    <2>1. PICK r : /\ request' = [request EXCEPT ![c] = r]
                   /\ r.stage = "answered" \/ r.stage = "none"
      <3> DEFINE a == [stage |-> "answered", token |-> Issue(i)]
      <3>1. a.stage = "answered" /\ Idle0.stage = "none"
        BY DEF Idle0
      <3>2. request' = [request EXCEPT ![c] = a] \/ request' = [request EXCEPT ![c] = Idle0]
        BY DEF Answered, Failed
      <3> HIDE DEF a
      <3> QED
        BY <3>1, <3>2
    <2> QED
      BY <2>1 DEF SessionInv, RequestInv
  <1>8. PICK t : t = Issue(i)
    OBVIOUS
  <1>9. Backed(c, t)'
    <2>1. t.uid = i /\ t.exp = now + TokenTTL
      BY <1>8 DEF Issue
    <2> QED
      BY <1>4, <2>1 DEF Backed
  <1>10. \A d \in Clients : \A u \in Hand(d)' : u \in Hand(d) \/ (d = c /\ u = t)
    <2>1. DOMAIN request = Clients
      BY DEF SessionInv, RequestInv
    <2>2. \/ request' = [request EXCEPT ![c] = [stage |-> "answered", token |-> t]]
          \/ request' = [request EXCEPT ![c] = Idle0]
      BY <1>8 DEF Answered, Failed
    <2> QED
      BY <2>1, <2>2 DEF Hand, Idle0
  <1>11. HandInv'
    <2>1. DOMAIN jar' = Clients /\ DOMAIN bearer' = Clients
      BY DEF SessionInv, HandInv
    <2>2. \A d \in Clients : \A u \in Hand(d)' : u \in Hand(d) \/ Backed(d, u)'
      BY <1>9, <1>10
    <2> QED
      BY <1>6, <2>1, <2>2, HandKept
  <1> QED
    BY <1>6, <1>7, <1>11 DEF SessionInv

\* A failed registration or login leaves no trace but a comparison.
LEMMA FailSession ==
  ASSUME SessionInv, now' = now, NEW c \in Clients, Failed(c),
         UNCHANGED <<users, proved, jar, bearer>>, guesses' \in [Keys -> Int]
  PROVE  SessionInv'
  <1>1. RequestInv'
    BY DEF Failed, Idle0, SessionInv, RequestInv
  <1>2. ProofInv' /\ TableInv' /\ Grown
    BY SameProof, SameGrown
  <1>3. \A d \in Clients : \A t \in Hand(d)' : t \in Hand(d)
    BY DEF Hand, Failed, Idle0, SessionInv, RequestInv
  <1>4. HandInv'
    BY <1>2, <1>3, HandKept DEF SessionInv, HandInv
  <1> QED
    BY <1>1, <1>2, <1>4 DEF SessionInv

LEMMA LoginSession ==
  ASSUME SessionInv, now \in Nat, NEW c \in Clients, Login(c)
  PROVE  SessionInv'
  <1>1. PICK f : f = request[c].form
    OBVIOUS
  <1>2. /\ now' = now /\ UNCHANGED <<users, jar, bearer>>
        /\ guesses' = IF Found(f) = {} THEN guesses ELSE [guesses EXCEPT ![request[c].key] = @ + 1]
        /\ \/ \E i \in Matches(f) : Answered(c, i) /\ Proved(c, i)
           \/ Failed(c) /\ UNCHANGED proved
    BY <1>1 DEF Login, limiterVars
  <1>3. guesses' \in [Keys -> Int]
    BY <1>2 DEF SessionInv, ProofInv, RequestInv, Login, Admitted
  <1>4. ASSUME NEW i \in Matches(f), Answered(c, i), Proved(c, i) PROVE SessionInv'
    <2>1. Len(users) \in Nat /\ Len(users) <= MaxUsers /\ DOMAIN users = 1..Len(users)
      BY DEF SessionInv, TableInv
    <2>2. i \in Ids /\ i \in 1..Len(users') /\ Len(users) <= Len(users')
      BY <1>2, <2>1 DEF Matches, Found, Users, Ids
    <2>3. TableInv'
      BY <1>2 DEF SessionInv, TableInv
    <2> QED
      BY <1>2, <1>3, <1>4, <2>2, <2>3, IssueSession
  <1>5. CASE Failed(c) /\ UNCHANGED proved
    BY <1>2, <1>3, <1>5, FailSession
  <1> QED
    BY <1>2, <1>4, <1>5

\* What Register stores is an account, and normalised.
LEMMA NewUserNormal ==
  ASSUME NEW f \in Forms
  PROVE  /\ NewUser(f) \in Account
         /\ NewUser(f).name.style # "padded" /\ NewUser(f).email.style = "plain"
  <1>1. f.name \in Text /\ f.email \in Text
    OBVIOUS
  <1>2. TrimSpace(f.name) \in Text /\ TrimSpace(f.name).style # "padded"
    BY <1>1 DEF TrimSpace, Text
  <1>3. ToLower(f.email) \in Text /\ ToLower(f.email).style # "upper"
    BY <1>1 DEF ToLower, Text
  <1>4. Address(f.email) \in Text /\ Address(f.email).style = "plain"
    BY <1>3 DEF Address, TrimSpace, Text
  <1> QED
    BY <1>2, <1>4 DEF NewUser, Account

LEMMA RegisterSession ==
  ASSUME SessionInv, now \in Nat, NEW c \in Clients, Register(c)
  PROVE  SessionInv'
  <1>1. request[c].form \in Forms
    BY DEF Register, Admitted, SessionInv, RequestInv
  <1>2. PICK f \in Forms : f = request[c].form
    BY <1>1
  <1>3. PICK u : u = NewUser(f)
    OBVIOUS
  <1>4. now' = now /\ UNCHANGED <<jar, bearer, guesses>> /\ guesses \in [Keys -> Int]
    BY DEF Register, limiterVars, SessionInv, ProofInv
  <1>5. CASE Failed(c) /\ UNCHANGED <<users, proved>>
    BY <1>4, <1>5, FailSession
  <1>6. CASE /\ ~Exists(u) /\ Len(users) < MaxUsers /\ users' = Append(users, u)
             /\ Proved(c, Len(users'))
             /\ Answered(c, Len(users')) \/ Failed(c)
    <2>1. u \in Account /\ u.name.style # "padded" /\ u.email.style = "plain"
      BY <1>3, NewUserNormal
    <2>2. PICK i : i = Len(users')
      OBVIOUS
    <2>3. /\ users \in Seq(Account) /\ Len(users) \in Nat /\ DOMAIN users = 1..Len(users)
          /\ users' \in Seq(Account) /\ i = Len(users) + 1 /\ users'[i] = u
          /\ \A j \in 1..Len(users) : users'[j] = users[j]
      BY <1>6, <2>1, <2>2 DEF SessionInv, TableInv
    <2>4. i \in Ids /\ i \in 1..Len(users') /\ Len(users) <= Len(users') /\ Len(users') <= MaxUsers
      BY <1>6, <2>2, <2>3 DEF Ids
    <2>5. \A j \in 1..Len(users) : users[j].name # u.name /\ users[j].email # u.email
      BY <1>6, <2>3 DEF Exists, Users
    <2>6. \A j \in 1..i : j = i \/ j \in 1..Len(users)
      BY <2>3
    <2>7. TableInv'
      <3>1. \A j \in 1..i : users'[j].name.style # "padded" /\ users'[j].email.style = "plain"
        BY <2>1, <2>3, <2>6 DEF SessionInv, TableInv
      <3>2. \A j, k \in 1..i :
              j # k => users'[j].name # users'[k].name /\ users'[j].email # users'[k].email
        <4>1. \A j, k \in 1..Len(users) :
                j # k => users[j].name # users[k].name /\ users[j].email # users[k].email
          BY DEF SessionInv, TableInv
        <4> SUFFICES ASSUME NEW j \in 1..i, NEW k \in 1..i, j # k
            PROVE users'[j].name # users'[k].name /\ users'[j].email # users'[k].email
          OBVIOUS
        <4>2. CASE j = i
          BY <2>3, <2>5, <2>6, <4>2
        <4>3. CASE k = i
          BY <2>3, <2>5, <2>6, <4>3
        <4>4. CASE j # i /\ k # i
          BY <2>3, <2>6, <4>1, <4>4
        <4> QED
          BY <4>2, <4>3, <4>4
      <3> QED
        BY <2>2, <2>3, <2>4, <3>1, <3>2 DEF TableInv
    <2>8. Proved(c, i) /\ (Answered(c, i) \/ Failed(c))
      BY <1>6, <2>2 DEF Proved, Answered, Failed, Issue
    <2> QED
      BY <1>4, <2>4, <2>7, <2>8, IssueSession
  <1> QED
    BY <1>2, <1>3, <1>5, <1>6 DEF Register

LEMMA SessionStep == GatewayInv /\ [Next]_vars => SessionInv'
  <1> SUFFICES ASSUME GatewayInv, [Next]_vars PROVE SessionInv'
    OBVIOUS
  <1>1. /\ SessionInv /\ now \in Nat /\ guesses \in [Keys -> Int]
    BY DEF GatewayInv, LimiterTypeOK, SessionInv, ProofInv
  <1>2. ASSUME UNCHANGED sessionVars, now' = now PROVE SessionInv'
    BY <1>1, <1>2, OnlyTime DEF sessionVars
  <1>3. CASE UNCHANGED vars
    BY <1>2, <1>3 DEF vars, limiterVars
  <1>4. CASE (\E sc \in Scopes : Collect(sc)) /\ UNCHANGED sessionVars
    BY <1>2, <1>4 DEF Collect
  <1>5. ASSUME NEW k \in Keys, ShowForm(k) PROVE SessionInv'
    BY <1>2, <1>5 DEF ShowForm, Allow
  <1>6. ASSUME NEW c \in Clients, NEW k \in Keys, NEW header \in Headers(c), PlaceBid(c, k, header)
        PROVE  SessionInv'
    BY <1>2, <1>6 DEF PlaceBid, Allow
  <1>7. CASE /\ Tick /\ UNCHANGED <<users, request, jar, bearer, proved>>
             /\ guesses' = IF opened' = now' THEN [k \in Keys |-> -Cardinality(Pending(k))] ELSE guesses
    <2>1. now' \in Nat /\ now <= now' /\ guesses' \in [Keys -> Int]
      BY <1>1, <1>7, PendingFinite DEF Tick
    <2> QED
      BY <1>1, <1>7, <2>1, OnlyTime
  <1>8. ASSUME NEW c \in Clients, NEW k \in Keys, NEW kind \in {"register", "login"},
               NEW f \in Forms, Submit(c, k, kind, f)
        PROVE  SessionInv'
    BY <1>1, <1>8, SubmitSession
  <1>9. ASSUME NEW c \in Clients,
               Register(c) \/ Login(c) \/ Deliver(c) \/ LoseAnswer(c) \/ Logout(c)
        PROVE  SessionInv'
    BY <1>1, <1>9, RegisterSession, LoginSession, EndSession
  <1> QED
    BY <1>3, <1>4, <1>5, <1>6, <1>7, <1>8, <1>9 DEF Next

LEMMA GatewayInvariant == Spec => []GatewayInv
  <1>1. Init => GatewayInv
    BY TypeInit, SessionInit DEF Init, GatewayInv
  <1>2. GatewayInv /\ [Next]_vars => GatewayInv'
    BY LimitedStep, TypeStep, SessionStep DEF GatewayInv
  <1> QED
    BY <1>1, <1>2, PTL DEF Spec

-----------------------------------------------------------------------------
(* What people may rely on. *)

\* No token, in any hand, is for an account that does not exist
\* (auth.go:58-73, 92-96, 126-146).
THEOREM NoOrphanTokens == Spec => []TypeOK
  <1>1. GatewayInv => TypeOK
    <2> SUFFICES ASSUME GatewayInv PROVE TypeOK
      OBVIOUS
    <2>1. ASSUME NEW c \in Clients, NEW t \in Hand(c) PROVE Me(t) # None
      <3>1. t.uid \in DOMAIN users /\ users \in Seq(Account)
        BY <2>1 DEF GatewayInv, SessionInv, HandInv, TableInv, Backed
      <3>2. users[t.uid] \in Account
        BY <3>1
      <3> QED
        BY <3>1, <3>2 DEF Me, Users
    <2>2. ASSUME NEW c \in Clients
          PROVE  /\ request[c].stage = "answered" => Me(request[c].token) # None
                 /\ jar[c] # None => Me(jar[c].token) # None
                 /\ bearer[c] # None => Me(bearer[c]) # None
      <3>1. /\ request[c].stage = "answered" => request[c].token \in Hand(c)
            /\ jar[c] # None => jar[c].token \in Hand(c)
            /\ bearer[c] # None => bearer[c] \in Hand(c)
        BY DEF Hand
      <3> QED
        BY <2>1, <3>1
    <2> QED
      BY <2>2 DEF TypeOK, GatewayInv, SessionInv, TableInv, RequestInv, ProofInv
  <1> QED
    BY <1>1, GatewayInvariant, PTL

\* Accounts differ although their owners type spaces and capitals, in whatever
\* order registrations run (auth.go:49-50, 66).
THEOREM AccountsDiffer == Spec => []OneAccountPerAddress
  <1>1. GatewayInv => OneAccountPerAddress
    <2> SUFFICES ASSUME GatewayInv, NEW i \in Users, NEW j \in Users, i # j
        PROVE  /\ TrimSpace(users[i].name) # TrimSpace(users[j].name)
               /\ TrimSpace(ToLower(users[i].email)) # TrimSpace(ToLower(users[j].email))
      BY DEF OneAccountPerAddress
    <2>1. /\ users \in Seq(Account) /\ i \in 1..Len(users) /\ j \in 1..Len(users)
          /\ users[i].name # users[j].name /\ users[i].email # users[j].email
      BY DEF GatewayInv, SessionInv, TableInv, Users
    <2>2. \A k \in {i, j} : TrimSpace(users[k].name) = users[k].name
      BY <2>1 DEF GatewayInv, SessionInv, TableInv, TrimSpace
    <2>3. \A k \in {i, j} : TrimSpace(ToLower(users[k].email)) = users[k].email
      BY <2>1 DEF GatewayInv, SessionInv, TableInv, TrimSpace, ToLower
    <2> QED
      BY <2>1, <2>2, <2>3
  <1> QED
    BY <1>1, GatewayInvariant, PTL

\* A client bids only in the name of an account whose password it gave while
\* the token was young (auth.go:109-124, 148-158, 192-202).
THEOREM NoBorrowedName == Spec => BidsOnlyForSelf
  <1> DEFINE Own == \A c \in Clients : \A k \in Keys, header \in Headers(c) :
               PlaceBid(c, k, header) =>
                 LET i == Claims(c, header).uid IN i \in Users /\ now < proved[c][i] + TokenTTL
  <1>1. GatewayInv => Own
    <2> SUFFICES ASSUME GatewayInv, NEW c \in Clients, NEW k \in Keys,
                        NEW header \in Headers(c), PlaceBid(c, k, header)
        PROVE  /\ Claims(c, header).uid \in Users
               /\ now < proved[c][Claims(c, header).uid] + TokenTTL
      OBVIOUS
    <2>1. PICK t : t = Sent(c, header)
      OBVIOUS
    <2>2. Claims(c, header) = t /\ t # None /\ now < t.exp
      BY <2>1 DEF PlaceBid, Claims, Accepted
    <2>3. t \in Hand(c)
      BY <2>1, <2>2 DEF Sent, Hand
    <2>4. Backed(c, t)
      BY <2>3 DEF GatewayInv, SessionInv, HandInv
    <2>5. t.uid \in Ids /\ t.uid \in Users
      BY <2>4 DEF Backed, GatewayInv, SessionInv, TableInv, Users, Ids
    <2>6. proved[c][t.uid] \in Int /\ now \in Nat
      BY <2>5 DEF GatewayInv, LimiterTypeOK, SessionInv, ProofInv
    <2>7. now < proved[c][t.uid] + TokenTTL
      <3> DEFINE p == proved[c][t.uid]
      <3>1. p \in Int /\ t.exp \in Int /\ now \in Nat /\ now < t.exp /\ t.exp <= p + TokenTTL
        BY <2>2, <2>4, <2>6 DEF Backed
      <3> HIDE DEF p
      <3>2. now < p + TokenTTL
        BY <3>1, SMT
      <3> QED
        BY <3>2 DEF p
    <2> QED
      BY <2>2, <2>5, <2>7
  <1>2. [][Own]_vars <=> BidsOnlyForSelf
    BY DEF BidsOnlyForSelf
  <1> QED
    BY <1>1, <1>2, GatewayInvariant, PTL

-----------------------------------------------------------------------------
(* Guessing passwords. *)

\* A comparison, made or to come, was admitted since the count began or is one
\* of those that guesses was set back for.
GuessInv ==
  \A k \in Keys :
    guesses[k] + Cardinality(Pending(k)) <= count["auth"][k]

LEMMA PendingFiniteNext ==
  ASSUME NEW k
  PROVE  /\ IsFiniteSet(Pending(k)') /\ Cardinality(Pending(k)') \in Nat
         /\ Cardinality(Pending(k)') <= Cardinality(Clients)
  <1>1. Pending(k)' \subseteq Clients
    BY DEF Pending
  <1> QED
    BY <1>1, ClientsFinite, FS_Subset, FS_CardinalityType

\* A step that lets nobody in compares no more than it takes from Pending.
LEMMA GuessQuiet ==
  ASSUME GuessInv, SessionInv, LimiterTypeOK,
         \A k \in Keys : Pending(k)' \subseteq Pending(k),
         guesses' = guesses,
         \A k \in Keys : count'["auth"][k] >= count["auth"][k] /\ count'["auth"][k] \in Nat
  PROVE  GuessInv'
  <1> SUFFICES ASSUME NEW k \in Keys
      PROVE guesses'[k] + Cardinality(Pending(k)') <= count'["auth"][k]
    BY DEF GuessInv
  <1>1. Cardinality(Pending(k)') <= Cardinality(Pending(k))
    BY PendingFinite, FS_Subset
  <1>2. guesses[k] + Cardinality(Pending(k)) <= count["auth"][k]
    BY DEF GuessInv
  <1>3. guesses[k] \in Int /\ count["auth"][k] \in Nat
    BY DEF SessionInv, ProofInv, LimiterTypeOK
  <1>4. count'["auth"][k] >= count["auth"][k] /\ count'["auth"][k] \in Nat
    OBVIOUS
  <1>5. /\ Cardinality(Pending(k)) \in Nat /\ Cardinality(Pending(k)') \in Nat
        /\ Cardinality(Clients) \in Nat
    BY PendingFinite, PendingFiniteNext, ClientsFinite
  <1> QED
    BY <1>1, <1>2, <1>3, <1>4, <1>5, SMT

\* A login that is let in has been paid for.
LEMMA GuessSubmit ==
  ASSUME GuessInv, GatewayInv, NEW c \in Clients, NEW k0 \in Keys,
         NEW kind \in {"register", "login"}, NEW f \in Forms, Submit(c, k0, kind, f)
  PROVE  GuessInv'
  <1> USE DEF GatewayInv
  <1> DEFINE r == [stage |-> "admitted", key |-> k0, kind |-> kind, form |-> f]
  <1>1. /\ "auth" \in Scopes /\ k0 \in Keys /\ guesses' = guesses
        /\ DOMAIN request = Clients /\ count \in [Scopes -> [Keys -> Nat]]
    BY DEF Submit, SessionInv, RequestInv, LimiterTypeOK
  <1>2. CASE Admits("auth", k0)
    <2>1. /\ request' = [request EXCEPT ![c] = r]
          /\ count' = [count EXCEPT !["auth"][k0] = @ + 1]
      BY <1>2 DEF Submit, Limited, Allow
    <2> SUFFICES ASSUME NEW k \in Keys
        PROVE guesses'[k] + Cardinality(Pending(k)') <= count'["auth"][k]
      BY DEF GuessInv
    <2>2. /\ guesses[k] \in Int /\ count["auth"][k] \in Nat
          /\ Cardinality(Pending(k)) \in Nat /\ Cardinality(Pending(k)') \in Nat
          /\ Cardinality(Clients) \in Nat
      BY <1>1, PendingFinite, PendingFiniteNext, ClientsFinite DEF SessionInv, ProofInv
    <2>3. guesses[k] + Cardinality(Pending(k)) <= count["auth"][k]
      BY DEF GuessInv
    <2>4. CASE k = k0
      <3>1. count'["auth"][k] = count["auth"][k] + 1
        BY <1>1, <2>1, <2>4
      <3>2. Pending(k)' \subseteq Pending(k) \cup {c}
        BY <1>1, <2>1 DEF Pending
      <3>3. PICK S : S = Pending(k)
        OBVIOUS
      <3>4. /\ IsFiniteSet(S \cup {c})
            /\ Cardinality(S \cup {c}) = Cardinality(S) \/ Cardinality(S \cup {c}) = Cardinality(S) + 1
        BY <3>3, PendingFinite, FS_AddElement
      <3>5. Cardinality(Pending(k)') <= Cardinality(S \cup {c})
        BY <3>2, <3>3, <3>4, FS_Subset
      <3>6. Cardinality(Pending(k)') <= Cardinality(Pending(k)) + 1
        BY <2>2, <3>3, <3>4, <3>5, SMT
      <3> QED
        BY <1>1, <2>2, <2>3, <3>1, <3>6, SMT
    <2>5. CASE k # k0
      <3>1. count'["auth"][k] = count["auth"][k]
        BY <1>1, <2>1, <2>5
      <3>2. Pending(k)' = Pending(k)
        <4>1. request[c].stage = "none" /\ r.key = k0
          BY DEF Submit, Idle0
        <4>2. \A d \in Clients : d # c => request'[d] = request[d]
          BY <1>1, <2>1
        <4>3. request'[c].key # k
          BY <1>1, <2>1, <2>5, <4>1
        <4> QED
          BY <4>1, <4>2, <4>3 DEF Pending
      <3> QED
        BY <1>1, <2>3, <3>1, <3>2
    <2> QED
      BY <2>4, <2>5
  <1>3. CASE ~Admits("auth", k0)
    <2>1. request' = request /\ count' = count
      BY <1>3 DEF Submit, Limited, Allow
    <2>2. \A k \in Keys : Pending(k)' \subseteq Pending(k)
      BY <2>1 DEF Pending
    <2> QED
      BY <1>1, <2>1, <2>2, GuessQuiet
  <1> QED
    BY <1>2, <1>3

\* A comparison takes its client from Pending.
LEMMA GuessLogin ==
  ASSUME GuessInv, GatewayInv, NEW c \in Clients, Login(c)
  PROVE  GuessInv'
  <1> USE DEF GatewayInv
  <1> DEFINE k0 == request[c].key
  <1>1. /\ "auth" \in Scopes /\ k0 \in Keys /\ count' = count
        /\ DOMAIN request = Clients /\ count \in [Scopes -> [Keys -> Nat]]
        /\ guesses \in [Keys -> Int]
    BY DEF Login, Admitted, limiterVars, SessionInv, RequestInv, ProofInv, LimiterTypeOK
  <1>2. PICK r : r.stage # "admitted" /\ request' = [request EXCEPT ![c] = r]
    <2>1. CASE Failed(c)
      BY <2>1 DEF Failed, Idle0
    <2>2. ASSUME NEW i, Answered(c, i)
          PROVE  \E r : r.stage # "admitted" /\ request' = [request EXCEPT ![c] = r]
      <3>1. PICK r : r = [stage |-> "answered", token |-> Issue(i)]
        OBVIOUS
      <3>2. r.stage # "admitted"
        BY <3>1
      <3>3. request' = [request EXCEPT ![c] = r]
        BY <2>2, <3>1 DEF Answered
      <3> QED
        BY <3>2, <3>3
    <2> QED
      BY <2>1, <2>2 DEF Login
  <1>3. \A k \in Keys : Pending(k)' \subseteq Pending(k) \ {c}
    BY <1>1, <1>2 DEF Pending
  <1>4. CASE guesses' = guesses
    BY <1>1, <1>3, <1>4, GuessQuiet
  <1>5. CASE guesses' = [guesses EXCEPT ![k0] = @ + 1]
    <2> SUFFICES ASSUME NEW k \in Keys
        PROVE guesses'[k] + Cardinality(Pending(k)') <= count'["auth"][k]
      BY DEF GuessInv
    <2>1. /\ guesses[k] \in Int /\ count["auth"][k] \in Nat
          /\ Cardinality(Pending(k)) \in Nat /\ Cardinality(Pending(k)') \in Nat
          /\ Cardinality(Clients) \in Nat
      BY <1>1, PendingFinite, PendingFiniteNext, ClientsFinite
    <2>2. guesses[k] + Cardinality(Pending(k)) <= count["auth"][k]
      BY DEF GuessInv
    <2>3. PICK S : S = Pending(k)
      OBVIOUS
    <2>4. /\ IsFiniteSet(S \ {c})
          /\ Cardinality(S \ {c}) = IF c \in S THEN Cardinality(S) - 1 ELSE Cardinality(S)
      BY <2>3, PendingFinite, FS_RemoveElement
    <2>5. Cardinality(Pending(k)') <= Cardinality(S \ {c})
      BY <1>3, <2>3, <2>4, FS_Subset
    <2>6. CASE k = k0
      <3>1. guesses'[k] = guesses[k] + 1
        BY <1>1, <1>5, <2>6
      <3>2. c \in S
        BY <2>3, <2>6 DEF Pending, Login, Admitted
      <3>3. Cardinality(Pending(k)') <= Cardinality(Pending(k)) - 1
        BY <2>3, <2>4, <2>5, <3>2
      <3> QED
        BY <1>1, <2>1, <2>2, <3>1, <3>3, SMT
    <2>7. CASE k # k0
      <3>1. guesses'[k] = guesses[k]
        BY <1>1, <1>5, <2>7
      <3>2. Cardinality(Pending(k)') <= Cardinality(Pending(k))
        BY <2>1, <2>3, <2>4, <2>5
      <3> QED
        BY <1>1, <2>1, <2>2, <3>1, <3>2, SMT
    <2> QED
      BY <2>6, <2>7
  <1> QED
    BY <1>4, <1>5 DEF Login

LEMMA GuessStep == GuessInv /\ GatewayInv /\ [Next]_vars => GuessInv'
  <1> SUFFICES ASSUME GuessInv, GatewayInv, [Next]_vars PROVE GuessInv'
    OBVIOUS
  <1>1. /\ SessionInv /\ LimiterTypeOK /\ "auth" \in Scopes /\ DOMAIN request = Clients
        /\ count \in [Scopes -> [Keys -> Nat]]
        /\ \A k \in Keys : count["auth"][k] \in Nat
    BY DEF GatewayInv, LimiterTypeOK, SessionInv, RequestInv
  <1>2. ASSUME UNCHANGED sessionVars,
               \A k \in Keys : count'["auth"][k] >= count["auth"][k] /\ count'["auth"][k] \in Nat
        PROVE  GuessInv'
    <2>1. guesses' = guesses /\ \A k \in Keys : Pending(k)' \subseteq Pending(k)
      BY <1>2 DEF sessionVars, Pending
    <2> QED
      BY <1>1, <1>2, <2>1, GuessQuiet
  <1>3. ASSUME NEW s \in Scopes, NEW k \in Keys, Allow(s, k)
        PROVE  \A x \in Keys : count'["auth"][x] >= count["auth"][x] /\ count'["auth"][x] \in Nat
    <2>1. count' = count \/ count' = [count EXCEPT ![s] = [count[s] EXCEPT ![k] = @ + 1]]
      BY <1>3 DEF Allow
    <2> SUFFICES ASSUME NEW x \in Keys
        PROVE count'["auth"][x] >= count["auth"][x] /\ count'["auth"][x] \in Nat
      OBVIOUS
    <2>2. count'["auth"][x] = count["auth"][x] \/ count'["auth"][x] = count["auth"][x] + 1
      BY <1>1, <2>1
    <2> QED
      BY <1>1, <2>2
  <1>4. CASE UNCHANGED vars
    BY <1>1, <1>2, <1>4 DEF vars, limiterVars
  <1>5. CASE (\E sc \in Scopes : Collect(sc)) /\ UNCHANGED sessionVars
    BY <1>1, <1>2, <1>5 DEF Collect
  <1>6. ASSUME NEW k \in Keys, ShowForm(k) PROVE GuessInv'
    BY <1>1, <1>2, <1>3, <1>6 DEF ShowForm
  <1>7. ASSUME NEW c \in Clients, NEW k \in Keys, NEW header \in Headers(c), PlaceBid(c, k, header)
        PROVE  GuessInv'
    BY <1>1, <1>2, <1>3, <1>7 DEF PlaceBid
  <1>8. CASE /\ Tick /\ UNCHANGED <<users, request, jar, bearer, proved>>
             /\ guesses' = IF opened' = now' THEN [k \in Keys |-> -Cardinality(Pending(k))] ELSE guesses
    <2>1. \A k \in Keys : Pending(k)' = Pending(k)
      BY <1>8 DEF Pending
    <2>2. now \in Nat /\ now' = now + 1 /\ opened \in 0..now
      BY <1>1, <1>8 DEF Tick, LimiterTypeOK
    <2>3. CASE UNCHANGED <<opened, count>>
      <3>1. guesses' = guesses
        BY <1>8, <2>2, <2>3
      <3> QED
        BY <1>1, <2>1, <2>3, <3>1, GuessQuiet
    <2>4. CASE opened' = now' /\ count' = [s \in Scopes |-> [k \in Keys |-> 0]]
      <3> SUFFICES ASSUME NEW k \in Keys
          PROVE guesses'[k] + Cardinality(Pending(k)') <= count'["auth"][k]
        BY DEF GuessInv
      <3>1. guesses'[k] = -Cardinality(Pending(k)) /\ count'["auth"][k] = 0
        BY <1>1, <1>8, <2>4
      <3>2. Pending(k)' = Pending(k) /\ Cardinality(Pending(k)) \in Nat
        BY <2>1, PendingFinite
      <3> QED
        BY <3>1, <3>2, SMT
    <2> QED
      BY <1>8, <2>3, <2>4 DEF Tick
  <1>9. ASSUME NEW c \in Clients, NEW k \in Keys, NEW kind \in {"register", "login"},
               NEW f \in Forms, Submit(c, k, kind, f)
        PROVE  GuessInv'
    BY <1>9, GuessSubmit
  <1>10. ASSUME NEW c \in Clients, Login(c) PROVE GuessInv'
    BY <1>10, GuessLogin
  <1>11. ASSUME NEW c \in Clients, Register(c) \/ Deliver(c) \/ LoseAnswer(c) \/ Logout(c)
         PROVE  GuessInv'
    <2>1. guesses' = guesses /\ count' = count
      BY <1>11 DEF Register, Deliver, LoseAnswer, Logout, limiterVars
    <2>2. \A k \in Keys : Pending(k)' \subseteq Pending(k)
      <3>1. CASE Failed(c) \/ request' = request
        BY <1>1, <3>1 DEF Failed, Idle0, Pending
      <3>2. ASSUME NEW i, Answered(c, i)
            PROVE  \A k \in Keys : Pending(k)' \subseteq Pending(k)
        <4>1. PICK r : r = [stage |-> "answered", token |-> Issue(i)]
          OBVIOUS
        <4>2. r.stage = "answered"
          BY <4>1
        <4>3. request' = [request EXCEPT ![c] = r]
          BY <3>2, <4>1 DEF Answered
        <4> QED
          BY <1>1, <4>2, <4>3 DEF Pending
      <3>3. CASE Register(c) /\ Answered(c, Len(users'))
        <4>1. PICK i : i = Len(users')
          OBVIOUS
        <4>2. Answered(c, i)
          BY <3>3, <4>1 DEF Answered, Issue
        <4> QED
          BY <3>2, <4>2
      <3> QED
        BY <1>11, <3>1, <3>3 DEF Register, Deliver, LoseAnswer, Logout
    <2> QED
      BY <1>1, <2>1, <2>2, GuessQuiet
  <1> QED
    BY <1>4, <1>5, <1>6, <1>7, <1>8, <1>9, <1>10, <1>11 DEF Next

\* Under any one key, passwords are compared no faster than the limiter admits
\* requests, however many clients share it and whatever other keys they use
\* besides; of somebody whose requests come with several keys it says no more
\* than that each key has its own budget (routes.go:20-21, ratelimit.go:76-99).
THEOREM GuessesBounded == Spec => []GuessesAreLimited
  <1>1. Init => GuessInv
    <2> SUFFICES ASSUME Init, NEW k \in Keys
        PROVE guesses[k] + Cardinality(Pending(k)) <= count["auth"][k]
      BY DEF GuessInv
    <2>1. guesses[k] = 0 /\ count["auth"][k] = 0
      BY DEF Init, LimiterInit
    <2>2. Pending(k) = {}
      BY DEF Init, Idle0, Pending
    <2>3. Cardinality(Pending(k)) = 0
      BY <2>2, FS_EmptySet
    <2> QED
      BY <2>1, <2>3, SMT
  <1>2. GuessInv /\ GatewayInv /\ WithinBudget => GuessesAreLimited
    <2> SUFFICES ASSUME GuessInv, GatewayInv, WithinBudget, NEW k \in Keys
        PROVE guesses[k] * Token <= Burst["auth"] + (now - opened) * Rate["auth"]
      BY DEF GuessesAreLimited
    <2> DEFINE g == guesses[k]
               a == count["auth"][k]
               n == Burst["auth"] + (now - opened) * Rate["auth"]
    <2>1. g \in Int /\ a \in Nat /\ g <= a
      <3>1. /\ guesses[k] \in Int /\ a \in Nat /\ Cardinality(Clients) \in Nat
            /\ Cardinality(Pending(k)) \in Nat
        BY PendingFinite, ClientsFinite DEF GatewayInv, LimiterTypeOK, SessionInv, ProofInv
      <3>2. guesses[k] + Cardinality(Pending(k)) <= a
        BY DEF GuessInv
      <3> QED
        BY <3>1, <3>2, SMT
    <2>2. a * Token <= n
      BY DEF WithinBudget
    <2>3. n \in Nat
      <3>1. now - opened \in Nat
        BY DEF GatewayInv, LimiterTypeOK
      <3>2. (now - opened) * Rate["auth"] \in Nat
        BY <3>1, ProductNat
      <3> QED
        BY <3>2
    <2>4. a * Token - g * Token = (a - g) * Token /\ (a - g) * Token \in Nat
      <3>1. a - g \in Nat
        BY <2>1, SMT
      <3>2. a * Token - g * Token = (a - g) * Token
        BY <2>1, SMT
      <3> QED
        BY <3>1, <3>2, ProductNat
    <2>5. a * Token \in Int /\ g * Token \in Int
      BY <2>1, SMT
    <2> HIDE DEF g, a, n
    <2>6. g * Token <= n
      BY <2>2, <2>3, <2>4, <2>5, SMT
    <2> QED
      BY <2>6 DEF g, n
  <1> QED
    BY <1>1, <1>2, GuessStep, GatewayInvariant, GatewayBudget, PTL DEF Spec
=============================================================================
