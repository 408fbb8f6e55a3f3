------------------------------ MODULE Gateway ------------------------------
(***************************************************************************)
(* Accounts, sessions and the middleware in front of the handlers.  A      *)
(* client is a browser or an API client.  The limiters know a request by   *)
(* its key, the X-Forwarded-For header or else the address it comes from,  *)
(* which need not be the same from one request of a client to the next and *)
(* may be that of others.  Slow requests (registration and login: limiter, *)
(* bcrypt, one statement, the answer) go step by step; meanwhile a client  *)
(* may send quick ones.  Time is the clock of RateLimiter.                 *)
(***************************************************************************)
EXTENDS RateLimiter, Sequences, FiniteSets

CONSTANTS
  Clients,
  Forms,       \* what people type: [name, email, password]
  ShortPasswords,
  TokenTTL,    \* life of a token, and Max-Age of the cookie
  MaxUsers,    \* bound: rows of users
  None

\* A typed text is a word and how it is written.
Text == [word : STRING, style : {"plain", "upper", "padded"}]

\* A row of users.
Account == [name : Text, email : Text, password : {f.password : f \in Forms}]

ASSUME GatewayAssumption ==
  /\ Scopes = {"auth", "bid"}
  /\ IsFiniteSet(Clients) /\ TokenTTL \in Nat \ {0} /\ MaxUsers \in Nat
  /\ \A f \in Forms : f.name \in Text /\ f.email \in Text
  /\ None \notin Account

VARIABLES
  users,       \* the table: sequence of [name, email, password], the id is the place
  request,     \* the slow request of each client
  jar,         \* session cookie of each client: token and time it is dropped
  bearer,      \* token an API client took from the answer
  proved,      \* when a client last gave the password of an account
  guesses      \* passwords compared since opened, per key of the request, less
               \* those that were past the limiter then

sessionVars == <<users, request, jar, bearer, proved, guesses>>
vars == <<limiterVars, sessionVars>>

Ids == 1..MaxUsers
Users == DOMAIN users

Idle0 == [stage |-> "none"]

Init ==
  /\ LimiterInit
  /\ users = <<>>
  /\ request = [c \in Clients |-> Idle0]
  /\ jar     = [c \in Clients |-> None]
  /\ bearer  = [c \in Clients |-> None]
  /\ proved  = [c \in Clients |-> [u \in Ids |-> -TokenTTL]]
  /\ guesses = [k \in Keys |-> 0]

-----------------------------------------------------------------------------
(* Names, addresses and passwords *)

TrimSpace(t) == IF t.style = "padded" THEN [t EXCEPT !.style = "plain"] ELSE t
ToLower(t)   == IF t.style = "upper"  THEN [t EXCEPT !.style = "plain"] ELSE t

\* Mutant: the address is not put in lower case.
TrimmedOnly(t) == TrimSpace(t)
Address(t) == TrimSpace(ToLower(t))

Valid(f) ==
  /\ f.name.word # "" /\ f.email.word # ""
  /\ f.password \notin ShortPasswords

NewUser(f) == [name |-> TrimSpace(f.name), email |-> Address(f.email), password |-> f.password]

\* The UNIQUE columns: CreateUser answers ErrUserExists.
Exists(u) == \E i \in Users : users[i].name = u.name \/ users[i].email = u.email

\* GetUserByEmail, then bcrypt.
Found(f)   == {i \in Users : users[i].email = Address(f.email)}
Matches(f) == {i \in Found(f) : users[i].password = f.password}

-----------------------------------------------------------------------------
(* Tokens and cookies *)

\* Mutant: the id the INSERT returned never reaches the user.
NoId(i) == [uid |-> 0, exp |-> now + TokenTTL]

\* issueToken, and the cookie the answer sets.
Issue(i) == [uid |-> i, exp |-> now + TokenTTL]
Cookie(token) == [token |-> token, until |-> now + TokenTTL]

\* Mutant: the expiry is not looked at.
AnyToken(token) == token # None

\* ParseToken
Accepted(token) == token # None /\ now < token.exp

\* extractToken: a Bearer header hides the cookie, even with a bad token;
\* any other Authorization header does not.
Sent(c, header) ==
  IF header = "bearer" THEN bearer[c]
  ELSE IF jar[c] # None /\ now < jar[c].until THEN jar[c].token ELSE None

Headers(c) == IF bearer[c] = None THEN {"none", "other"} ELSE {"none", "other", "bearer"}

\* tryAuth: the claims, or none.
Claims(c, header) ==
  IF Accepted(Sent(c, header)) THEN Sent(c, header) ELSE None

\* GET /me: GetUserByID for the claims.
Me(claims) == IF claims.uid \in Users THEN users[claims.uid] ELSE None

-----------------------------------------------------------------------------
(* Registration and login *)

\* Mutant: POST /login has no limiter, only /register has.
OnlyRegister(c, k, r) ==
  /\ request' = IF Admits("auth", k) \/ r.kind = "login" THEN [request EXCEPT ![c] = r] ELSE request
  /\ IF r.kind = "login" THEN UNCHANGED limiterVars ELSE Allow("auth", k)

\* With(authLimiter.Middleware()): 429 or the handler, for the clientIP of
\* this request.
Limited(c, k, r) ==
  /\ request' = IF Admits("auth", k) THEN [request EXCEPT ![c] = r] ELSE request
  /\ Allow("auth", k)

\* POST /register and /login, as JSON or as a form.
Submit(c, k, kind, f) ==
  /\ request[c] = Idle0
  /\ Limited(c, k, [stage |-> "admitted", key |-> k, kind |-> kind, form |-> f])
  /\ UNCHANGED <<users, jar, bearer, proved, guesses>>

\* GET /login and /register of the web group pay for a token, too.
ShowForm(k) ==
  /\ Allow("auth", k)
  /\ UNCHANGED sessionVars

\* Who is past the limiter and has not compared a password yet.
Pending(k) ==
  {c \in Clients : /\ request[c].stage = "admitted" /\ request[c].kind = "login"
                   /\ request[c].key = k}

Admitted(c, kind) == request[c].stage = "admitted" /\ request[c].kind = kind

Answered(c, i) ==
  request' = [request EXCEPT ![c] = [stage |-> "answered", token |-> Issue(i)]]

Failed(c) == request' = [request EXCEPT ![c] = Idle0]

Proved(c, i) == proved' = [proved EXCEPT ![c][i] = now]

\* Validation, then the INSERT; its reply may be lost when it has committed.
Register(c) ==
  /\ Admitted(c, "register")
  /\ LET u == NewUser(request[c].form) IN
       \/ /\ Valid(request[c].form) /\ ~Exists(u) /\ Len(users) < MaxUsers
          /\ users' = Append(users, u)
          /\ Proved(c, Len(users'))
          /\ Answered(c, Len(users')) \/ Failed(c)
       \/ /\ ~Valid(request[c].form) \/ Exists(u) \/ Len(users) = MaxUsers
          /\ Failed(c)
          /\ UNCHANGED <<users, proved>>
  /\ UNCHANGED <<limiterVars, jar, bearer, guesses>>

\* An unknown address costs no comparison; any failure is answered alike.
Login(c) ==
  /\ Admitted(c, "login")
  /\ LET f == request[c].form IN
       /\ guesses' = IF Found(f) = {} THEN guesses ELSE [guesses EXCEPT ![request[c].key] = @ + 1]
       /\ \/ \E i \in Matches(f) : Answered(c, i) /\ Proved(c, i)
          \/ Matches(f) = {} /\ Failed(c) /\ UNCHANGED proved
  /\ UNCHANGED <<limiterVars, users, jar, bearer>>

\* The answer sets the cookie, and an API client keeps the token it also
\* carries as JSON; the answer may get lost on its way.
Deliver(c) ==
  /\ request[c].stage = "answered"
  /\ jar' = [jar EXCEPT ![c] = Cookie(request[c].token)]
  /\ bearer' \in {bearer, [bearer EXCEPT ![c] = request[c].token]}
  /\ Failed(c)
  /\ UNCHANGED <<limiterVars, users, proved, guesses>>

LoseAnswer(c) ==
  /\ request[c].stage = "answered"
  /\ Failed(c)
  /\ UNCHANGED <<limiterVars, users, jar, bearer, proved, guesses>>

\* Clears the cookie, with or without a session; tokens are not revoked.
Logout(c) ==
  /\ jar' = [jar EXCEPT ![c] = None]
  /\ UNCHANGED <<limiterVars, users, request, bearer, proved, guesses>>

-----------------------------------------------------------------------------
(* Requests that need a session *)

\* POST /lots/{id}/bids: Middleware first, so that nobody pays for a request
\* without a session, then bidLimiter, then the handler with the claims.
PlaceBid(c, k, header) ==
  /\ Claims(c, header) # None
  /\ Allow("bid", k)
  /\ UNCHANGED sessionVars

-----------------------------------------------------------------------------
Next ==
  \/ \E c \in Clients :
       \/ \E k \in Keys, kind \in {"register", "login"}, f \in Forms : Submit(c, k, kind, f)
       \/ Register(c) \/ Login(c) \/ Deliver(c) \/ LoseAnswer(c) \/ Logout(c)
       \/ \E k \in Keys, header \in Headers(c) : PlaceBid(c, k, header)
  \/ (\E k \in Keys : ShowForm(k))
  \/ (\E sc \in Scopes : Collect(sc)) /\ UNCHANGED sessionVars
  \/ /\ Tick
     /\ guesses' = IF opened' = now' THEN [k \in Keys |-> -Cardinality(Pending(k))] ELSE guesses
     /\ UNCHANGED <<users, request, jar, bearer, proved>>

Spec == Init /\ [][Next]_vars

-----------------------------------------------------------------------------
(* Properties *)

\* Every variable keeps its type, those of the limiters included, and no token
\* in any hand, be it in an answer, a cookie or a header, names an account that
\* does not exist (auth.go:66-73, 92-96).
TypeOK ==
  /\ LimiterTypeOK
  /\ users \in Seq(Account)
  /\ proved \in [Clients -> [Ids -> Int]] /\ guesses \in [Keys -> Int]
  /\ \A c \in Clients :
       /\ request[c].stage \in {"none", "admitted", "answered"}
       /\ request[c].stage = "admitted" => request[c].key \in Keys
       /\ request[c].stage = "answered" => Me(request[c].token) # None
       /\ jar[c] # None => Me(jar[c].token) # None
       /\ bearer[c] # None => Me(bearer[c]) # None

\* No two accounts have names that differ only in surrounding spaces or
\* addresses that differ only in spaces or case, however registrations
\* interleave: the columns compare what Register has normalised
\* (auth.go:49-50, 66; migrations/003).
OneAccountPerAddress ==
  \A i, j \in Users : i # j =>
    /\ TrimSpace(users[i].name) # TrimSpace(users[j].name)
    /\ TrimSpace(ToLower(users[i].email)) # TrimSpace(ToLower(users[j].email))

\* A bid is placed in the name of an account whose password this very client
\* gave less than TokenTTL ago, through cookies, headers, logouts and lost
\* answers (auth.go:109-124, 148-158, 192-202).
BidsOnlyForSelf ==
  [][\A c \in Clients : \A k \in Keys, header \in Headers(c) :
       PlaceBid(c, k, header) =>
         LET i == Claims(c, header).uid IN i \in Users /\ now < proved[c][i] + TokenTTL]_vars

\* Under one key, passwords are compared no faster than the limiter admits
\* requests, whoever sends them and however requests under this key and others
\* interleave; only what was past the limiter when the count began comes on
\* top.  The limit is on keys and not on clients: a client whose requests
\* come with several keys has as many budgets
\* (routes.go:20-21, ratelimit.go:76-99).
GuessesAreLimited ==
  \A k \in Keys :
    guesses[k] * Token <= Burst["auth"] + (now - opened) * Rate["auth"]
=============================================================================
