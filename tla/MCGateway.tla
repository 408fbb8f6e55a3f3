----------------------------- MODULE MCGateway -----------------------------
(* Model-checking instances of Gateway: see the .cfg files. *)
EXTENDS Gateway, TLC

Symmetry == Permutations(Clients) \cup Permutations(Keys)

\* Bound: a second key is in use only until time 1, and only while nobody has
\* bid or holds a session.  Until then, and with one key for all,
\* the run leaves nothing out.
SecondKeyEarly ==
  Cardinality(UNION {DOMAIN buckets[s] : s \in Scopes}) > 1 =>
    now <= 1 /\ buckets["bid"] = <<>> /\ \A c \in Clients : jar[c] = None /\ bearer[c] = None

\* In halves of a request: a burst of one and a half on auth, of one on bid.
MCRate  == [s \in {"auth", "bid"} |-> IF s = "auth" THEN 3 ELSE 2]
MCBurst == MCRate

Plain(w)  == [word |-> w, style |-> "plain"]
Upper(w)  == [word |-> w, style |-> "upper"]
Padded(w) == [word |-> w, style |-> "padded"]

\* Bob types ann's address in capitals, another ann has an address of her own,
\* and Register refuses the last form.
MCForms ==
  { [name |-> Plain("ann"),  email |-> Plain("a@x"),  password |-> "secret"],
    [name |-> Padded("bob"), email |-> Upper("a@x"),  password |-> "secret"],
    [name |-> Padded("ann"), email |-> Padded("b@x"), password |-> "other"],
    [name |-> Plain("cat"),  email |-> Plain("c@x"),  password |-> "short"] }
=============================================================================
