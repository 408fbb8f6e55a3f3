------------------------- MODULE RepositoryTheorems -------------------------
(***************************************************************************)
(* Theorems about Repository, for every number of requests of each kind,   *)
(* every size of the pool and of a page, and any number of failures.       *)
(***************************************************************************)
EXTENDS Repository, FiniteSetTheorems, TLAPS

USE RepositoryAssumption

-----------------------------------------------------------------------------
(* The inductive invariant.  What a request remembers depends on its stage. *)

Status == {"active", "closed"}
Row == [status : Status, winner : Bidders \cup {None}]
Tables == UNION {[T -> Row] : T \in SUBSET Ids}
Sums == UNION {[T -> Nat] : T \in SUBSET Ids}
Stats == [placed : [Ids -> SUBSET Nat], wins : SUBSET Ids, spent : Sums]

Plain   == [stage : {"new", "done"}]
OnLot   == [stage : {"begun", "read", "updated", "inserted", "reading", "creating", "done"},
            lot : Ids]
Opened  == [stage : {"open", "ranking"}, lot : Ids, version : Nat]
Ranked  == [stage : {"ranked", "updating", "done"}, lot : Ids, version : Nat,
            winner : Bidders \cup {None}]
Listing == [stage : {"listing", "turning", "done"}, filter : Filters, limit : Asked,
            offset : Nat, seen : SUBSET Ids, start : Tables]
Viewing == [stage : {"viewing", "shown", "done"}, user : Bidders, views : Nat, shown : Stats]

\* What is not about a list or a profile.
Short == Plain \cup OnLot \cup Opened \cup Ranked

Entry == Short \cup Listing \cup Viewing

TypeInv ==
  /\ lots \in Tables /\ bids \in [Ids -> Seq(Bidders)] /\ stamp \in Nat
  /\ request \in [Requests -> Entry]
  /\ conns \subseteq Requests /\ locked \in [Ids -> Bidders \cup {None}] /\ faults \in Nat

\* Every number given out belongs to a creator who has started.
NotYet == {r \in Creators : At(r, "new")}

HasLot == {"begun", "read", "updated", "inserted", "reading", "open", "ranking", "ranked",
           "updating"}

StampInv ==
  /\ DOMAIN lots \subseteq 1..stamp
  /\ stamp + Cardinality(NotYet) <= Cardinality(Ids)
  /\ \A r \in Requests :
       /\ At(r, "creating") => request[r].lot <= stamp
       /\ request[r].stage \in HasLot => request[r].lot \in DOMAIN lots

\* Who holds a connection.
Using == {"begun", "read", "updated", "inserted", "reading", "ranking", "updating", "creating",
          "listing", "viewing"}

PoolInv ==
  /\ conns = {r \in Requests : request[r].stage \in Using}
  /\ Cardinality(conns) <= MaxConns

\* Who holds a row lock; a locked lot stays open.
Locking == {"read", "updated", "inserted"}

LockInv ==
  /\ \A l \in Ids : locked[l] # None =>
       request[locked[l]].stage \in Locking /\ request[locked[l]].lot = l
  /\ \A r \in Requests : request[r].stage \in Locking =>
       locked[request[r].lot] = r /\ lots[request[r].lot].status = "active"

\* A closed lot belongs to its last bidder; a closer who read another one will
\* find that the version has changed.
WinnerInv ==
  /\ \A l \in DOMAIN lots :
       lots[l].winner = IF lots[l].status = "closed" THEN Highest(l) ELSE None
  /\ \A r \in Requests :
       /\ request[r].stage \in {"open", "ranking", "ranked", "updating"} =>
            request[r].version <= Price(request[r].lot)
       /\ request[r].stage \in {"ranked", "updating"} /\ request[r].version = Price(request[r].lot)
            => request[r].winner = Highest(request[r].lot)

\* What a profile has shown is still so.
StillSo(v) ==
  /\ \A l \in Ids : v.shown.placed[l] \subseteq BidsOf(v.user, l)
  /\ v.shown.wins \subseteq Won(v.user)
  /\ \A l \in v.shown.wins : v.shown.spent[l] = Price(l)

ShownInv == \A r \in Requests : request[r] \in Viewing => StillSo(request[r])

\* The lots a walk has missed for good: they do not match any more, or they have
\* moved up to where the walk has been.
Unseen(w) == Matching(w.start, w.filter) \ w.seen
ClosedSince(w) == Matching(lots, "closed") \ Matching(w.start, "closed")
Allowed(w) == IF w.filter = "active" THEN Cardinality(ClosedSince(w)) ELSE 0
LostIn(U, rows, offset) == {l \in U : l \notin rows \/ Rank(l, rows) < offset}
Lost(w) == LostIn(Unseen(w), Matching(lots, w.filter), w.offset)

OnItsWay(w) ==
  /\ DOMAIN w.start \subseteq DOMAIN lots
  /\ Matching(w.start, "closed") \subseteq Matching(lots, "closed")
  /\ Cardinality(IF w.stage = "done" THEN Unseen(w) ELSE Lost(w)) <= Allowed(w)

\* A walk in pages larger than the server gives stops early: nothing is said of it.
WalkInv ==
  \A r \in Requests :
    request[r] \in Listing /\ request[r].limit <= MaxLimit => OnItsWay(request[r])

\* The invariant.
IInv == TypeInv /\ StampInv /\ PoolInv /\ LockInv /\ WinnerInv /\ ShownInv /\ WalkInv

-----------------------------------------------------------------------------
(* Types. *)

\* The constants are numbers and finite sets.
LEMMA Constants ==
  /\ IsFiniteSet(Creators) /\ Cardinality(Creators) \in Nat
  /\ IsFiniteSet(Ids) /\ Ids \subseteq Nat \ {0}
  /\ Cardinality(Ids) = Existing + Cardinality(Creators)
  <1>1. IsFiniteSet(Creators) /\ Cardinality(Creators) \in Nat
    BY FS_Subset, FS_CardinalityType DEF Requests
  <1> DEFINE n == Existing + Cardinality(Creators)
  <1>2. n \in Nat /\ Ids = 1..n
    BY <1>1 DEF Ids
  <1>3. IsFiniteSet(1..n) /\ Cardinality(1..n) = n
    BY <1>2, FS_Interval, SMT
  <1> QED
    BY <1>1, <1>2, <1>3

\* A table is a function from some lots to rows.
LEMMA TableShape ==
  ASSUME NEW t
  PROVE  t \in Tables <=> DOMAIN t \subseteq Ids /\ t \in [DOMAIN t -> Row]
  BY DEF Tables

\* What a request remembers at each stage.
LEMMA StageType ==
  ASSUME TypeInv, NEW r \in Requests
  PROVE  /\ request[r].stage \in {"begun", "read", "updated", "inserted", "reading", "creating"}
              => request[r] \in OnLot
         /\ request[r].stage \in {"open", "ranking"} => request[r] \in Opened
         /\ request[r].stage \in {"ranked", "updating"} => request[r] \in Ranked
         /\ request[r].stage \in {"listing", "turning"} => request[r] \in Listing
         /\ request[r].stage \in {"viewing", "shown"} => request[r] \in Viewing
         /\ request[r].stage = "new" => request[r] \in Plain
         /\ request[r] \in Entry
  <1>1. request[r] \in Entry
    BY DEF TypeInv
  <1> QED
    BY <1>1, SMT DEF Entry, Short, Plain, OnLot, Opened, Ranked, Listing, Viewing


\* A step of r changes no other request.
Others(r) == \A q \in Requests \ {r} : request'[q] = request[q]

LEMMA Entered ==
  ASSUME TypeInv, NEW r \in Requests, NEW e, Enter(r, e)
  PROVE  /\ request'[r] = e /\ Others(r)
         /\ e \in Entry => request' \in [Requests -> Entry]
  BY DEF TypeInv, Enter, Others

LEMMA Moved ==
  ASSUME TypeInv, NEW r \in Requests, NEW s, Move(r, s)
  PROVE  /\ request'[r] = [request[r] EXCEPT !.stage = s] /\ Others(r)
         /\ request'[r].stage = s
         /\ request'[r] \in Entry => request' \in [Requests -> Entry]
  <1> DEFINE e == [request[r] EXCEPT !.stage = s]
  <1>1. request[r] \in Entry /\ request \in [Requests -> Entry]
    BY DEF TypeInv
  <1>2. request' = [request EXCEPT ![r] = e]
    BY DEF Move
  <1>3. request'[r] = e /\ Others(r)
    BY <1>1, <1>2 DEF Others
  <1>4. e.stage = s
    BY <1>1, SMT DEF Entry, Short, Plain, OnLot, Opened, Ranked, Listing, Viewing
  <1> HIDE DEF e
  <1>5. request'[r] \in Entry => request' \in [Requests -> Entry]
    BY <1>1, <1>2, <1>3
  <1> QED
    BY <1>3, <1>4, <1>5 DEF e

\* A move keeps everything but the stage.
LEMMA MovedType ==
  ASSUME TypeInv, NEW r \in Requests, NEW s, Move(r, s)
  PROVE  /\ request[r] \in OnLot =>
              /\ request'[r].lot = request[r].lot
              /\ s \in {"begun", "read", "updated", "inserted", "reading", "creating", "done"}
                   => request'[r] \in OnLot
         /\ request[r] \in Opened =>
              /\ request'[r].lot = request[r].lot /\ request'[r].version = request[r].version
              /\ s \in {"open", "ranking"} => request'[r] \in Opened
         /\ request[r] \in Ranked =>
              /\ request'[r].lot = request[r].lot /\ request'[r].version = request[r].version
              /\ request'[r].winner = request[r].winner
              /\ s \in {"ranked", "updating", "done"} => request'[r] \in Ranked
         /\ request[r] \in Listing =>
              /\ request'[r].filter = request[r].filter /\ request'[r].limit = request[r].limit
              /\ request'[r].offset = request[r].offset /\ request'[r].seen = request[r].seen
              /\ request'[r].start = request[r].start
              /\ s \in {"listing", "turning", "done"} => request'[r] \in Listing
         /\ request[r] \in Viewing =>
              /\ request'[r].user = request[r].user /\ request'[r].views = request[r].views
              /\ request'[r].shown = request[r].shown
              /\ s \in {"viewing", "shown", "done"} => request'[r] \in Viewing
         /\ request[r] \in Plain /\ s = "done" => request'[r] \in Plain
  <1>1. request'[r] = [request[r] EXCEPT !.stage = s]
    BY Moved
  <1>2. request[r] \in OnLot =>
              /\ request'[r].lot = request[r].lot
              /\ s \in {"begun", "read", "updated", "inserted", "reading", "creating", "done"}
                   => request'[r] \in OnLot
    BY <1>1 DEF OnLot
  <1>3. request[r] \in Opened =>
              /\ request'[r].lot = request[r].lot /\ request'[r].version = request[r].version
              /\ s \in {"open", "ranking"} => request'[r] \in Opened
    BY <1>1 DEF Opened
  <1>4. request[r] \in Ranked =>
              /\ request'[r].lot = request[r].lot /\ request'[r].version = request[r].version
              /\ request'[r].winner = request[r].winner
              /\ s \in {"ranked", "updating", "done"} => request'[r] \in Ranked
    BY <1>1 DEF Ranked
  <1>5. request[r] \in Listing =>
              /\ request'[r].filter = request[r].filter /\ request'[r].limit = request[r].limit
              /\ request'[r].offset = request[r].offset /\ request'[r].seen = request[r].seen
              /\ request'[r].start = request[r].start
              /\ s \in {"listing", "turning", "done"} => request'[r] \in Listing
    BY <1>1 DEF Listing
  <1>6. request[r] \in Viewing =>
              /\ request'[r].user = request[r].user /\ request'[r].views = request[r].views
              /\ request'[r].shown = request[r].shown
              /\ s \in {"viewing", "shown", "done"} => request'[r] \in Viewing
    BY <1>1 DEF Viewing
  <1>7. request[r] \in Plain /\ s = "done" => request'[r] \in Plain
    BY <1>1 DEF Plain
  <1> QED
    BY <1>2, <1>3, <1>4, <1>5, <1>6, <1>7


LEMMA EntryOfBid ==
  ASSUME TypeInv, NEW r \in Bidders, PlaceBid(r)
  PROVE  request' \in [Requests -> Entry] /\ request'[r] \in Short
  <1>1. r \in Requests
    BY DEF Requests
  <1>2. \A l \in DOMAIN lots : [stage |-> "begun", lot |-> l] \in OnLot
    BY TableShape DEF TypeInv, OnLot
  <1>3. CASE BeginTx(r)
    <2>1. PICK l \in DOMAIN lots : Enter(r, [stage |-> "begun", lot |-> l])
      BY <1>3 DEF BeginTx
    <2> QED
      BY <1>1, <1>2, <2>1, Entered DEF Entry, Short
  <1>4. CASE LockLot(r)
    <2>1. request[r] \in OnLot /\ (Move(r, "read") \/ Move(r, "done"))
      BY <1>1, <1>4, StageType DEF LockLot, At
    <2> QED
      BY <1>1, <2>1, Moved, MovedType DEF Entry, Short
  <1>5. CASE UpdateInTx(r) \/ CreateBid(r) \/ Commit(r)
    <2>1. request[r] \in OnLot /\ (Move(r, "updated") \/ Move(r, "inserted") \/ Move(r, "done"))
      BY <1>1, <1>5, StageType DEF UpdateInTx, CreateBid, Commit, At
    <2> QED
      BY <1>1, <2>1, Moved, MovedType DEF Entry, Short
  <1> QED
    BY <1>3, <1>4, <1>5 DEF PlaceBid

\* What a plain read of a bid finds.
LEMMA PriceType ==
  ASSUME TypeInv, NEW l \in Ids
  PROVE  /\ Price(l) \in Nat /\ Highest(l) \in Bidders \cup {None}
         /\ Price(l) > 0 => Highest(l) = bids[l][Price(l)] /\ Highest(l) \in Bidders
         /\ bids[l] = <<>> <=> Price(l) = 0
  <1>1. bids[l] \in Seq(Bidders)
    BY DEF TypeInv
  <1>2. /\ Len(bids[l]) \in Nat
        /\ Len(bids[l]) > 0 => bids[l][Len(bids[l])] \in Bidders
        /\ bids[l] = <<>> <=> Len(bids[l]) = 0
    BY <1>1
  <1> QED
    BY <1>2 DEF Price, Highest

LEMMA EntryOfCloser ==
  ASSUME TypeInv, NEW r \in Closers, CloseLot(r)
  PROVE  request' \in [Requests -> Entry] /\ request'[r] \in Short
  <1>1. r \in Requests
    BY DEF Requests
  <1>2. CASE StartClose(r)
    <2>1. PICK l \in DOMAIN lots : Enter(r, [stage |-> "reading", lot |-> l])
      BY <1>2 DEF StartClose
    <2>2. [stage |-> "reading", lot |-> l] \in OnLot
      BY TableShape DEF TypeInv, OnLot
    <2> QED
      BY <1>1, <2>2, <2>1, Entered DEF Entry, Short
  <1>3. CASE GetLot(r)
    <2> DEFINE l == request[r].lot
    <2>1. request[r] \in OnLot
      BY <1>1, <1>3, StageType DEF GetLot, At
    <2>2. l \in Ids /\ Price(l) \in Nat
      BY <2>1, PriceType DEF OnLot
    <2> HIDE DEF l
    <2>3. [stage |-> "open", lot |-> l, version |-> Price(l)] \in Opened
      BY <2>2 DEF Opened
    <2>4. [stage |-> "done"] \in Plain
      BY DEF Plain
    <2>5. \/ Enter(r, [stage |-> "open", lot |-> l, version |-> Price(l)])
          \/ Enter(r, [stage |-> "done"])
      BY <1>3 DEF GetLot, l
    <2> QED
      BY <1>1, <2>3, <2>4, <2>5, Entered DEF Entry, Short
  <1>4. CASE GetHighestBid(r)
    <2> DEFINE e == [stage |-> "ranked", lot |-> request[r].lot, version |-> request[r].version,
                     winner |-> Highest(request[r].lot)]
    <2>1. request[r] \in Opened
      BY <1>1, <1>4, StageType DEF GetHighestBid, At
    <2>2. e \in Ranked
      BY <2>1, PriceType DEF Opened, Ranked
    <2>3. Enter(r, e)
      BY <1>1, <1>4 DEF GetHighestBid, Enter, TypeInv
    <2> QED
      BY <1>1, <2>2, <2>3, Entered DEF Entry, Short
  <1>5. CASE Begin(r, "open", "ranking")
    <2>1. request[r] \in Opened /\ Move(r, "ranking")
      BY <1>1, <1>5, StageType DEF Begin, At
    <2> QED
      BY <1>1, <2>1, Moved, MovedType DEF Entry, Short
  <1>6. CASE Begin(r, "ranked", "updating") \/ UpdateLot(r)
    <2>1. request[r] \in Ranked /\ (Move(r, "updating") \/ Move(r, "done"))
      BY <1>1, <1>6, StageType DEF Begin, UpdateLot, At
    <2> QED
      BY <1>1, <2>1, Moved, MovedType DEF Entry, Short
  <1> QED
    BY <1>2, <1>3, <1>4, <1>5, <1>6 DEF CloseLot

LEMMA EntryOfCreator ==
  ASSUME TypeInv, StampInv, NEW r \in Creators, RefuseLot(r) \/ StartCreate(r) \/ CreateLot(r)
  PROVE  request' \in [Requests -> Entry] /\ request'[r] \in Short
  <1>1. r \in Requests
    BY DEF Requests
  <1>2. CASE RefuseLot(r)
    <2>1. request[r] \in Plain /\ Move(r, "done")
      BY <1>1, <1>2, StageType DEF RefuseLot, At
    <2> QED
      BY <1>1, <2>1, Moved, MovedType DEF Entry, Short
  <1>3. CASE StartCreate(r)
    <2>1. r \in NotYet /\ Enter(r, [stage |-> "creating", lot |-> stamp + 1])
      BY <1>3 DEF StartCreate, NotYet
    <2>2. IsFiniteSet(NotYet)
      BY Constants, FS_Subset DEF NotYet
    <2>3. Cardinality(NotYet) \in Nat /\ Cardinality(NotYet) # 0
      BY <2>1, <2>2, FS_CardinalityType, FS_EmptySet
    <2>4. stamp + Cardinality(NotYet) <= Cardinality(Ids) /\ stamp \in Nat
      BY DEF StampInv, TypeInv
    <2>5. stamp + 1 \in Ids
      BY <2>3, <2>4, Constants, SMT DEF Ids
    <2>6. [stage |-> "creating", lot |-> stamp + 1] \in OnLot
      BY <2>5 DEF OnLot
    <2> QED
      BY <1>1, <2>1, <2>6, Entered DEF Entry, Short
  <1>4. CASE CreateLot(r)
    <2>1. request[r] \in OnLot /\ Move(r, "done")
      BY <1>1, <1>4, StageType DEF CreateLot, At
    <2> QED
      BY <1>1, <2>1, Moved, MovedType DEF Entry, Short
  <1> QED
    BY <1>2, <1>3, <1>4

LEMMA EntryOfWalker ==
  ASSUME TypeInv, NEW r \in Walkers, Walk(r)
  PROVE  request' \in [Requests -> Entry] /\ request'[r] \in Listing
  <1>1. r \in Requests
    BY DEF Requests
  <1>2. CASE StartWalk(r)
    <2>1. PICK filter \in Filters, limit \in Asked :
            Enter(r, [stage |-> "listing", filter |-> filter, limit |-> limit, offset |-> 0,
                      seen |-> {}, start |-> lots])
      BY <1>2 DEF StartWalk
    <2>2. [stage |-> "listing", filter |-> filter, limit |-> limit, offset |-> 0,
           seen |-> {}, start |-> lots] \in Listing
      BY DEF Listing, TypeInv
    <2> QED
      BY <1>1, <2>1, <2>2, Entered DEF Entry, Short
  <1>3. CASE ListLots(r)
    <2> DEFINE w == request[r]
               page == GetAllLots(w.filter, w.limit, w.offset)
               e == [w EXCEPT !.seen = @ \cup page, !.offset = @ + w.limit,
                              !.stage = IF Cardinality(page) < w.limit THEN "done" ELSE "turning"]
    <2>1. w \in Listing
      BY <1>1, <1>3, StageType DEF ListLots, At
    <2>2. page \in SUBSET Ids
      BY TableShape DEF GetAllLots, Matching, TypeInv
    <2>3. Enter(r, e)
      BY <1>3 DEF ListLots
    <2> HIDE DEF page
    <2>4. w.offset + w.limit \in Nat
      <3>1. w.offset \in Nat /\ w.limit \in Asked
        BY <2>1 DEF Listing
      <3>2. \A n \in Asked : n \in Nat
        OBVIOUS
      <3>3. w.limit \in Nat
        BY <3>1, <3>2, Zenon
      <3>4. \A a, b \in Nat : a + b \in Nat
        OBVIOUS
      <3> QED
        BY <3>1, <3>3, <3>4, Zenon
    <2>5. e \in Listing
      BY <2>1, <2>2, <2>4 DEF Listing
    <2> QED
      BY <1>1, <2>3, <2>5, Entered DEF Entry, Short
  <1>4. CASE Begin(r, "turning", "listing")
    <2>1. request[r] \in Listing /\ Move(r, "listing")
      BY <1>1, <1>4, StageType DEF Begin, At
    <2> QED
      BY <1>1, <2>1, Moved, MovedType DEF Entry, Short
  <1> QED
    BY <1>2, <1>3, <1>4 DEF Walk


\* What a profile shows of a user.
LEMMA StatsType ==
  ASSUME TypeInv, NEW u \in Bidders
  PROVE  GetUserStats(u) \in Stats
  <1>1. Won(u) \in SUBSET Ids
    BY TableShape DEF TypeInv, Won
  <1>2. [l \in Won(u) |-> Price(l)] \in [Won(u) -> Nat]
    BY <1>1, PriceType
  <1>3. [l \in Won(u) |-> Price(l)] \in Sums
    BY <1>1, <1>2 DEF Sums
  <1>4. [l \in Ids |-> BidsOf(u, l)] \in [Ids -> SUBSET Nat]
    <2>1. ASSUME NEW l \in Ids PROVE DOMAIN bids[l] \subseteq Nat
      <3>1. bids[l] \in Seq(Bidders)
        BY DEF TypeInv
      <3> QED
        BY <3>1
    <2> QED
      BY <2>1 DEF BidsOf
  <1> QED
    BY <1>1, <1>3, <1>4 DEF GetUserStats, Stats

LEMMA EntryOfViewer ==
  ASSUME TypeInv, NEW r \in Viewers, View(r)
  PROVE  request' \in [Requests -> Entry] /\ request'[r] \in Viewing
  <1>1. r \in Requests
    BY DEF Requests
  <1>2. CASE StartView(r)
    <2>1. PICK u \in Bidders : Enter(r, [stage |-> "viewing", user |-> u, views |-> 0,
                                         shown |-> NoStats])
      BY <1>2 DEF StartView
    <2>2. [l \in {} |-> 0] \in [{} -> Nat] /\ {} \in SUBSET Ids
      OBVIOUS
    <2>3. [l \in {} |-> 0] \in Sums
      BY <2>2 DEF Sums
    <2>4. NoStats \in Stats
      BY <2>3 DEF NoStats, Stats
    <2>5. [stage |-> "viewing", user |-> u, views |-> 0, shown |-> NoStats] \in Viewing
      BY <2>4 DEF Viewing
    <2> QED
      BY <1>1, <2>1, <2>5, Entered DEF Entry, Short
  <1>3. CASE UserProfile(r)
    <2> DEFINE v == request[r]
               e == [v EXCEPT !.shown = GetUserStats(v.user), !.views = @ + 1,
                              !.stage = IF v.views + 1 < MaxViews THEN "shown" ELSE "done"]
    <2>1. v \in Viewing
      BY <1>1, <1>3, StageType DEF UserProfile, At
    <2>2. GetUserStats(v.user) \in Stats /\ v.views + 1 \in Nat
      BY <2>1, StatsType DEF Viewing
    <2>3. Enter(r, e)
      BY <1>3 DEF UserProfile
    <2>4. e \in Viewing
      BY <2>1, <2>2 DEF Viewing
    <2> QED
      BY <1>1, <2>3, <2>4, Entered DEF Entry, Short
  <1>4. CASE Begin(r, "shown", "viewing")
    <2>1. request[r] \in Viewing /\ Move(r, "viewing")
      BY <1>1, <1>4, StageType DEF Begin, At
    <2> QED
      BY <1>1, <2>1, Moved, MovedType DEF Entry, Short
  <1> QED
    BY <1>2, <1>3, <1>4 DEF View

\* Every step leaves an entry.
LEMMA EntryStep ==
  ASSUME TypeInv, StampInv, NEW r \in Requests, Step(r) \/ Fail(r)
  PROVE  request' \in [Requests -> Entry]
  <1>1. CASE Fail(r)
    <2>1. Enter(r, [stage |-> "done"]) /\ [stage |-> "done"] \in Plain
      BY <1>1 DEF Fail, Plain
    <2> QED
      BY <2>1, Entered DEF Entry, Short
  <1> QED
    BY <1>1, EntryOfBid, EntryOfCloser, EntryOfCreator, EntryOfWalker, EntryOfViewer DEF Step

\* Lists and profiles differ from each other and from the rest.
LEMMA Disjoint ==
  /\ \A e \in Short : e \notin Listing /\ e \notin Viewing
  /\ \A e \in Listing : e \notin Viewing
  <1>1. \A e \in Short : "start" \notin DOMAIN e /\ "shown" \notin DOMAIN e
    BY DEF Short, Plain, OnLot, Opened, Ranked
  <1>2. \A e \in Listing : "start" \in DOMAIN e /\ "shown" \notin DOMAIN e
    BY DEF Listing
  <1>3. \A e \in Viewing : "shown" \in DOMAIN e
    BY DEF Viewing
  <1> QED
    BY <1>1, <1>2, <1>3

\* Only a walker's step leaves a list, only a viewer's a profile.
LEMMA OnlyOwn ==
  ASSUME TypeInv, StampInv, NEW r \in Requests, Step(r) \/ Fail(r)
  PROVE  /\ request'[r] \in Listing => r \in Walkers /\ Walk(r)
         /\ request'[r] \in Viewing => r \in Viewers /\ View(r)
  <1>1. CASE Fail(r)
    <2>1. Enter(r, [stage |-> "done"]) /\ [stage |-> "done"] \in Short
      BY <1>1 DEF Fail, Plain, Short
    <2> QED
      BY <2>1, Entered, Disjoint
  <1> QED
    BY <1>1, EntryOfBid, EntryOfCloser, EntryOfCreator, EntryOfWalker, EntryOfViewer, Disjoint
       DEF Step

-----------------------------------------------------------------------------
(* What a step does to the tables. *)

\* Nothing to the lots and bids.
Quiet == lots' = lots /\ bids' = bids

\* A bid more on a lot whose row r has locked.
BidsGrow(r) ==
  /\ r \in Bidders /\ At(r, "updated") /\ lots' = lots
  /\ bids' = [bids EXCEPT ![request[r].lot] = Append(@, r)]

\* A lot is closed.
Closes(r) ==
  LET l == request[r].lot IN
    /\ r \in Closers /\ At(r, "updating") /\ MayLock(r, l) /\ SameVersion(l, request[r].version)
    /\ lots' = [lots EXCEPT ![l] = [status |-> "closed", winner |-> request[r].winner]]
    /\ bids' = bids

\* A lot more.
LotsGrow(r) ==
  /\ r \in Creators /\ At(r, "creating") /\ bids' = bids
  /\ request[r].lot \notin DOMAIN lots
  /\ lots' = [l \in DOMAIN lots \cup {request[r].lot} |->
                IF l \in DOMAIN lots THEN lots[l] ELSE [status |-> "active", winner |-> None]]

\* Every step does one of the four.
LEMMA TablesStep ==
  ASSUME TypeInv, NEW r \in Requests, Step(r) \/ Fail(r)
  PROVE  Quiet \/ BidsGrow(r) \/ Closes(r) \/ LotsGrow(r)
  <1>1. CASE Fail(r)
    BY <1>1 DEF Fail, Quiet
  <1>2. CASE r \in Bidders /\ PlaceBid(r)
    BY <1>2 DEF PlaceBid, BeginTx, LockLot, UpdateInTx, CreateBid, Commit, Quiet, BidsGrow
  <1>3. CASE r \in Closers /\ CloseLot(r)
    BY <1>3 DEF CloseLot, StartClose, GetLot, Begin, GetHighestBid, UpdateLot, Quiet, Closes
  <1>4. CASE r \in Creators /\ (RefuseLot(r) \/ StartCreate(r) \/ CreateLot(r))
    <2>1. CASE RefuseLot(r) \/ StartCreate(r)
      BY <2>1 DEF RefuseLot, StartCreate, Quiet
    <2>2. CASE CreateLot(r) /\ request[r].lot \notin DOMAIN lots
      BY <1>4, <2>2 DEF CreateLot, LotsGrow
    <2>3. CASE CreateLot(r) /\ request[r].lot \in DOMAIN lots
      <3> DEFINE D == DOMAIN lots \cup {request[r].lot}
      <3>1. D = DOMAIN lots /\ lots \in [DOMAIN lots -> Row]
        BY <2>3, TableShape DEF TypeInv
      <3>2. lots' = [l \in D |-> IF l \in DOMAIN lots THEN lots[l]
                                   ELSE [status |-> "active", winner |-> None]]
        BY <2>3 DEF CreateLot
      <3>3. lots' = lots
        BY <3>1, <3>2
      <3> QED
        BY <2>3, <3>3 DEF CreateLot, Quiet
    <2> QED
      BY <1>4, <2>1, <2>2, <2>3
  <1>5. CASE r \in Walkers /\ Walk(r)
    BY <1>5 DEF Walk, StartWalk, ListLots, Begin, Quiet
  <1>6. CASE r \in Viewers /\ View(r)
    BY <1>6 DEF View, StartView, UserProfile, Begin, Quiet
  <1> QED
    BY <1>1, <1>2, <1>3, <1>4, <1>5, <1>6 DEF Step


\* The other variables keep their types.
LEMMA TypeStep ==
  ASSUME IInv, [Next]_vars
  PROVE  TypeInv'
  <1> USE DEF IInv
  <1>1. CASE UNCHANGED vars
    BY <1>1 DEF TypeInv, Tables, Entry, Short, Plain, OnLot, Opened, Ranked, Listing, Viewing, vars
  <1>2. CASE Next
    <2>1. PICK r \in Requests : Step(r) \/ Fail(r)
      BY <1>2 DEF Next
    <2>2. request' \in [Requests -> Entry]
      BY <2>1, EntryStep
    <2>3. Entry' = Entry /\ Tables' = Tables
      OBVIOUS
    <2>4. lots' \in Tables /\ bids' \in [Ids -> Seq(Bidders)]
      <3>1. CASE Quiet
        BY <3>1 DEF Quiet, TypeInv
      <3>2. CASE BidsGrow(r)
        <4>1. request[r] \in OnLot /\ r \in Bidders
          BY <3>2, <2>1, StageType DEF BidsGrow, At
        <4>2. bids[request[r].lot] \in Seq(Bidders)
          BY <4>1 DEF OnLot, TypeInv
        <4>3. Append(bids[request[r].lot], r) \in Seq(Bidders)
          BY <4>1, <4>2
        <4> QED
          BY <3>2, <4>3 DEF BidsGrow, TypeInv
      <3>3. CASE Closes(r)
        <4> DEFINE e == [status |-> "closed", winner |-> request[r].winner]
        <4>1. request[r] \in Ranked
          BY <3>3, <2>1, StageType DEF Closes, At
        <4>2. e \in Row
          BY <4>1 DEF Ranked, Row, Status
        <4>3. lots' = [lots EXCEPT ![request[r].lot] = e] /\ bids' = bids
          BY <3>3 DEF Closes
        <4> HIDE DEF e
        <4>4. lots \in [DOMAIN lots -> Row] /\ DOMAIN lots \subseteq Ids
          BY TableShape DEF TypeInv
        <4>5. lots' \in [DOMAIN lots -> Row] /\ DOMAIN lots' = DOMAIN lots
          BY <4>2, <4>3, <4>4
        <4> QED
          BY <4>3, <4>4, <4>5, TableShape DEF TypeInv
      <3>4. CASE LotsGrow(r)
        <4> DEFINE D == DOMAIN lots \cup {request[r].lot}
        <4>1. request[r] \in OnLot
          BY <3>4, <2>1, StageType DEF LotsGrow, At
        <4>2. request[r].lot \in Ids /\ [status |-> "active", winner |-> None] \in Row
          BY <4>1 DEF OnLot, Row, Status
        <4>3. /\ bids' = bids
              /\ lots' = [l \in D |-> IF l \in DOMAIN lots THEN lots[l]
                                        ELSE [status |-> "active", winner |-> None]]
          BY <3>4 DEF LotsGrow
        <4>4. lots \in [DOMAIN lots -> Row] /\ DOMAIN lots \subseteq Ids
          BY TableShape DEF TypeInv
        <4>5. lots' \in [D -> Row] /\ DOMAIN lots' = D /\ D \subseteq Ids
          BY <4>2, <4>3, <4>4
        <4> QED
          BY <4>3, <4>5, TableShape DEF TypeInv
      <3> QED
        BY <2>1, <3>1, <3>2, <3>3, <3>4, TablesStep
    <2>5. stamp' \in Nat /\ faults' \in Nat
      BY <2>1 DEF TypeInv, Step, Fail, PlaceBid, BeginTx, LockLot, UpdateInTx, CreateBid, Commit,
        CloseLot, StartClose, GetLot, Begin, GetHighestBid, UpdateLot, RefuseLot, StartCreate,
        CreateLot, Walk, StartWalk, ListLots, View, StartView, UserProfile
    <2>6. conns' \in SUBSET Requests /\ locked' \in [Ids -> Bidders \cup {None}]
      BY <2>1 DEF TypeInv, Step, Fail, PlaceBid, BeginTx, LockLot, UpdateInTx, CreateBid, Commit,
        CloseLot, StartClose, GetLot, Begin, GetHighestBid, UpdateLot, RefuseLot, StartCreate,
        CreateLot, Walk, StartWalk, ListLots, View, StartView, UserProfile, Acquire, EndTx, Unlock,
        RowsClosed
    <2> QED
      BY <2>2, <2>3, <2>4, <2>5, <2>6, Zenon DEF TypeInv
  <1> QED
    BY <1>1, <1>2


-----------------------------------------------------------------------------
(* The pool. *)

\* A step takes a free connection, gives its own back, or keeps what it has.
Takes(r) == Free /\ conns' = conns \cup {r} /\ request'[r].stage \in Using
Returns(r) == conns' = conns \ {r} /\ request'[r].stage \notin Using
Keeps(r) == conns' = conns /\ (request'[r].stage \in Using <=> request[r].stage \in Using)

LEMMA PoolOfBid ==
  ASSUME TypeInv, NEW r \in Bidders, PlaceBid(r)
  PROVE  Others(r) /\ (Takes(r) \/ Returns(r) \/ Keeps(r))
  <1>1. r \in Requests
    BY DEF Requests
  <1>2. CASE BeginTx(r)
    <2>1. PICK l \in DOMAIN lots : Enter(r, [stage |-> "begun", lot |-> l])
      BY <1>2 DEF BeginTx
    <2> QED
      BY <1>1, <1>2, <2>1, Entered DEF BeginTx, Acquire, Takes, Using
  <1>3. CASE LockLot(r)
    <2>1. \/ Move(r, "read") /\ conns' = conns
          \/ Move(r, "done") /\ conns' = conns \ {r}
      BY <1>3 DEF LockLot, EndTx
    <2>2. request[r].stage = "begun"
      BY <1>3 DEF LockLot, At
    <2>3. CASE Move(r, "read") /\ conns' = conns
      <3>1. Others(r) /\ request'[r].stage = "read"
        BY <1>1, <2>3, Moved
      <3> QED
        BY <2>2, <2>3, <3>1 DEF Keeps, Using
    <2>4. CASE Move(r, "done") /\ conns' = conns \ {r}
      BY <1>1, <2>4, Moved DEF Returns, Using
    <2> QED
      BY <2>1, <2>3, <2>4
  <1>4. CASE UpdateInTx(r) \/ CreateBid(r)
    BY <1>1, <1>4, Moved DEF UpdateInTx, CreateBid, At, Keeps, Using
  <1>5. CASE Commit(r)
    BY <1>1, <1>5, Moved DEF Commit, EndTx, Returns, Using
  <1> QED
    BY <1>2, <1>3, <1>4, <1>5 DEF PlaceBid

LEMMA PoolOfBegin ==
  ASSUME TypeInv, NEW r \in Requests, NEW from, NEW to \in Using, Begin(r, from, to)
  PROVE  Others(r) /\ Takes(r)
  BY Moved DEF Begin, Acquire, Takes

LEMMA PoolOfCloser ==
  ASSUME TypeInv, NEW r \in Closers, CloseLot(r)
  PROVE  Others(r) /\ (Takes(r) \/ Returns(r) \/ Keeps(r))
  <1>1. r \in Requests
    BY DEF Requests
  <1>2. CASE StartClose(r)
    <2>1. PICK l \in DOMAIN lots : Enter(r, [stage |-> "reading", lot |-> l])
      BY <1>2 DEF StartClose
    <2> QED
      BY <1>1, <1>2, <2>1, Entered DEF StartClose, Acquire, Takes, Using
  <1>3. CASE GetLot(r)
    <2>1. \/ Enter(r, [stage |-> "open", lot |-> request[r].lot, version |-> Price(request[r].lot)])
          \/ Enter(r, [stage |-> "done"])
      BY <1>3 DEF GetLot
    <2> QED
      BY <1>1, <1>3, <2>1, Entered DEF GetLot, Returns, Using
  <1>4. CASE GetHighestBid(r)
    <2>1. Enter(r, [stage |-> "ranked", lot |-> request[r].lot, version |-> request[r].version,
                    winner |-> Highest(request[r].lot)])
      BY <1>1, <1>4 DEF GetHighestBid, Enter, TypeInv
    <2> QED
      BY <1>1, <1>4, <2>1, Entered DEF GetHighestBid, Returns, Using
  <1>5. CASE Begin(r, "open", "ranking") \/ Begin(r, "ranked", "updating")
    BY <1>1, <1>5, PoolOfBegin DEF Using
  <1>6. CASE UpdateLot(r)
    BY <1>1, <1>6, Moved DEF UpdateLot, Returns, Using
  <1> QED
    BY <1>2, <1>3, <1>4, <1>5, <1>6 DEF CloseLot

LEMMA PoolOfCreator ==
  ASSUME TypeInv, NEW r \in Creators, RefuseLot(r) \/ StartCreate(r) \/ CreateLot(r)
  PROVE  Others(r) /\ (Takes(r) \/ Returns(r) \/ Keeps(r))
  <1>1. r \in Requests
    BY DEF Requests
  <1>2. CASE RefuseLot(r)
    <2>1. request[r].stage = "new" /\ Move(r, "done") /\ conns' = conns
      BY <1>2 DEF RefuseLot, At
    <2>2. Others(r) /\ request'[r].stage = "done"
      BY <1>1, <2>1, Moved
    <2> QED
      BY <2>1, <2>2 DEF Keeps, Using
  <1>3. CASE StartCreate(r)
    BY <1>1, <1>3, Entered DEF StartCreate, Acquire, Takes, Using
  <1>4. CASE CreateLot(r)
    BY <1>1, <1>4, Moved DEF CreateLot, Returns, Using
  <1> QED
    BY <1>2, <1>3, <1>4

\* The row a page leaves, and the row a profile leaves.
Turned(w, page) ==
  [w EXCEPT !.seen = @ \cup page, !.offset = @ + w.limit,
            !.stage = IF Cardinality(page) < w.limit THEN "done" ELSE "turning"]

Looked(v) ==
  [v EXCEPT !.shown = GetUserStats(v.user), !.views = @ + 1,
            !.stage = IF v.views + 1 < MaxViews THEN "shown" ELSE "done"]

LEMMA PoolOfWalker ==
  ASSUME TypeInv, NEW r \in Walkers, Walk(r)
  PROVE  Others(r) /\ (Takes(r) \/ Returns(r) \/ Keeps(r))
  <1>1. r \in Requests
    BY DEF Requests
  <1>2. CASE StartWalk(r)
    <2>1. PICK filter \in Filters, limit \in Asked :
            Enter(r, [stage |-> "listing", filter |-> filter, limit |-> limit, offset |-> 0,
                      seen |-> {}, start |-> lots])
      BY <1>2 DEF StartWalk
    <2> QED
      BY <1>1, <1>2, <2>1, Entered DEF StartWalk, Acquire, Takes, Using
  <1>3. CASE ListLots(r)
    <2>1. PICK page : page = GetAllLots(request[r].filter, request[r].limit, request[r].offset)
      OBVIOUS
    <2>2. Enter(r, Turned(request[r], page)) /\ conns' = conns \ {r}
      BY <1>3, <2>1 DEF ListLots, Turned
    <2>3. request[r] \in Listing
      BY <1>1, <1>3, StageType DEF ListLots, At
    <2>4. Turned(request[r], page).stage \notin Using
      BY <2>3 DEF Turned, Listing, Using
    <2> QED
      BY <1>1, <2>2, <2>4, Entered DEF Returns
  <1>4. CASE Begin(r, "turning", "listing")
    BY <1>1, <1>4, PoolOfBegin DEF Using
  <1> QED
    BY <1>2, <1>3, <1>4 DEF Walk

LEMMA PoolOfViewer ==
  ASSUME TypeInv, NEW r \in Viewers, View(r)
  PROVE  Others(r) /\ (Takes(r) \/ Returns(r) \/ Keeps(r))
  <1>1. r \in Requests
    BY DEF Requests
  <1>2. CASE StartView(r)
    <2>1. PICK u \in Bidders : Enter(r, [stage |-> "viewing", user |-> u, views |-> 0,
                                         shown |-> NoStats])
      BY <1>2 DEF StartView
    <2> QED
      BY <1>1, <1>2, <2>1, Entered DEF StartView, Acquire, Takes, Using
  <1>3. CASE UserProfile(r)
    <2>1. Enter(r, Looked(request[r])) /\ conns' = conns \ {r}
      BY <1>3 DEF UserProfile, Looked
    <2>2. request[r] \in Viewing
      BY <1>1, <1>3, StageType DEF UserProfile, At
    <2>3. Looked(request[r]).stage \notin Using
      BY <2>2 DEF Looked, Viewing, Using
    <2> QED
      BY <1>1, <2>1, <2>3, Entered DEF Returns
  <1>4. CASE Begin(r, "shown", "viewing")
    BY <1>1, <1>4, PoolOfBegin DEF Using
  <1> QED
    BY <1>2, <1>3, <1>4 DEF View

LEMMA PoolTurns ==
  ASSUME TypeInv, NEW r \in Requests, Step(r) \/ Fail(r)
  PROVE  Others(r) /\ (Takes(r) \/ Returns(r) \/ Keeps(r))
  <1>1. CASE Fail(r)
    BY <1>1, Entered DEF Fail, EndTx, RowsClosed, Returns, Using
  <1> QED
    BY <1>1, PoolOfBid, PoolOfCloser, PoolOfCreator, PoolOfWalker, PoolOfViewer DEF Step

\* Who waits or is done has no connection, who is at a statement has one, and
\* the pool stays within its limit.
LEMMA PoolStep ==
  ASSUME IInv, [Next]_vars
  PROVE  PoolInv'
  <1>1. CASE UNCHANGED vars
    BY <1>1 DEF IInv, PoolInv, vars
  <1>2. CASE Next
    <2>1. PICK r \in Requests : Step(r) \/ Fail(r)
      BY <1>2 DEF Next
    <2>2. /\ Others(r) /\ (Takes(r) \/ Returns(r) \/ Keeps(r))
          /\ conns = {q \in Requests : request[q].stage \in Using}
      BY <2>1, PoolTurns DEF IInv, PoolInv
    <2>3. conns' = {q \in Requests : request'[q].stage \in Using}
      BY <2>2 DEF Others, Takes, Returns, Keeps
    <2>4. IsFiniteSet(conns) /\ Cardinality(conns) <= MaxConns /\ Cardinality(conns) \in Nat
      BY FS_Subset, FS_CardinalityType DEF IInv, TypeInv, PoolInv
    <2>5. /\ Cardinality(conns \cup {r}) = IF r \in conns THEN Cardinality(conns)
                                                           ELSE Cardinality(conns) + 1
          /\ Cardinality(conns \ {r}) = IF r \in conns THEN Cardinality(conns) - 1
                                                        ELSE Cardinality(conns)
      BY <2>4, FS_AddElement, FS_RemoveElement, Zenon
    <2>6. Cardinality(conns') <= MaxConns
      <3>1. MaxConns \in Nat
        OBVIOUS
      <3>2. CASE Takes(r)
        <4>1. Cardinality(conns) < MaxConns /\ conns' = conns \cup {r}
          BY <3>2 DEF Takes, Free
        <4>2. \/ Cardinality(conns') = Cardinality(conns)
              \/ Cardinality(conns') = Cardinality(conns) + 1
          BY <2>5, <4>1
        <4> QED
          BY <2>4, <3>1, <4>1, <4>2
      <3>3. CASE Returns(r)
        <4>1. \/ Cardinality(conns') = Cardinality(conns)
              \/ Cardinality(conns') = Cardinality(conns) - 1
          BY <2>5, <3>3 DEF Returns
        <4> QED
          BY <2>4, <3>1, <4>1
      <3>4. CASE Keeps(r)
        BY <2>4, <3>4 DEF Keeps
      <3> QED
        BY <2>2, <3>2, <3>3, <3>4
    <2> QED
      BY <2>3, <2>6 DEF PoolInv
  <1> QED
    BY <1>1, <1>2


-----------------------------------------------------------------------------
(* Row locks and numbers of lots. *)

\* A step of r locks the open lot it is about, goes on with it, or lets go.
Locks(r) ==
  /\ request'[r] \in OnLot /\ request'[r].stage \in Locking /\ request'[r].lot = request[r].lot
  /\ At(r, "begun") /\ request[r] \in OnLot /\ MayLock(r, request[r].lot) /\ lots[request[r].lot].status = "active"
  /\ locked' = [locked EXCEPT ![request[r].lot] = r]
GoesOn(r) ==
  /\ locked' = locked
  /\ request'[r].stage \in Locking <=> request[r].stage \in Locking
  /\ request[r].stage \in Locking => request'[r].lot = request[r].lot
LetsGo(r) == Unlock(r) /\ request'[r].stage \notin Locking
LeavesRows(r) == r \notin Bidders /\ locked' = locked /\ request'[r].stage \notin Locking

LEMMA LocksOfBid ==
  ASSUME TypeInv, NEW r \in Bidders, PlaceBid(r)
  PROVE  Locks(r) \/ GoesOn(r) \/ LetsGo(r)
  <1>1. r \in Requests
    BY DEF Requests
  <1>2. CASE BeginTx(r)
    <2>1. PICK l \in DOMAIN lots : Enter(r, [stage |-> "begun", lot |-> l])
      BY <1>2 DEF BeginTx
    <2>2. request'[r].stage = "begun" /\ request[r].stage = "new" /\ locked' = locked
      BY <1>1, <1>2, <2>1, Entered DEF BeginTx, At
    <2> QED
      BY <2>2 DEF GoesOn, Locking
  <1>3. CASE LockLot(r)
    <2>1. request[r] \in OnLot /\ request[r].stage = "begun"
      BY <1>1, <1>3, StageType DEF LockLot, At
    <2>2. CASE lots[request[r].lot].status = "active"
      <3>1. /\ Move(r, "read") /\ MayLock(r, request[r].lot)
            /\ locked' = [locked EXCEPT ![request[r].lot] = r]
        BY <1>3, <2>2 DEF LockLot
      <3>2. /\ request'[r] \in OnLot /\ request'[r].stage = "read"
            /\ request'[r].lot = request[r].lot
        BY <1>1, <2>1, <3>1, Moved, MovedType
      <3> QED
        BY <2>1, <2>2, <3>1, <3>2 DEF Locks, Locking, At
    <2>3. CASE lots[request[r].lot].status # "active"
      BY <1>1, <1>3, <2>3, Moved DEF LockLot, EndTx, LetsGo, Locking
    <2> QED
      BY <2>2, <2>3
  <1>4. CASE UpdateInTx(r) \/ CreateBid(r)
    <2>1. /\ request[r] \in OnLot /\ request[r].stage \in Locking /\ locked' = locked
          /\ Move(r, "updated") \/ Move(r, "inserted")
      BY <1>1, <1>4, StageType DEF UpdateInTx, CreateBid, At, Locking
    <2>2. request'[r].stage \in Locking /\ request'[r].lot = request[r].lot
      BY <1>1, <2>1, Moved, MovedType DEF Locking
    <2> QED
      BY <2>1, <2>2 DEF GoesOn
  <1>5. CASE Commit(r)
    BY <1>1, <1>5, Moved DEF Commit, EndTx, LetsGo, Locking
  <1> QED
    BY <1>2, <1>3, <1>4, <1>5 DEF PlaceBid

\* Only bids lock rows.
LEMMA LocksOfOthers ==
  ASSUME TypeInv, NEW r \in Requests,
         \/ r \in Closers /\ CloseLot(r)
         \/ r \in Creators /\ (RefuseLot(r) \/ StartCreate(r) \/ CreateLot(r))
         \/ r \in Walkers /\ Walk(r)
         \/ r \in Viewers /\ View(r)
  PROVE  /\ locked' = locked /\ request[r].stage \notin Locking /\ request'[r].stage \notin Locking
  <1>1. CASE CloseLot(r)
    <2>1. CASE StartClose(r)
      <3>1. PICK l \in DOMAIN lots : Enter(r, [stage |-> "reading", lot |-> l])
        BY <2>1 DEF StartClose
      <3> QED
        BY <2>1, <3>1, Entered DEF StartClose, At, Locking
    <2>2. CASE GetLot(r)
      <3>1. \/ Enter(r, [stage |-> "open", lot |-> request[r].lot,
                         version |-> Price(request[r].lot)])
            \/ Enter(r, [stage |-> "done"])
        BY <2>2 DEF GetLot
      <3> QED
        BY <2>2, <3>1, Entered DEF GetLot, At, Locking
    <2>3. CASE GetHighestBid(r)
      <3>1. Enter(r, [stage |-> "ranked", lot |-> request[r].lot, version |-> request[r].version,
                      winner |-> Highest(request[r].lot)])
        BY <2>3 DEF GetHighestBid, Enter, TypeInv
      <3> QED
        BY <2>3, <3>1, Entered DEF GetHighestBid, At, Locking
    <2>4. CASE Begin(r, "open", "ranking") \/ Begin(r, "ranked", "updating") \/ UpdateLot(r)
      <3>1. /\ locked' = locked /\ request[r].stage \notin Locking
            /\ Move(r, "ranking") \/ Move(r, "updating") \/ Move(r, "done")
        BY <2>4 DEF Begin, UpdateLot, At, Locking
      <3>2. request'[r].stage \in {"ranking", "updating", "done"}
        BY <3>1, Moved
      <3> QED
        BY <3>1, <3>2 DEF Locking
    <2> QED
      BY <1>1, <2>1, <2>2, <2>3, <2>4 DEF CloseLot
  <1>2. CASE RefuseLot(r) \/ StartCreate(r) \/ CreateLot(r)
    <2>1. /\ locked' = locked /\ request[r].stage \notin Locking
          /\ Move(r, "done") \/ Enter(r, [stage |-> "creating", lot |-> stamp + 1])
      BY <1>2 DEF RefuseLot, StartCreate, CreateLot, At, Locking
    <2>2. CASE Move(r, "done")
      <3>1. request'[r].stage = "done"
        BY <2>2, Moved
      <3> QED
        BY <2>1, <3>1 DEF Locking
    <2>3. CASE Enter(r, [stage |-> "creating", lot |-> stamp + 1])
      BY <2>1, <2>3, Entered DEF Locking
    <2> QED
      BY <2>1, <2>2, <2>3
  <1>3. CASE Walk(r)
    <2>1. CASE StartWalk(r)
      <3>1. PICK filter \in Filters, limit \in Asked :
              Enter(r, [stage |-> "listing", filter |-> filter, limit |-> limit, offset |-> 0,
                        seen |-> {}, start |-> lots])
        BY <2>1 DEF StartWalk
      <3> QED
        BY <2>1, <3>1, Entered DEF StartWalk, At, Locking
    <2>2. CASE ListLots(r)
      <3>1. PICK page : page = GetAllLots(request[r].filter, request[r].limit, request[r].offset)
        OBVIOUS
      <3>2. Enter(r, Turned(request[r], page)) /\ locked' = locked
        BY <2>2, <3>1 DEF ListLots, Turned
      <3>3. request[r] \in Listing /\ request[r].stage = "listing"
        BY <2>2, StageType DEF ListLots, At
      <3>4. Turned(request[r], page).stage \notin Locking
        BY <3>3 DEF Turned, Listing, Locking
      <3> QED
        BY <3>2, <3>3, <3>4, Entered DEF Locking
    <2>3. CASE Begin(r, "turning", "listing")
      <3>1. request[r].stage = "turning" /\ Move(r, "listing") /\ locked' = locked
        BY <2>3 DEF Begin, At
      <3>2. request'[r].stage = "listing"
        BY <3>1, Moved
      <3> QED
        BY <3>1, <3>2 DEF Locking
    <2> QED
      BY <1>3, <2>1, <2>2, <2>3 DEF Walk
  <1>4. CASE View(r)
    <2>1. CASE StartView(r)
      <3>1. PICK u \in Bidders : Enter(r, [stage |-> "viewing", user |-> u, views |-> 0,
                                           shown |-> NoStats])
        BY <2>1 DEF StartView
      <3> QED
        BY <2>1, <3>1, Entered DEF StartView, At, Locking
    <2>2. CASE UserProfile(r)
      <3>1. Enter(r, Looked(request[r])) /\ locked' = locked
        BY <2>2 DEF UserProfile, Looked
      <3>2. request[r] \in Viewing /\ request[r].stage = "viewing"
        BY <2>2, StageType DEF UserProfile, At
      <3>3. Looked(request[r]).stage \notin Locking
        BY <3>2 DEF Looked, Viewing, Locking
      <3> QED
        BY <3>1, <3>2, <3>3, Entered DEF Locking
    <2>3. CASE Begin(r, "shown", "viewing")
      <3>1. request[r].stage = "shown" /\ Move(r, "viewing") /\ locked' = locked
        BY <2>3 DEF Begin, At
      <3>2. request'[r].stage = "viewing"
        BY <3>1, Moved
      <3> QED
        BY <3>1, <3>2 DEF Locking
    <2> QED
      BY <1>4, <2>1, <2>2, <2>3 DEF View
  <1> QED
    BY <1>1, <1>2, <1>3, <1>4


LEMMA LocksMove ==
  ASSUME TypeInv, NEW r \in Requests, Step(r) \/ Fail(r)
  PROVE  Locks(r) \/ GoesOn(r) \/ LetsGo(r) \/ LeavesRows(r)
  <1>1. CASE Fail(r)
    <2>1. request'[r].stage = "done"
      BY <1>1, Entered DEF Fail
    <2> QED
      BY <1>1, <2>1 DEF Fail, EndTx, LetsGo, LeavesRows, Locking
  <1>2. CASE r \in Bidders /\ PlaceBid(r)
    BY <1>2, LocksOfBid
  <1>3. CASE ~(r \in Bidders /\ PlaceBid(r)) /\ Step(r)
    BY <1>3, LocksOfOthers DEF Step, GoesOn
  <1> QED
    BY <1>1, <1>2, <1>3

\* Rows stay locked by the transaction that reads and writes them, and locked
\* lots stay open.
LEMMA LockStep ==
  ASSUME IInv, [Next]_vars
  PROVE  LockInv'
  <1>1. CASE UNCHANGED vars
    BY <1>1 DEF IInv, LockInv, vars
  <1>2. CASE Next
    <2>1. PICK r \in Requests : Step(r) \/ Fail(r)
      BY <1>2 DEF Next
    <2>2. TypeInv /\ LockInv /\ TypeInv'
      BY TypeStep DEF IInv
    <2>3. Others(r)
      BY <2>1, <2>2, PoolTurns
    <2>4. \A q \in Requests : request[q].stage \in Locking => request[q] \in OnLot
      BY <2>2, StageType DEF Locking
    <2>5. \A l \in Ids : locked[l] = None \/ locked[l] \in Requests
      BY <2>2 DEF TypeInv, Requests
    <2>6. /\ \A l \in Ids : locked'[l] # None =>
               request'[locked'[l]].stage \in Locking /\ request'[locked'[l]].lot = l
          /\ \A q \in Requests : request'[q].stage \in Locking => locked'[request'[q].lot] = q
      <3>1. CASE Locks(r)
        <4> DEFINE k == request[r].lot
        <4>1. /\ k \in Ids /\ locked[k] \in {None, r} /\ request'[r].lot = k
              /\ request'[r].stage \in Locking
              /\ locked' = [locked EXCEPT ![k] = r] /\ locked \in [Ids -> Bidders \cup {None}]
          BY <2>2, <3>1 DEF Locks, MayLock, OnLot, TypeInv
        <4>2. \A q \in Requests : request[q].stage \in Locking /\ q # r => request[q].lot # k
          BY <2>2, <4>1 DEF LockInv
        <4> QED
          BY <2>2, <2>3, <2>4, <2>5, <4>1, <4>2 DEF LockInv, Others, OnLot
      <3>2. CASE GoesOn(r)
        BY <2>2, <2>3, <2>5, <3>2 DEF LockInv, GoesOn, Others
      <3>3. CASE LetsGo(r)
        BY <2>2, <2>3, <2>4, <2>5, <3>3 DEF LockInv, LetsGo, Unlock, Others, OnLot
      <3>4. CASE LeavesRows(r)
        <4>1. \A l \in Ids : locked[l] # r
          BY <3>4, <2>2 DEF TypeInv, LeavesRows
        <4> QED
          BY <2>2, <2>3, <2>5, <3>4, <4>1 DEF LockInv, Others, LeavesRows
      <3> QED
        BY <2>1, <2>2, <3>1, <3>2, <3>3, <3>4, LocksMove
    <2>7. \A q \in Requests : request'[q].stage \in Locking =>
            lots'[request'[q].lot].status = "active"
      <3> SUFFICES ASSUME NEW q \in Requests, request'[q].stage \in Locking
                   PROVE  lots'[request'[q].lot].status = "active"
        OBVIOUS
      <3> DEFINE k == request'[q].lot
      <3>1. /\ lots[k].status = "active" /\ k \in DOMAIN lots
            /\ locked[k] \in {None, q} /\ request[q].stage \in Locking \cup {"begun"}
            /\ locked[k] = q \/ q = r
        <4>1. CASE q # r
          BY <2>2, <2>3, <4>1 DEF IInv, LockInv, StampInv, Others, Locking, HasLot
        <4>2. CASE q = r /\ Locks(r)
          BY <4>2 DEF IInv, StampInv, Locks, MayLock, At, HasLot
        <4>3. CASE q = r /\ GoesOn(r)
          BY <4>3, <2>2 DEF IInv, StampInv, LockInv, GoesOn, Locking, HasLot
        <4> QED
          BY <2>1, <2>2, <4>1, <4>2, <4>3, LocksMove DEF LetsGo, LeavesRows
      <3> HIDE DEF k
      <3>2. CASE Quiet \/ BidsGrow(r) \/ LotsGrow(r)
        <4>1. lots'[k] = lots[k]
          BY <3>1, <3>2 DEF Quiet, BidsGrow, LotsGrow
        <4> QED
          BY <3>1, <4>1 DEF k
      <3>3. CASE Closes(r)
        <4>1. /\ q # r
              /\ request[r].lot # k
              /\ lots' = [lots EXCEPT ![request[r].lot] =
                            [status |-> "closed", winner |-> request[r].winner]]
          BY <3>1, <3>3 DEF Closes, MayLock, At, Locking
        <4>2. lots'[k] = lots[k]
          BY <3>1, <4>1
        <4> QED
          BY <3>1, <4>2 DEF k
      <3> QED
        BY <2>1, <2>2, <3>2, <3>3, TablesStep DEF k
    <2> QED
      BY <2>6, <2>7 DEF LockInv
  <1> QED
    BY <1>1, <1>2


\* A step starts a creator, or starts and moves nobody to "creating".
Starts(r) ==
  /\ stamp' = stamp + 1 /\ r \in NotYet /\ request'[r] = [stage |-> "creating", lot |-> stamp + 1]
StartsNone(r) ==
  stamp' = stamp /\ request'[r].stage \notin {"new", "creating"}

LEMMA StampMove ==
  ASSUME TypeInv, NEW r \in Requests, Step(r) \/ Fail(r)
  PROVE  Starts(r) \/ StartsNone(r)
  <1>1. CASE Fail(r)
    BY <1>1, Entered DEF Fail, StartsNone
  <1>2. CASE r \in Bidders /\ PlaceBid(r)
    <2>1. stamp' = stamp
      BY <1>2 DEF PlaceBid, BeginTx, LockLot, UpdateInTx, CreateBid, Commit
    <2>2. CASE BeginTx(r)
      <3>1. PICK l \in DOMAIN lots : Enter(r, [stage |-> "begun", lot |-> l])
        BY <2>2 DEF BeginTx
      <3> QED
        BY <2>1, <3>1, Entered DEF StartsNone
    <2>3. CASE \E s \in {"read", "updated", "inserted", "done"} : Move(r, s)
      BY <2>1, <2>3, Moved DEF StartsNone
    <2> QED
      BY <1>2, <2>2, <2>3 DEF PlaceBid, LockLot, UpdateInTx, CreateBid, Commit
  <1>3. CASE r \in Closers /\ CloseLot(r)
    <2>1. stamp' = stamp
      BY <1>3 DEF CloseLot, StartClose, GetLot, Begin, GetHighestBid, UpdateLot
    <2>2. CASE StartClose(r)
      <3>1. PICK l \in DOMAIN lots : Enter(r, [stage |-> "reading", lot |-> l])
        BY <2>2 DEF StartClose
      <3> QED
        BY <2>1, <3>1, Entered DEF StartsNone
    <2>3. CASE GetLot(r)
      <3>1. \/ Enter(r, [stage |-> "open", lot |-> request[r].lot,
                         version |-> Price(request[r].lot)])
            \/ Enter(r, [stage |-> "done"])
        BY <2>3 DEF GetLot
      <3> QED
        BY <2>1, <3>1, Entered DEF StartsNone
    <2>4. CASE GetHighestBid(r)
      <3>1. Enter(r, [stage |-> "ranked", lot |-> request[r].lot, version |-> request[r].version,
                      winner |-> Highest(request[r].lot)])
        BY <2>4 DEF GetHighestBid, Enter, TypeInv
      <3> QED
        BY <2>1, <3>1, Entered DEF StartsNone
    <2>5. CASE \E s \in {"ranking", "updating", "done"} : Move(r, s)
      BY <2>1, <2>5, Moved DEF StartsNone
    <2> QED
      BY <1>3, <2>2, <2>3, <2>4, <2>5 DEF CloseLot, Begin, UpdateLot
  <1>4. CASE r \in Creators /\ (RefuseLot(r) \/ StartCreate(r) \/ CreateLot(r))
    <2>1. CASE StartCreate(r)
      BY <1>4, <2>1, Entered DEF StartCreate, Starts, NotYet
    <2>2. CASE stamp' = stamp /\ Move(r, "done")
      BY <2>2, Moved DEF StartsNone
    <2> QED
      BY <1>4, <2>1, <2>2 DEF RefuseLot, CreateLot
  <1>5. CASE r \in Walkers /\ Walk(r)
    <2>1. stamp' = stamp
      BY <1>5 DEF Walk, StartWalk, ListLots, Begin
    <2>2. CASE StartWalk(r)
      <3>1. PICK filter \in Filters, limit \in Asked :
              Enter(r, [stage |-> "listing", filter |-> filter, limit |-> limit, offset |-> 0,
                        seen |-> {}, start |-> lots])
        BY <2>2 DEF StartWalk
      <3> QED
        BY <2>1, <3>1, Entered DEF StartsNone
    <2>3. CASE ListLots(r)
      <3>1. PICK page : page = GetAllLots(request[r].filter, request[r].limit, request[r].offset)
        OBVIOUS
      <3>2. Enter(r, Turned(request[r], page)) /\ request[r] \in Listing
        BY <2>3, <3>1, StageType DEF ListLots, Turned, At
      <3>3. Turned(request[r], page).stage \notin {"new", "creating"}
        BY <3>2 DEF Turned, Listing
      <3> QED
        BY <2>1, <3>2, <3>3, Entered DEF StartsNone
    <2>4. CASE Begin(r, "turning", "listing")
      BY <2>1, <2>4, Moved DEF Begin, StartsNone
    <2> QED
      BY <1>5, <2>2, <2>3, <2>4 DEF Walk
  <1>6. CASE r \in Viewers /\ View(r)
    <2>1. stamp' = stamp
      BY <1>6 DEF View, StartView, UserProfile, Begin
    <2>2. CASE StartView(r)
      <3>1. PICK u \in Bidders : Enter(r, [stage |-> "viewing", user |-> u, views |-> 0,
                                           shown |-> NoStats])
        BY <2>2 DEF StartView
      <3> QED
        BY <2>1, <3>1, Entered DEF StartsNone
    <2>3. CASE UserProfile(r)
      <3>1. Enter(r, Looked(request[r])) /\ request[r] \in Viewing
        BY <2>3, StageType DEF UserProfile, Looked, At
      <3>2. Looked(request[r]).stage \notin {"new", "creating"}
        BY <3>1 DEF Looked, Viewing
      <3> QED
        BY <2>1, <3>1, <3>2, Entered DEF StartsNone
    <2>4. CASE Begin(r, "shown", "viewing")
      BY <2>1, <2>4, Moved DEF Begin, StartsNone
    <2> QED
      BY <1>6, <2>2, <2>3, <2>4 DEF View
  <1> QED
    BY <1>1, <1>2, <1>3, <1>4, <1>5, <1>6 DEF Step


\* A request that goes on about a lot found it, or goes on about the same.
SameLot(r) ==
  request'[r].stage \in HasLot =>
    \/ request'[r].lot \in DOMAIN lots
    \/ request[r].stage \in HasLot /\ request'[r].lot = request[r].lot

\* What a closer knows of a lot.
Judging == {"open", "ranking", "ranked", "updating"}
Knows(r) ==
  request'[r].stage \in Judging =>
    /\ request'[r].lot = request[r].lot /\ request[r].lot \in Ids /\ Quiet
    /\ \/ request'[r].version = Price(request[r].lot)
       \/ request[r].stage \in Judging /\ request'[r].version = request[r].version
    /\ request'[r].stage \in {"ranked", "updating"} =>
         \/ request'[r].winner = Highest(request[r].lot)
         \/ /\ request[r].stage = "ranked" /\ request'[r].winner = request[r].winner
            /\ request'[r].version = request[r].version

LEMMA LotOfBid ==
  ASSUME TypeInv, NEW r \in Bidders, PlaceBid(r)
  PROVE  SameLot(r) /\ request'[r].stage \notin Judging
  <1>1. r \in Requests
    BY DEF Requests
  <1>2. CASE BeginTx(r)
    <2>1. PICK l \in DOMAIN lots : Enter(r, [stage |-> "begun", lot |-> l])
      BY <1>2 DEF BeginTx
    <2> QED
      BY <1>1, <2>1, Entered DEF SameLot, Judging
  <1>3. CASE ~BeginTx(r)
    <2>1. /\ request[r] \in OnLot /\ request[r].stage \in HasLot
          /\ \E s \in {"read", "updated", "inserted", "done"} : Move(r, s)
      BY <1>1, <1>3, StageType DEF PlaceBid, LockLot, UpdateInTx, CreateBid, Commit, At, HasLot
    <2>2. PICK s \in {"read", "updated", "inserted", "done"} : Move(r, s)
      BY <2>1
    <2>3. request'[r].stage = s /\ request'[r].lot = request[r].lot
      BY <1>1, <2>1, <2>2, Moved, MovedType
    <2> QED
      BY <2>1, <2>3 DEF SameLot, Judging
  <1> QED
    BY <1>2, <1>3

LEMMA LotOfCloser ==
  ASSUME TypeInv, NEW r \in Closers, CloseLot(r)
  PROVE  SameLot(r) /\ Knows(r)
  <1>1. r \in Requests
    BY DEF Requests
  <1>2. CASE StartClose(r)
    <2>1. PICK l \in DOMAIN lots : Enter(r, [stage |-> "reading", lot |-> l])
      BY <1>2 DEF StartClose
    <2> QED
      BY <1>1, <2>1, Entered DEF SameLot, Knows, Judging
  <1>3. CASE GetLot(r)
    <2>1. request[r] \in OnLot /\ request[r].stage \in HasLot /\ Quiet
      BY <1>1, <1>3, StageType DEF GetLot, At, HasLot, Quiet
    <2>2. CASE Enter(r, [stage |-> "open", lot |-> request[r].lot,
                         version |-> Price(request[r].lot)])
      BY <1>1, <2>1, <2>2, Entered DEF SameLot, Knows, OnLot
    <2>3. CASE Enter(r, [stage |-> "done"])
      BY <1>1, <2>3, Entered DEF SameLot, Knows, Judging, HasLot
    <2> QED
      BY <1>3, <2>2, <2>3 DEF GetLot
  <1>4. CASE GetHighestBid(r)
    <2>1. request[r] \in Opened /\ request[r].stage = "ranking" /\ Quiet
      BY <1>1, <1>4, StageType DEF GetHighestBid, At, Quiet
    <2>2. Enter(r, [stage |-> "ranked", lot |-> request[r].lot, version |-> request[r].version,
                    winner |-> Highest(request[r].lot)])
      BY <1>1, <1>4 DEF GetHighestBid, Enter, TypeInv
    <2>3. /\ request'[r].stage = "ranked" /\ request'[r].lot = request[r].lot
          /\ request'[r].version = request[r].version
          /\ request'[r].winner = Highest(request[r].lot)
      BY <1>1, <2>2, Entered
    <2> QED
      BY <2>1, <2>3 DEF SameLot, Knows, Opened, Judging, HasLot
  <1>5. CASE Begin(r, "open", "ranking")
    <2>1. request[r] \in Opened /\ request[r].stage = "open" /\ Quiet /\ Move(r, "ranking")
      BY <1>1, <1>5, StageType DEF Begin, At, Quiet
    <2>2. /\ request'[r].stage = "ranking" /\ request'[r].lot = request[r].lot
          /\ request'[r].version = request[r].version
      BY <1>1, <2>1, Moved, MovedType
    <2> QED
      BY <2>1, <2>2 DEF SameLot, Knows, Opened, Judging, HasLot
  <1>6. CASE Begin(r, "ranked", "updating")
    <2>1. request[r] \in Ranked /\ request[r].stage = "ranked" /\ Quiet /\ Move(r, "updating")
      BY <1>1, <1>6, StageType DEF Begin, At, Quiet
    <2>2. /\ request'[r].stage = "updating" /\ request'[r].lot = request[r].lot
          /\ request'[r].version = request[r].version /\ request'[r].winner = request[r].winner
      BY <1>1, <2>1, Moved, MovedType
    <2> QED
      BY <2>1, <2>2 DEF SameLot, Knows, Ranked, Judging, HasLot
  <1>7. CASE UpdateLot(r)
    <2>1. request'[r].stage = "done"
      BY <1>1, <1>7, Moved DEF UpdateLot
    <2> QED
      BY <2>1 DEF SameLot, Knows, Judging, HasLot
  <1> QED
    BY <1>2, <1>3, <1>4, <1>5, <1>6, <1>7 DEF CloseLot

LEMMA LotOfOthers ==
  ASSUME TypeInv, NEW r \in Requests,
         \/ r \in Creators /\ (RefuseLot(r) \/ StartCreate(r) \/ CreateLot(r))
         \/ r \in Walkers /\ Walk(r)
         \/ r \in Viewers /\ View(r)
  PROVE  request'[r].stage \notin HasLot \cup Judging
  <1>1. CASE RefuseLot(r) \/ StartCreate(r) \/ CreateLot(r)
    <2>1. CASE Move(r, "done")
      BY <2>1, Moved DEF HasLot, Judging
    <2>2. CASE Enter(r, [stage |-> "creating", lot |-> stamp + 1])
      BY <2>2, Entered DEF HasLot, Judging
    <2> QED
      BY <1>1, <2>1, <2>2 DEF RefuseLot, StartCreate, CreateLot
  <1>2. CASE Walk(r)
    <2>1. CASE StartWalk(r)
      <3>1. PICK filter \in Filters, limit \in Asked :
              Enter(r, [stage |-> "listing", filter |-> filter, limit |-> limit, offset |-> 0,
                        seen |-> {}, start |-> lots])
        BY <2>1 DEF StartWalk
      <3> QED
        BY <3>1, Entered DEF HasLot, Judging
    <2>2. CASE ListLots(r)
      <3>1. PICK page : page = GetAllLots(request[r].filter, request[r].limit, request[r].offset)
        OBVIOUS
      <3>2. Enter(r, Turned(request[r], page)) /\ request[r] \in Listing
        BY <2>2, <3>1, StageType DEF ListLots, Turned, At
      <3>3. Turned(request[r], page).stage \notin HasLot \cup Judging
        BY <3>2 DEF Turned, Listing, HasLot, Judging
      <3> QED
        BY <3>2, <3>3, Entered
    <2>3. CASE Begin(r, "turning", "listing")
      BY <2>3, Moved DEF Begin, HasLot, Judging
    <2> QED
      BY <1>2, <2>1, <2>2, <2>3 DEF Walk
  <1>3. CASE View(r)
    <2>1. CASE StartView(r)
      <3>1. PICK u \in Bidders : Enter(r, [stage |-> "viewing", user |-> u, views |-> 0,
                                           shown |-> NoStats])
        BY <2>1 DEF StartView
      <3> QED
        BY <3>1, Entered DEF HasLot, Judging
    <2>2. CASE UserProfile(r)
      <3>1. Enter(r, Looked(request[r])) /\ request[r] \in Viewing
        BY <2>2, StageType DEF UserProfile, Looked, At
      <3>2. Looked(request[r]).stage \notin HasLot \cup Judging
        BY <3>1 DEF Looked, Viewing, HasLot, Judging
      <3> QED
        BY <3>1, <3>2, Entered
    <2>3. CASE Begin(r, "shown", "viewing")
      BY <2>3, Moved DEF Begin, HasLot, Judging
    <2> QED
      BY <1>3, <2>1, <2>2, <2>3 DEF View
  <1> QED
    BY <1>1, <1>2, <1>3

LEMMA LotMove ==
  ASSUME TypeInv, NEW r \in Requests, Step(r) \/ Fail(r)
  PROVE  SameLot(r) /\ Knows(r)
  <1>1. CASE Fail(r)
    BY <1>1, Entered DEF Fail, SameLot, Knows, HasLot, Judging
  <1>2. CASE r \in Bidders /\ PlaceBid(r)
    BY <1>2, LotOfBid DEF Knows
  <1>3. CASE r \in Closers /\ CloseLot(r)
    BY <1>3, LotOfCloser
  <1>4. CASE ~(r \in Bidders /\ PlaceBid(r)) /\ ~(r \in Closers /\ CloseLot(r)) /\ Step(r)
    BY <1>4, LotOfOthers DEF Step, SameLot, Knows
  <1> QED
    BY <1>1, <1>2, <1>3, <1>4

\* Creators have numbers of their own below the last one given out, and what a
\* request is about is there.
LEMMA StampStep ==
  ASSUME IInv, [Next]_vars
  PROVE  StampInv'
  <1>1. CASE UNCHANGED vars
    BY <1>1 DEF IInv, StampInv, NotYet, At, vars
  <1>2. CASE Next
    <2>1. PICK r \in Requests : Step(r) \/ Fail(r)
      BY <1>2 DEF Next
    <2>2. TypeInv /\ StampInv /\ TypeInv'
      BY TypeStep DEF IInv
    <2>3. Others(r) /\ SameLot(r) /\ (Starts(r) \/ StartsNone(r))
      BY <2>1, <2>2, PoolTurns, LotMove, StampMove
    <2>4. stamp \in Nat /\ stamp' \in Nat /\ stamp <= stamp'
      BY <2>2, <2>3 DEF Starts, StartsNone, TypeInv
    <2>5. DOMAIN lots \subseteq DOMAIN lots' /\ DOMAIN lots' \subseteq 1..stamp
      <3>1. CASE Quiet \/ BidsGrow(r) \/ Closes(r)
        BY <2>2, <3>1 DEF Quiet, BidsGrow, Closes, StampInv
      <3>2. CASE LotsGrow(r)
        <4>1. request[r] \in OnLot /\ request[r].lot <= stamp
          BY <2>1, <2>2, <3>2, StageType DEF LotsGrow, At, StampInv
        <4>2. request[r].lot \in 1..stamp
          BY <2>4, <4>1, Constants DEF OnLot
        <4>3. DOMAIN lots' = DOMAIN lots \cup {request[r].lot}
          BY <3>2 DEF LotsGrow
        <4> QED
          BY <2>2, <4>2, <4>3 DEF StampInv
      <3> QED
        BY <2>1, <2>2, <3>1, <3>2, TablesStep
    <2>6. DOMAIN lots' \subseteq 1..stamp'
      BY <2>4, <2>5
    <2>7. stamp' + Cardinality(NotYet') <= Cardinality(Ids)
      <3>1. /\ IsFiniteSet(NotYet) /\ Cardinality(NotYet) \in Nat
            /\ Cardinality(Ids) \in Nat
        BY Constants, FS_Subset, FS_CardinalityType DEF NotYet
      <3>2. CASE Starts(r)
        <4>1. NotYet' = NotYet \ {r}
          BY <2>3, <3>2 DEF NotYet, At, Starts, Others, Requests
        <4>2. Cardinality(NotYet') = Cardinality(NotYet) - 1
          BY <3>1, <3>2, <4>1, FS_RemoveElement DEF Starts
        <4> QED
          BY <2>2, <2>4, <3>1, <3>2, <4>2 DEF StampInv, Starts
      <3>3. CASE StartsNone(r)
        <4>1. NotYet' \in SUBSET NotYet
          BY <2>3, <3>3 DEF NotYet, At, StartsNone, Others, Requests
        <4>2. Cardinality(NotYet') <= Cardinality(NotYet) /\ Cardinality(NotYet') \in Nat
          BY <3>1, <4>1, FS_Subset, FS_CardinalityType
        <4> QED
          BY <2>2, <2>4, <3>1, <3>3, <4>2 DEF StampInv, StartsNone
      <3> QED
        BY <2>3, <3>2, <3>3
    <2>8. ASSUME NEW q \in Requests, request'[q].stage = "creating"
          PROVE  request'[q].lot <= stamp'
      <3>1. CASE q # r
        <4>1. request[q].stage = "creating" /\ request'[q].lot = request[q].lot
          BY <2>3, <2>8, <3>1 DEF Others
        <4>2. request[q].lot <= stamp /\ request[q].lot \in Nat
          BY <2>2, <4>1, StageType, Constants DEF StampInv, At, OnLot
        <4> QED
          BY <2>4, <4>1, <4>2
      <3>2. CASE q = r
        BY <2>3, <2>4, <2>8, <3>2 DEF Starts, StartsNone
      <3> QED
        BY <3>1, <3>2
    <2>9. ASSUME NEW q \in Requests, request'[q].stage \in HasLot
          PROVE  request'[q].lot \in DOMAIN lots'
      BY <2>2, <2>3, <2>5, <2>9 DEF Others, SameLot, StampInv
    <2> QED
      BY <2>6, <2>7, <2>8, <2>9 DEF StampInv, At
  <1> QED
    BY <1>1, <1>2


-----------------------------------------------------------------------------
(* Winners. *)

\* Bids are only added, to lots that are open; a closed lot stays as it is.
Grows ==
  /\ DOMAIN lots \subseteq DOMAIN lots'
  /\ \A l \in Ids :
       /\ Price(l) \in Nat /\ Price(l)' \in Nat /\ Price(l) <= Price(l)'
       /\ Price(l)' = Price(l) => bids'[l] = bids[l]
       /\ \A u \in Bidders : BidsOf(u, l) \subseteq BidsOf(u, l)'
  /\ \A l \in DOMAIN lots : lots[l].status = "closed" => bids'[l] = bids[l] /\ lots'[l] = lots[l]

LEMMA GrowsStep ==
  ASSUME IInv, NEW r \in Requests, Step(r) \/ Fail(r)
  PROVE  Grows
  <1>1. TypeInv /\ TypeInv' /\ (Quiet \/ BidsGrow(r) \/ Closes(r) \/ LotsGrow(r))
    BY TypeStep, TablesStep DEF IInv, Next
  <1>2. \A l \in Ids : Price(l) \in Nat /\ Price(l)' \in Nat
    <2>1. \A l \in Ids : bids[l] \in Seq(Bidders) /\ bids'[l] \in Seq(Bidders)
      BY <1>1 DEF TypeInv
    <2> QED
      BY <2>1 DEF Price
  <1>3. CASE Quiet
    BY <1>2, <1>3 DEF Grows, Quiet, Price, BidsOf
  <1>4. CASE BidsGrow(r)
    <2>0. request[r].lot \in Ids
      BY <1>1, <1>4, StageType DEF BidsGrow, At, OnLot
    <2> PICK k \in Ids : k = request[r].lot
      BY <2>0
    <2>1. /\ k \in Ids /\ bids[k] \in Seq(Bidders) /\ bids \in [Ids -> Seq(Bidders)]
          /\ r \in Bidders /\ lots' = lots /\ lots[k].status = "active"
          /\ bids' = [bids EXCEPT ![k] = Append(bids[k], r)]
      BY <1>1, <1>4, StageType DEF BidsGrow, At, IInv, LockInv, Locking, OnLot, TypeInv
    <2>2. \A l \in Ids \ {k} : bids'[l] = bids[l]
      BY <2>1
    <2>3. bids'[k] = Append(bids[k], r)
      BY <2>1
    <2>4. /\ Len(bids'[k]) = Len(bids[k]) + 1
          /\ \A u \in Bidders : {i \in DOMAIN bids[k] : bids[k][i] = u}
                                  \subseteq {i \in DOMAIN bids'[k] : bids'[k][i] = u}
      BY <2>1, <2>3
    <2>5. Price(k)' = Price(k) + 1 /\ \A u \in Bidders : BidsOf(u, k) \subseteq BidsOf(u, k)'
      BY <2>4 DEF Price, BidsOf
    <2>6. \A l \in Ids \ {k} : Price(l)' = Price(l) /\ \A u \in Bidders : BidsOf(u, l)' = BidsOf(u, l)
      BY <2>2 DEF Price, BidsOf
    <2>7. \A l \in Ids :
            /\ Price(l) <= Price(l)' /\ (Price(l)' = Price(l) => bids'[l] = bids[l])
            /\ \A u \in Bidders : BidsOf(u, l) \subseteq BidsOf(u, l)'
      <3> SUFFICES ASSUME NEW l \in Ids
                   PROVE  /\ Price(l) <= Price(l)' /\ (Price(l)' = Price(l) => bids'[l] = bids[l])
                          /\ \A u \in Bidders : BidsOf(u, l) \subseteq BidsOf(u, l)'
        OBVIOUS
      <3>1. CASE l = k
        BY <1>2, <2>1, <2>5, <3>1
      <3>2. CASE l # k
        BY <1>2, <2>2, <2>6, <3>2
      <3> QED
        BY <3>1, <3>2
    <2>8. \A l \in DOMAIN lots : lots[l].status = "closed" => bids'[l] = bids[l] /\ lots'[l] = lots[l]
      BY <1>1, <2>1, <2>2, TableShape DEF TypeInv
    <2> QED
      BY <1>2, <2>1, <2>7, <2>8 DEF Grows
  <1>5. CASE Closes(r) \/ LotsGrow(r)
    <2>1. bids' = bids
      BY <1>5 DEF Closes, LotsGrow
    <2>2. \A l \in Ids :
            /\ Price(l) <= Price(l)' /\ (Price(l)' = Price(l) => bids'[l] = bids[l])
            /\ \A u \in Bidders : BidsOf(u, l) \subseteq BidsOf(u, l)'
      BY <1>2, <2>1 DEF Price, BidsOf
    <2>3. /\ DOMAIN lots \subseteq DOMAIN lots'
          /\ \A l \in DOMAIN lots : lots[l].status = "closed" => lots'[l] = lots[l]
      BY <1>5 DEF Closes, LotsGrow, SameVersion
    <2> QED
      BY <1>2, <2>1, <2>2, <2>3 DEF Grows
  <1> QED
    BY <1>1, <1>3, <1>4, <1>5

\* A closed lot belongs to its last bidder.
LEMMA WinnerStep ==
  ASSUME IInv, [Next]_vars
  PROVE  WinnerInv'
  <1>1. CASE UNCHANGED vars
    BY <1>1 DEF IInv, WinnerInv, Highest, Price, vars
  <1>2. CASE Next
    <2>1. PICK r \in Requests : Step(r) \/ Fail(r)
      BY <1>2 DEF Next
    <2>2. /\ TypeInv /\ WinnerInv /\ LockInv /\ StampInv /\ Grows
          /\ Quiet \/ BidsGrow(r) \/ Closes(r) \/ LotsGrow(r)
      BY <2>1, GrowsStep, TablesStep DEF IInv
    <2>3. Others(r) /\ Knows(r)
      BY <2>1, <2>2, PoolTurns, LotMove
    <2>4. \A l \in Ids : bids'[l] = bids[l] => Highest(l)' = Highest(l) /\ Price(l)' = Price(l)
      BY DEF Highest, Price
    <2>5. DOMAIN lots \subseteq Ids
      BY <2>2, TableShape DEF TypeInv
    <2>6. \A l \in DOMAIN lots' :
            lots'[l].winner = IF lots'[l].status = "closed" THEN Highest(l)' ELSE None
      <3>1. CASE Quiet
        BY <2>2, <2>4, <2>5, <3>1 DEF Quiet, WinnerInv
      <3>2. CASE BidsGrow(r)
        BY <2>2, <2>4, <2>5, <3>2 DEF BidsGrow, WinnerInv, Grows
      <3>3. CASE Closes(r)
        <4>0. request[r].lot \in Ids
          BY <2>1, <2>2, <3>3, StageType DEF Closes, At, Ranked
        <4> PICK k \in Ids : k = request[r].lot
          BY <4>0
        <4> DEFINE e == [status |-> "closed", winner |-> request[r].winner]
        <4>1. /\ bids' = bids /\ lots' = [lots EXCEPT ![k] = e]
              /\ request[r].winner = Highest(k)
          BY <2>1, <2>2, <3>3 DEF Closes, At, SameVersion, WinnerInv
        <4>2. e.winner = Highest(k) /\ e.status = "closed"
          BY <4>1
        <4> HIDE DEF e
        <4>3. \A l \in Ids : Highest(l)' = Highest(l)
          BY <2>4, <4>1
        <4>4. Highest(k)' = Highest(k)
          BY <4>1 DEF Highest, Price
        <4>5. DOMAIN lots' = DOMAIN lots
          BY <4>1
        <4> SUFFICES ASSUME NEW l \in DOMAIN lots
                     PROVE  lots'[l].winner =
                              IF lots'[l].status = "closed" THEN Highest(l)' ELSE None
          BY <4>5
        <4>6. CASE l = k
          BY <4>1, <4>2, <4>4, <4>6
        <4>7. CASE l # k
          <5>1. lots'[l] = lots[l] /\ Highest(l)' = Highest(l)
            BY <2>5, <4>1, <4>3, <4>7
          <5> QED
            BY <2>2, <5>1 DEF WinnerInv
        <4> QED
          BY <4>6, <4>7
      <3>4. CASE LotsGrow(r)
        <4>1. /\ bids' = bids /\ DOMAIN lots' = DOMAIN lots \cup {request[r].lot}
              /\ \A l \in DOMAIN lots : lots'[l] = lots[l]
              /\ \A l \in DOMAIN lots' \ DOMAIN lots :
                   lots'[l] = [status |-> "active", winner |-> None]
          BY <3>4 DEF LotsGrow
        <4>2. \A l \in Ids : Highest(l)' = Highest(l)
          BY <2>4, <4>1
        <4> QED
          BY <2>2, <2>5, <4>1, <4>2 DEF WinnerInv
      <3> QED
        BY <2>2, <3>1, <3>2, <3>3, <3>4
    <2>7. ASSUME NEW q \in Requests, request'[q].stage \in Judging
          PROVE  /\ request'[q].version <= Price(request[q].lot)'
                 /\ (request'[q].stage \in {"ranked", "updating"}
                     /\ request'[q].version = Price(request[q].lot)')
                      => request'[q].winner = Highest(request[q].lot)'
      <3>1. CASE q # r
        <4>1. request'[q] = request[q]
          BY <2>3, <3>1 DEF Others
        <4>0. request[q].lot \in Ids /\ request[q].version \in Nat
          BY <2>2, <2>7, <4>1, StageType DEF Judging, Opened, Ranked
        <4> PICK l \in Ids : l = request[q].lot
          BY <4>0
        <4>2. l = request[q].lot /\ l = request'[q].lot
          BY <4>1
        <4>3. /\ request[q].version <= Price(l)
              /\ request[q].stage \in {"ranked", "updating"} /\ request[q].version = Price(l)
                   => request[q].winner = Highest(l)
          BY <2>2, <2>7, <4>1, <4>2 DEF WinnerInv, Judging
        <4>4. /\ Price(l) \in Nat /\ Price(l)' \in Nat /\ Price(l) <= Price(l)'
              /\ Price(l)' = Price(l) => bids'[l] = bids[l]
          BY <2>2 DEF Grows
        <4>5. bids'[l] = bids[l] => Highest(l)' = Highest(l)
          BY <2>4
        <4>6. request[q].version <= Price(l)'
          BY <4>0, <4>3, <4>4
        <4>7. request[q].version = Price(l)' => request[q].version = Price(l) /\ bids'[l] = bids[l]
          BY <4>0, <4>3, <4>4
        <4> QED
          BY <4>1, <4>2, <4>3, <4>5, <4>6, <4>7
      <3>2. CASE q = r
        <4>0. request[r].lot \in Ids
          BY <2>3, <2>7, <3>2 DEF Knows
        <4> PICK l \in Ids : l = request[r].lot
          BY <4>0
        <4>1. /\ request'[r].lot = l /\ l = request[r].lot /\ Quiet
              /\ \/ request'[r].version = Price(l)
                 \/ request[r].stage \in Judging /\ request'[r].version = request[r].version
              /\ request'[r].stage \in {"ranked", "updating"} =>
                   \/ request'[r].winner = Highest(l)
                   \/ /\ request[r].stage = "ranked" /\ request'[r].winner = request[r].winner
                      /\ request'[r].version = request[r].version
          BY <2>3, <2>7, <3>2 DEF Knows
        <4>2. Price(l)' = Price(l) /\ Highest(l)' = Highest(l)
          BY <2>4, <4>1 DEF Quiet
        <4>3. Price(l) \in Nat
          BY <2>2, PriceType
        <4>4. /\ request[r].stage \in Judging => request[r].version <= Price(l)
              /\ request[r].stage = "ranked" /\ request[r].version = Price(l)
                   => request[r].winner = Highest(l)
          BY <2>2, <4>1 DEF WinnerInv, Judging
        <4>5. request'[r].version <= Price(l)
          BY <4>1, <4>3, <4>4
        <4> QED
          BY <3>2, <4>1, <4>2, <4>4, <4>5
      <3> QED
        BY <3>1, <3>2
    <2> QED
      BY <2>6, <2>7 DEF WinnerInv, Judging
  <1> QED
    BY <1>1, <1>2


-----------------------------------------------------------------------------
(* Profiles. *)

\* What a profile showed stays so.
LEMMA StaysSo ==
  ASSUME TypeInv, WinnerInv, Grows, NEW v \in Viewing, StillSo(v)
  PROVE  StillSo(v)'
  <1>1. v.user \in Bidders /\ v.shown.wins \subseteq Won(v.user)
    BY DEF Viewing, StillSo
  <1>2. ASSUME NEW l \in Won(v.user)
        PROVE  l \in Ids /\ bids'[l] = bids[l] /\ l \in Won(v.user)'
    <2>1. l \in DOMAIN lots /\ lots[l].winner = v.user /\ v.user # None
      BY <1>1 DEF Won, Requests
    <2>2. lots[l].status = "closed"
      BY <2>1 DEF WinnerInv
    <2>3. lots'[l] = lots[l] /\ bids'[l] = bids[l] /\ l \in DOMAIN lots'
      BY <2>1, <2>2 DEF Grows
    <2>4. l \in Ids
      BY <2>1, TableShape DEF TypeInv
    <2> QED
      BY <2>1, <2>3, <2>4 DEF Won
  <1>3. \A l \in Ids : v.shown.placed[l] \subseteq BidsOf(v.user, l)'
    BY <1>1 DEF Grows, StillSo
  <1>4. ASSUME NEW l \in v.shown.wins
        PROVE  v.shown.spent[l] = Price(l)' /\ l \in Won(v.user)'
    <2>1. l \in Won(v.user) /\ v.shown.spent[l] = Price(l)
      BY <1>1 DEF StillSo
    <2> QED
      BY <1>2, <2>1 DEF Price
  <1> QED
    BY <1>3, <1>4 DEF StillSo

\* A profile never shows what is not so.
LEMMA ShownStep ==
  ASSUME IInv, [Next]_vars
  PROVE  ShownInv'
  <1>1. CASE UNCHANGED vars
    BY <1>1 DEF IInv, ShownInv, StillSo, Won, BidsOf, Price, vars, Viewing, Stats, Sums
  <1>2. CASE Next
    <2>1. PICK r \in Requests : Step(r) \/ Fail(r)
      BY <1>2 DEF Next
    <2>2. TypeInv /\ StampInv /\ WinnerInv /\ ShownInv /\ Grows /\ Others(r)
      BY <2>1, GrowsStep, PoolTurns DEF IInv
    <2>3. SUFFICES ASSUME NEW q \in Requests, request'[q] \in Viewing
                   PROVE  StillSo(request[q])'
      BY DEF ShownInv, Viewing, Stats, Sums
    <2> PICK v \in Viewing : v = request'[q]
      BY <2>3
    <2>4. StillSo(v)
      <3>1. CASE q # r
        <4>1. v = request[q]
          BY <2>2, <3>1 DEF Others
        <4> QED
          BY <2>2, <4>1 DEF ShownInv
      <3>2. CASE q = r
        <4>1. View(r) /\ v = request'[r]
          BY <2>1, <2>2, <2>3, <3>2, OnlyOwn
        <4>2. CASE StartView(r)
          <5>1. PICK u \in Bidders : Enter(r, [stage |-> "viewing", user |-> u, views |-> 0,
                                               shown |-> NoStats])
            BY <4>2 DEF StartView
          <5>2. v.shown = NoStats
            BY <2>2, <4>1, <5>1, Entered
          <5> QED
            BY <5>2 DEF StillSo, NoStats
        <4>3. CASE UserProfile(r)
          <5>1. Enter(r, Looked(request[r])) /\ request[r] \in Viewing
            BY <2>2, <4>3, StageType DEF UserProfile, Looked, At
          <5>2. v = Looked(request[r])
            BY <2>2, <4>1, <5>1, Entered
          <5>3. v.user = request[r].user /\ v.shown = GetUserStats(request[r].user)
            BY <5>1, <5>2 DEF Looked, Viewing
          <5>4. v.shown = GetUserStats(v.user)
            BY <5>3
          <5> QED
            BY <5>4 DEF StillSo, GetUserStats
        <4>4. CASE Begin(r, "shown", "viewing")
          <5>1. request[r] \in Viewing /\ Move(r, "viewing")
            BY <2>2, <4>4, StageType DEF Begin, At
          <5>2. v.user = request[r].user /\ v.shown = request[r].shown
            BY <2>2, <4>1, <5>1, MovedType
          <5> QED
            BY <2>2, <5>1, <5>2 DEF ShownInv, StillSo
        <4> QED
          BY <4>1, <4>2, <4>3, <4>4 DEF View
      <3> QED
        BY <3>1, <3>2
    <2>5. StillSo(v)'
      BY <2>2, <2>4, StaysSo
    <2> QED
      BY <2>5 DEF StillSo
  <1> QED
    BY <1>1, <1>2


-----------------------------------------------------------------------------
(* Where rows stand in a list. *)

\* A finite set of lots.
Lots(S) == IsFiniteSet(S) /\ S \subseteq Nat

Above(l, S) == {m \in S : Before(m, l)}

LEMMA RankType ==
  ASSUME NEW S, Lots(S), NEW l
  PROVE  /\ Rank(l, S) = Cardinality(Above(l, S)) /\ Rank(l, S) \in Nat
         /\ IsFiniteSet(Above(l, S)) /\ Above(l, S) \in SUBSET S
  <1>1. Above(l, S) \in SUBSET S
    BY DEF Above
  <1>2. IsFiniteSet(Above(l, S))
    BY <1>1, FS_Subset DEF Lots
  <1>3. Rank(l, S) = Cardinality(Above(l, S))
    BY DEF Rank, Above
  <1> QED
    BY <1>1, <1>2, <1>3, FS_CardinalityType

\* New rows only push a row down.
LEMMA RankMono ==
  ASSUME NEW T, Lots(T), NEW S \in SUBSET T, NEW l
  PROVE  Lots(S) /\ Rank(l, S) <= Rank(l, T)
  <1>1. Lots(S)
    BY FS_Subset DEF Lots
  <1>2. Above(l, S) \in SUBSET Above(l, T)
    BY DEF Above
  <1>3. Cardinality(Above(l, S)) <= Cardinality(Above(l, T))
    BY <1>2, RankType, FS_Subset
  <1> QED
    BY <1>1, <1>3, RankType

\* No two rows stand in the same place.
LEMMA RankStrict ==
  ASSUME NEW S, Lots(S), NEW m \in S, NEW n \in S, m > n
  PROVE  Rank(m, S) < Rank(n, S)
  <1>1. Above(m, S) \in SUBSET Above(n, S) /\ m \in Above(n, S) /\ m \notin Above(m, S)
    <2>1. m \in Nat /\ n \in Nat /\ \A x \in S : x \in Nat
      BY DEF Lots
    <2>2. \A x \in S : x > m => x > n
      BY <2>1
    <2>3. ~(m > m)
      BY <2>1
    <2> QED
      BY <2>2, <2>3 DEF Above, Before
  <1>2. Above(m, S) # Above(n, S)
    BY <1>1
  <1>3. /\ Cardinality(Above(m, S)) <= Cardinality(Above(n, S))
        /\ Cardinality(Above(m, S)) # Cardinality(Above(n, S))
    BY <1>1, <1>2, RankType, FS_Subset
  <1> QED
    BY <1>3, RankType

LEMMA RankInjective ==
  ASSUME NEW S, Lots(S), NEW m \in S, NEW n \in S, Rank(m, S) = Rank(n, S)
  PROVE  m = n
  <1>1. m \in Nat /\ n \in Nat /\ Rank(m, S) \in Nat
    BY RankType DEF Lots
  <1>2. ~(m > n) /\ ~(n > m)
    BY <1>1, RankStrict
  <1> QED
    BY <1>1, <1>2

\* Every place of the list is taken.
LEMMA RankHit ==
  ASSUME NEW S, Lots(S), NEW k \in Nat, k < Cardinality(S)
  PROVE  \E m \in S : Rank(m, S) = k
  <1> DEFINE n == Cardinality(S)
             T == 0..(n - 1)
             f == [m \in S |-> Rank(m, S)]
  <1>1. n \in Nat /\ n > 0
    BY FS_CardinalityType DEF Lots
  <1>2. IsFiniteSet(T) /\ Cardinality(T) = n
    <2>1. n - 1 \in Int /\ 0 \in Int /\ ~(0 > n - 1)
      BY <1>1
    <2>2. IsFiniteSet(T) /\ Cardinality(T) = (n - 1) - 0 + 1
      BY <2>1, FS_Interval, Zenon
    <2> QED
      BY <1>1, <2>2
  <1>3. ASSUME NEW m \in S PROVE Rank(m, S) \in T
    <2>1. Above(m, S) \in SUBSET S /\ m \notin Above(m, S)
      BY DEF Above, Before, Lots
    <2>2. Above(m, S) # S
      BY <2>1
    <2>3. Cardinality(Above(m, S)) <= n /\ Cardinality(Above(m, S)) # n
      BY <2>1, <2>2, FS_Subset DEF Lots
    <2> QED
      BY <1>1, <2>3, RankType
  <1>4. f \in [S -> T] /\ \A x, y \in S : f[x] = f[y] => x = y
    BY <1>3, RankInjective
  <1>5. f \in Injection(S, T)
    BY <1>4 DEF Injection, IsInjective
  <1>6. f \in Surjection(S, T)
    BY <1>2, <1>5, FS_Injection
  <1>7. k \in T
    BY <1>1
  <1>8. PICK m \in S : f[m] = k
    BY <1>6, <1>7 DEF Surjection
  <1> QED
    BY <1>8

\* A page with rows after it is full.
LEMMA FullPage ==
  ASSUME NEW S, Lots(S), NEW l \in S, NEW offset \in Nat, NEW limit \in Nat \ {0},
         Rank(l, S) >= offset + limit
  PROVE  Cardinality({m \in S : Rank(m, S) \in offset..(offset + limit - 1)}) >= limit
  <1> DEFINE page == {m \in S : Rank(m, S) \in offset..(offset + limit - 1)}
             W == offset..(offset + limit - 1)
             f == [k \in W |-> CHOOSE m \in S : Rank(m, S) = k]
  <1>1. IsFiniteSet(W) /\ Cardinality(W) = limit
    BY FS_Interval
  <1>2. ASSUME NEW k \in W PROVE k \in Nat /\ k < Cardinality(S)
    <2>1. Rank(l, S) \in Nat /\ Cardinality(Above(l, S)) <= Cardinality(S)
      BY RankType, FS_Subset DEF Lots
    <2>2. Cardinality(S) \in Nat /\ Rank(l, S) <= Cardinality(S)
      BY <2>1, RankType, FS_CardinalityType DEF Lots
    <2> QED
      BY <2>1, <2>2
  <1>3. \A k \in W : f[k] \in S /\ Rank(f[k], S) = k
    <2>1. ASSUME NEW k \in W PROVE \E m \in S : Rank(m, S) = k
      BY <1>2, RankHit
    <2> QED
      BY <2>1
  <1> HIDE DEF f
  <1>4. f \in [W -> page]
    <2>1. DOMAIN f = W /\ f = [k \in W |-> f[k]]
      BY DEF f
    <2>2. \A k \in W : f[k] \in page
      BY <1>3
    <2> QED
      BY <2>1, <2>2
  <1>5. \A x, y \in W : f[x] = f[y] => x = y
    BY <1>3
  <1>6. f \in Injection(W, page)
    BY <1>4, <1>5 DEF Injection, IsInjective
  <1>7. IsFiniteSet(page)
    BY FS_Subset DEF Lots
  <1>8. Cardinality(W) <= Cardinality(page)
    BY <1>6, <1>7, FS_Injection
  <1> QED
    BY <1>1, <1>8

\* A row that goes lets the rows below it move up by one.
LEMMA RankGone ==
  ASSUME NEW S, Lots(S), NEW c \in S, NEW l
  PROVE  Rank(l, S \ {c}) = IF Before(c, l) THEN Rank(l, S) - 1 ELSE Rank(l, S)
  <1>1. Above(l, S \ {c}) = Above(l, S) \ {c}
    BY DEF Above
  <1>2. c \in Above(l, S) <=> Before(c, l)
    BY DEF Above
  <1>3. Lots(S \ {c})
    BY RankMono
  <1>4. /\ IsFiniteSet(Above(l, S)) /\ Rank(l, S) = Cardinality(Above(l, S))
        /\ Rank(l, S \ {c}) = Cardinality(Above(l, S \ {c}))
    BY <1>3, RankType
  <1>5. Cardinality(Above(l, S) \ {c}) = IF c \in Above(l, S) THEN Cardinality(Above(l, S)) - 1
                                                             ELSE Cardinality(Above(l, S))
    BY <1>4, FS_RemoveElement, Zenon
  <1> QED
    BY <1>1, <1>2, <1>4, <1>5


-----------------------------------------------------------------------------
(* Walks. *)

\* New rows cost a walk nothing.
LEMMA LostGrow ==
  ASSUME NEW T, Lots(T), NEW S \in SUBSET T, NEW U, NEW offset \in Nat
  PROVE  LostIn(U, T, offset) \subseteq LostIn(U, S, offset)
  <1> SUFFICES ASSUME NEW l \in LostIn(U, T, offset)
               PROVE  l \in LostIn(U, S, offset)
    OBVIOUS
  <1>1. l \in U /\ (l \notin T \/ Rank(l, T) < offset)
    BY DEF LostIn
  <1>2. Rank(l, S) <= Rank(l, T) /\ Rank(l, S) \in Nat /\ Rank(l, T) \in Nat
    BY RankMono, RankType
  <1>3. Rank(l, T) < offset => Rank(l, S) < offset
    BY <1>2
  <1> QED
    BY <1>1, <1>3 DEF LostIn

\* A row that goes costs a walk at most one row.
LEMMA LostOne ==
  ASSUME NEW S, Lots(S), NEW c \in S, NEW U, NEW offset \in Nat
  PROVE  \E x : LostIn(U, S \ {c}, offset) \subseteq LostIn(U, S, offset) \cup {x}
  <1>1. ASSUME NEW l \in LostIn(U, S \ {c}, offset), l # c, l \notin LostIn(U, S, offset)
        PROVE  l \in S /\ Before(c, l) /\ Rank(l, S) = offset
    <2>1. l \in U /\ l \in S /\ ~(Rank(l, S) < offset) /\ Rank(l, S \ {c}) < offset
      BY <1>1 DEF LostIn
    <2>2. Rank(l, S \ {c}) = IF Before(c, l) THEN Rank(l, S) - 1 ELSE Rank(l, S)
      BY RankGone
    <2>3. Rank(l, S) \in Nat
      BY RankType
    <2> QED
      BY <2>1, <2>2, <2>3
  <1>2. Rank(c, S) \in Nat
    BY RankType
  <1>3. CASE Rank(c, S) < offset
    <2> DEFINE x == CHOOSE x \in S : Rank(x, S) = offset
    <2>1. c \in U => c \in LostIn(U, S, offset)
      BY <1>3 DEF LostIn
    <2>2. ASSUME NEW l \in LostIn(U, S \ {c}, offset), l \notin LostIn(U, S, offset)
          PROVE  l = x
      <3>1. l # c
        BY <2>1, <2>2 DEF LostIn
      <3>2. l \in S /\ Rank(l, S) = offset
        BY <1>1, <2>2, <3>1
      <3>3. x \in S /\ Rank(x, S) = offset
        BY <3>2
      <3> QED
        BY <3>2, <3>3, RankInjective
    <2> QED
      BY <2>2
  <1>4. CASE ~(Rank(c, S) < offset)
    <2>1. ASSUME NEW l \in LostIn(U, S \ {c}, offset), l \notin LostIn(U, S, offset), l # c
          PROVE  FALSE
      <3>1. l \in S /\ Before(c, l) /\ Rank(l, S) = offset
        BY <1>1, <2>1
      <3>2. c > l
        BY <3>1 DEF Before
      <3>3. Rank(c, S) < Rank(l, S)
        BY <3>1, <3>2, RankStrict
      <3> QED
        BY <1>2, <1>4, <3>1, <3>3
    <2> QED
      BY <2>1
  <1> QED
    BY <1>3, <1>4

\* The rows of a list are finitely many.
LEMMA RowsFinite ==
  ASSUME NEW t \in Tables, NEW f
  PROVE  Lots(Matching(t, f)) /\ Matching(t, f) \in SUBSET Ids
  <1>1. Matching(t, f) \in SUBSET Ids
    BY TableShape DEF Matching
  <1> QED
    BY <1>1, Constants, FS_Subset DEF Lots

\* The sets a walk is about are finite.
LEMMA WalkSets ==
  ASSUME TypeInv, NEW w \in Listing
  PROVE  /\ Lots(Matching(lots, w.filter)) /\ Unseen(w) \subseteq Ids
         /\ IsFiniteSet(Unseen(w)) /\ Cardinality(Unseen(w)) \in Nat
         /\ IsFiniteSet(Lost(w)) /\ Cardinality(Lost(w)) \in Nat /\ Lost(w) \in SUBSET Unseen(w)
         /\ IsFiniteSet(ClosedSince(w)) /\ Cardinality(ClosedSince(w)) \in Nat
         /\ Allowed(w) \in Nat
         /\ w.filter \in Filters /\ w.offset \in Nat /\ w.limit \in Asked
  <1>1. IsFiniteSet(Ids) /\ Ids \subseteq Nat
    BY Constants
  <1>2. \A f : Matching(lots, f) \in SUBSET Ids /\ Lots(Matching(lots, f))
    BY RowsFinite DEF TypeInv
  <1>4. w.start \in Tables /\ w.filter \in Filters /\ w.offset \in Nat /\ w.limit \in Asked
    BY DEF Listing
  <1>5. Unseen(w) \in SUBSET Ids
    BY <1>4, TableShape DEF Unseen, Matching
  <1>6. IsFiniteSet(Unseen(w)) /\ Cardinality(Unseen(w)) \in Nat
    BY <1>1, <1>5, FS_Subset, FS_CardinalityType
  <1>7. Lost(w) \in SUBSET Unseen(w)
    BY DEF Lost, LostIn
  <1>8. IsFiniteSet(Lost(w)) /\ Cardinality(Lost(w)) \in Nat
    BY <1>6, <1>7, FS_Subset, FS_CardinalityType
  <1>9. ClosedSince(w) \in SUBSET Ids
    BY <1>2 DEF ClosedSince
  <1>10. IsFiniteSet(ClosedSince(w)) /\ Cardinality(ClosedSince(w)) \in Nat
    BY <1>1, <1>9, FS_Subset, FS_CardinalityType
  <1>11. Allowed(w) \in Nat
    BY <1>10 DEF Allowed
  <1> QED
    BY <1>2, <1>4, <1>5, <1>6, <1>7, <1>8, <1>10, <1>11


\* What a step does to the rows that match.
LEMMA MatchingStep ==
  ASSUME IInv, TypeInv', NEW r \in Requests, Step(r) \/ Fail(r), NEW f \in Filters
  PROVE  \/ Matching(lots, f) \subseteq Matching(lots', f)
         \/ /\ f = "active"
            /\ \E c \in Matching(lots, f) :
                 /\ Matching(lots', f) = Matching(lots, f) \ {c}
                 /\ Matching(lots', "closed") = Matching(lots, "closed") \cup {c}
  <1>1. Quiet \/ BidsGrow(r) \/ Closes(r) \/ LotsGrow(r)
    BY TablesStep DEF IInv
  <1>2. CASE Quiet \/ BidsGrow(r)
    BY <1>2 DEF Quiet, BidsGrow
  <1>3. CASE LotsGrow(r)
    BY <1>3 DEF LotsGrow, Matching
  <1>4. CASE Closes(r)
    <2>1. request[r].lot \in DOMAIN lots
      BY <1>4 DEF IInv, StampInv, Closes, At, HasLot
    <2> PICK c \in DOMAIN lots : c = request[r].lot
      BY <2>1
    <2> DEFINE e == [status |-> "closed", winner |-> request[r].winner]
    <2>2. lots' = [lots EXCEPT ![c] = e] /\ lots[c].status = "active" /\ e.status = "closed"
      BY <1>4 DEF Closes, SameVersion
    <2> HIDE DEF e
    <2>3. DOMAIN lots' = DOMAIN lots /\ lots'[c].status = "closed"
          /\ \A l \in DOMAIN lots \ {c} : lots'[l] = lots[l]
      BY <2>2
    <2>4. CASE f = "all"
      BY <2>3, <2>4 DEF Matching
    <2>5. CASE f = "closed"
      BY <2>2, <2>3, <2>5 DEF Matching
    <2>6. CASE f = "active"
      <3>1. Matching(lots', f) = Matching(lots, f) \ {c} /\ c \in Matching(lots, f)
        BY <2>2, <2>3, <2>6 DEF Matching
      <3>2. Matching(lots', "closed") = Matching(lots, "closed") \cup {c}
        BY <2>2, <2>3 DEF Matching
      <3> QED
        BY <2>6, <3>1, <3>2
    <2> QED
      BY <2>4, <2>5, <2>6 DEF Filters
  <1> QED
    BY <1>1, <1>2, <1>3, <1>4

\* Closed rows stay closed.
LEMMA ClosedGrow ==
  ASSUME TypeInv, Grows
  PROVE  Matching(lots, "closed") \subseteq Matching(lots', "closed")
  BY DEF Grows, Matching

\* A step of somebody else leaves a walk on its way.
LEMMA StaysOnItsWay ==
  ASSUME IInv, TypeInv', NEW r \in Requests, Step(r) \/ Fail(r), NEW w \in Listing, OnItsWay(w)
  PROVE  OnItsWay(w)'
  <1>1. TypeInv /\ Grows
    BY GrowsStep DEF IInv
  <1>2. DOMAIN w.start \subseteq DOMAIN lots'
    BY <1>1 DEF OnItsWay, Grows
  <1>3. Matching(w.start, "closed") \subseteq Matching(lots', "closed")
    BY <1>1, ClosedGrow DEF OnItsWay
  <1> DEFINE old == ClosedSince(w)
             new == Matching(lots', "closed") \ Matching(w.start, "closed")
  <1>4. /\ new = ClosedSince(w)' /\ Unseen(w)' = Unseen(w)
        /\ Lost(w)' = LostIn(Unseen(w), Matching(lots', w.filter), w.offset)
        /\ Allowed(w)' = IF w.filter = "active" THEN Cardinality(new) ELSE 0
    BY DEF ClosedSince, Unseen, Lost, Allowed
  <1>5. Lots(Matching(lots', w.filter)) /\ Lots(Matching(lots', "closed"))
    BY RowsFinite DEF TypeInv
  <1>6. IsFiniteSet(new) /\ Cardinality(new) \in Nat
    BY <1>5, FS_Subset, FS_CardinalityType DEF Lots
  <1>7. old \in SUBSET new
    BY <1>1, ClosedGrow DEF ClosedSince
  <1>8. Cardinality(old) <= Cardinality(new) /\ Cardinality(old) \in Nat
    BY <1>1, <1>6, <1>7, FS_Subset, WalkSets
  <1>9. Allowed(w) <= Allowed(w)' /\ Allowed(w) \in Nat /\ Allowed(w)' \in Nat
    BY <1>1, <1>4, <1>6, <1>8, WalkSets DEF Allowed
  <1>10. /\ w.filter \in Filters /\ w.offset \in Nat /\ IsFiniteSet(Unseen(w))
         /\ Cardinality(Unseen(w)) \in Nat /\ IsFiniteSet(Lost(w)) /\ Cardinality(Lost(w)) \in Nat
         /\ Lots(Matching(lots, w.filter))
    BY <1>1, WalkSets
  <1>11. CASE w.stage = "done"
    <2>1. Cardinality(Unseen(w)) <= Allowed(w)'
      BY <1>9, <1>10, <1>11 DEF OnItsWay
    <2> QED
      BY <1>2, <1>3, <1>4, <1>11, <2>1 DEF OnItsWay
  <1>12. CASE w.stage # "done"
    <2> DEFINE lost == LostIn(Unseen(w), Matching(lots', w.filter), w.offset)
    <2>1. Cardinality(Lost(w)) <= Allowed(w)
      BY <1>12 DEF OnItsWay
    <2>2. IsFiniteSet(lost) /\ Cardinality(lost) \in Nat
      <3>1. lost \in SUBSET Unseen(w)
        BY DEF LostIn
      <3> QED
        BY <1>10, <3>1, FS_Subset, FS_CardinalityType
    <2>3. Cardinality(lost) <= Allowed(w)'
      <3>1. CASE Matching(lots, w.filter) \subseteq Matching(lots', w.filter)
        <4>1. lost \in SUBSET Lost(w)
          BY <1>5, <1>10, <3>1, LostGrow DEF Lost
        <4>2. Cardinality(lost) <= Cardinality(Lost(w))
          BY <1>10, <4>1, FS_Subset
        <4> QED
          BY <1>9, <1>10, <2>1, <2>2, <4>2
      <3>2. ASSUME w.filter = "active", NEW c \in Matching(lots, w.filter),
                   Matching(lots', w.filter) = Matching(lots, w.filter) \ {c},
                   Matching(lots', "closed") = Matching(lots, "closed") \cup {c}
            PROVE  Cardinality(lost) <= Allowed(w)'
        <4>1. PICK x : lost \subseteq Lost(w) \cup {x}
          BY <1>10, <3>2, LostOne DEF Lost
        <4>2. /\ IsFiniteSet(Lost(w) \cup {x})
              /\ Cardinality(Lost(w) \cup {x}) = IF x \in Lost(w) THEN Cardinality(Lost(w))
                                                 ELSE Cardinality(Lost(w)) + 1
          BY <1>10, FS_AddElement, Zenon
        <4>3. Cardinality(lost) <= Cardinality(Lost(w) \cup {x})
          BY <4>1, <4>2, FS_Subset
        <4>4. Cardinality(lost) <= Cardinality(Lost(w)) + 1
          BY <1>10, <2>2, <4>2, <4>3
        <4>5. c \in new /\ c \notin old /\ new = old \cup {c}
          BY <3>2 DEF OnItsWay, Matching, ClosedSince
        <4>6. Cardinality(new) = Cardinality(old) + 1
          <5>1. IsFiniteSet(old)
            BY <1>1, WalkSets
          <5> QED
            BY <4>5, <5>1, FS_AddElement
        <4>7. Allowed(w)' = Cardinality(new) /\ Allowed(w) = Cardinality(old)
          BY <1>4, <3>2 DEF Allowed
        <4> QED
          BY <1>8, <1>10, <2>1, <2>2, <4>4, <4>6, <4>7
      <3> QED
        BY <1>10, <3>1, <3>2, MatchingStep
    <2> QED
      BY <1>2, <1>3, <1>4, <1>12, <2>3 DEF OnItsWay
  <1> QED
    BY <1>11, <1>12


\* A page takes nothing from what the walk will still come to, and a short page
\* leaves nothing to come to.
LEMMA PageRead ==
  ASSUME IInv, NEW r \in Requests, At(r, "listing"), request[r].limit <= MaxLimit, NEW page,
         page = GetAllLots(request[r].filter, request[r].limit, request[r].offset),
         NEW v, v = Turned(request[r], page)
  PROVE  v \in Listing /\ OnItsWay(v)
  <1> DEFINE w == request[r]
             rows == Matching(lots, w.filter)
  <1>1. TypeInv /\ w \in Listing /\ w.stage = "listing"
    BY StageType DEF IInv, At
  <1>2. OnItsWay(w)
    BY <1>1 DEF IInv, WalkInv
  <1>3. /\ Lots(rows) /\ rows \in SUBSET Ids /\ w.filter \in Filters
        /\ w.offset \in Nat /\ w.limit \in Asked /\ w.seen \in SUBSET Ids
    BY <1>1, WalkSets, RowsFinite DEF TypeInv, Listing
  <1>4. w.limit \in Nat \ {0} /\ w.limit <= MaxLimit /\ MaxLimit \in Nat
    <2>1. \A n \in Asked : n \in Nat \ {0} /\ MaxLimit \in Nat
      OBVIOUS
    <2> QED
      BY <1>3, <2>1, Zenon
  <1>5. page = {l \in rows : Rank(l, rows) \in w.offset..(w.offset + w.limit - 1)}
    <2>1. (IF w.limit > MaxLimit THEN MaxLimit ELSE w.limit) = w.limit
      BY <1>4
    <2> QED
      BY <2>1 DEF GetAllLots
  <1>6. /\ v.filter = w.filter /\ v.limit = w.limit /\ v.start = w.start
        /\ v.seen = w.seen \cup page /\ v.offset = w.offset + w.limit
        /\ v.stage = IF Cardinality(page) < w.limit THEN "done" ELSE "turning"
    BY <1>1 DEF Turned, Listing
  <1>7. v \in Listing
    <2>1. w.offset + w.limit \in Nat /\ w.seen \cup page \in SUBSET Ids
      BY <1>3, <1>4, <1>5
    <2> QED
      BY <1>1, <2>1 DEF Turned, Listing
  <1> HIDE DEF w
  <1>8. Unseen(v) = Unseen(w) \ page
    BY <1>6 DEF Unseen
  <1>9. \A l \in rows : Rank(l, rows) \in Nat
    BY <1>3, RankType
  <1>10. \A l \in rows : Rank(l, rows) < w.offset + w.limit =>
           Rank(l, rows) < w.offset \/ l \in page
    BY <1>3, <1>4, <1>5, <1>9
  <1>11. Lost(v) \subseteq Lost(w)
    BY <1>6, <1>8, <1>10 DEF Lost, LostIn
  <1>12. v.stage = "done" => Unseen(v) \subseteq Lost(w)
    <2> SUFFICES ASSUME v.stage = "done", NEW l \in Unseen(v)
                 PROVE  l \in Lost(w)
      OBVIOUS
    <2>1. l \in Unseen(w) /\ l \notin page
      BY <1>8
    <2>2. CASE l \notin rows
      BY <2>1, <2>2 DEF Lost, LostIn
    <2>3. CASE l \in rows /\ Rank(l, rows) < w.offset
      BY <2>1, <2>3 DEF Lost, LostIn
    <2>4. CASE l \in rows /\ ~(Rank(l, rows) < w.offset + w.limit)
      <3>1. Rank(l, rows) >= w.offset + w.limit
        BY <1>3, <1>4, <1>9, <2>4
      <3>2. Cardinality(page) >= w.limit
        BY <1>3, <1>4, <1>5, <2>4, <3>1, FullPage
      <3>3. Cardinality(page) < w.limit
        BY <1>6
      <3>4. Cardinality(page) \in Nat
        BY <1>3, <1>5, FS_Subset, FS_CardinalityType DEF Lots
      <3> QED
        BY <1>4, <3>2, <3>3, <3>4
    <2> QED
      BY <1>10, <2>1, <2>2, <2>3, <2>4
  <1>13. /\ Allowed(v) = Allowed(w) /\ Allowed(w) \in Nat
         /\ IsFiniteSet(Lost(w)) /\ Cardinality(Lost(w)) \in Nat
         /\ Cardinality(Lost(w)) <= Allowed(w)
    <2>1. Allowed(v) = Allowed(w)
      BY <1>6 DEF Allowed, ClosedSince
    <2> QED
      BY <1>1, <1>2, <2>1, WalkSets DEF OnItsWay
  <1>14. \A S \in SUBSET Lost(w) : Cardinality(S) <= Allowed(w)
    <2> SUFFICES ASSUME NEW S \in SUBSET Lost(w) PROVE Cardinality(S) <= Allowed(w)
      OBVIOUS
    <2>1. Cardinality(S) <= Cardinality(Lost(w)) /\ Cardinality(S) \in Nat
      BY <1>13, FS_Subset, FS_CardinalityType
    <2> QED
      BY <1>13, <2>1
  <1>15. Cardinality(IF v.stage = "done" THEN Unseen(v) ELSE Lost(v)) <= Allowed(v)
    BY <1>11, <1>12, <1>13, <1>14
  <1> QED
    BY <1>2, <1>6, <1>7, <1>15 DEF OnItsWay

\* A walk misses no more than lots that close make it miss.
LEMMA WalkStep ==
  ASSUME IInv, [Next]_vars
  PROVE  WalkInv'
  <1>1. CASE UNCHANGED vars
    <2> SUFFICES ASSUME NEW q \in Requests, request'[q] \in Listing,
                        request'[q].limit <= MaxLimit
                 PROVE  OnItsWay(request[q])'
      BY DEF WalkInv, Listing, Tables
    <2>1. request' = request /\ lots' = lots
      BY <1>1 DEF vars
    <2>2. OnItsWay(request[q])
      BY <2>1 DEF IInv, WalkInv
    <2> QED
      BY <2>1, <2>2 DEF OnItsWay, Unseen, Lost, LostIn, ClosedSince, Allowed, Matching, Rank
  <1>2. CASE Next
    <2>1. PICK r \in Requests : Step(r) \/ Fail(r)
      BY <1>2 DEF Next
    <2>2. TypeInv /\ StampInv /\ WalkInv /\ TypeInv' /\ Others(r)
      BY <2>1, TypeStep, PoolTurns DEF IInv
    <2>3. SUFFICES ASSUME NEW q \in Requests, request'[q] \in Listing,
                        request'[q].limit <= MaxLimit
                   PROVE  OnItsWay(request[q])'
      BY DEF WalkInv, Listing, Tables
    <2> PICK w \in Listing : w = request'[q]
      BY <2>3
    <2>4. OnItsWay(w)
      <3>1. CASE q # r
        <4>1. w = request[q]
          BY <2>2, <3>1 DEF Others
        <4> QED
          BY <2>2, <2>3, <4>1 DEF WalkInv
      <3>2. CASE q = r
        <4>1. Walk(r) /\ w = request'[r]
          BY <2>1, <2>2, <2>3, <3>2, OnlyOwn
        <4>2. CASE StartWalk(r)
          <5>1. PICK filter \in Filters, limit \in Asked :
                  Enter(r, [stage |-> "listing", filter |-> filter, limit |-> limit,
                            offset |-> 0, seen |-> {}, start |-> lots])
            BY <4>2 DEF StartWalk
          <5>2. w = [stage |-> "listing", filter |-> filter, limit |-> limit,
                     offset |-> 0, seen |-> {}, start |-> lots]
            BY <2>2, <4>1, <5>1, Entered
          <5>3. w.stage # "done" /\ w.start = lots /\ w.offset = 0 /\ w.filter = filter
            BY <5>2
          <5>4. \A l : Rank(l, Matching(lots, filter)) \in Nat
            BY <2>2, RowsFinite, RankType DEF TypeInv
          <5>5. Lost(w) = {}
            BY <5>3, <5>4 DEF Lost, LostIn, Unseen
          <5>6. Cardinality(Lost(w)) <= Allowed(w)
            BY <2>2, <5>5, FS_EmptySet, WalkSets
          <5> QED
            BY <5>3, <5>6 DEF OnItsWay
        <4>3. CASE ListLots(r)
          <5>1. PICK page : page = GetAllLots(request[r].filter, request[r].limit,
                                              request[r].offset)
            OBVIOUS
          <5>2. Enter(r, Turned(request[r], page)) /\ At(r, "listing")
            BY <4>3, <5>1 DEF ListLots, Turned
          <5>3. w = Turned(request[r], page)
            BY <2>2, <4>1, <5>2, Entered
          <5>4. request[r] \in Listing
            BY <2>2, <5>2, StageType DEF At
          <5>5. w.limit = request[r].limit
            BY <5>3, <5>4 DEF Turned, Listing
          <5> QED
            BY <2>3, <5>1, <5>2, <5>3, <5>5, PageRead
        <4>4. CASE Begin(r, "turning", "listing")
          <5>1. request[r] \in Listing /\ Move(r, "listing") /\ request[r].stage = "turning"
            BY <2>2, <4>4, StageType DEF Begin, At
          <5>2. /\ w.filter = request[r].filter /\ w.limit = request[r].limit
                /\ w.offset = request[r].offset
                /\ w.seen = request[r].seen /\ w.start = request[r].start
            BY <2>2, <4>1, <5>1, MovedType
          <5>4. w.stage = "listing"
            BY <2>2, <4>1, <5>1, Moved
          <5>3. OnItsWay(request[r])
            BY <2>2, <2>3, <5>1, <5>2 DEF WalkInv
          <5> QED
            BY <5>1, <5>2, <5>3, <5>4 DEF OnItsWay, Lost, Unseen, Allowed, ClosedSince
        <4> QED
          BY <4>1, <4>2, <4>3, <4>4 DEF Walk
      <3> QED
        BY <3>1, <3>2
    <2>5. OnItsWay(w)'
      BY <2>1, <2>2, <2>4, StaysOnItsWay
    <2> QED
      BY <2>5 DEF OnItsWay, Unseen, Lost, LostIn, ClosedSince, Allowed, Matching, Rank
  <1> QED
    BY <1>1, <1>2


-----------------------------------------------------------------------------
(* The theorems. *)

\* At first nobody has done anything.
LEMMA InvInit == Init => IInv
  <1> SUFFICES ASSUME Init PROVE IInv
    OBVIOUS
  <1>1. New \in Plain /\ New.stage = "new" /\ New \in Short
    BY DEF New, Plain, Short
  <1>2. \A r \in Requests : request[r] = New
    BY DEF Init
  <1>3. TypeInv
    <2>1. [status |-> "active", winner |-> None] \in Row
      BY DEF Row, Status
    <2>2. 1..Existing \subseteq Ids
      BY Constants DEF Ids
    <2>3. lots \in [1..Existing -> Row]
      BY <2>1 DEF Init
    <2>4. lots \in Tables
      BY <2>2, <2>3 DEF Tables
    <2>5. bids \in [Ids -> Seq(Bidders)] /\ locked \in [Ids -> Bidders \cup {None}]
      BY DEF Init
    <2>6. request \in [Requests -> Entry]
      BY <1>1 DEF Init, Entry
    <2> QED
      BY <2>4, <2>5, <2>6 DEF Init, TypeInv
  <1>4. StampInv
    <2>1. NotYet \in SUBSET Creators
      BY DEF NotYet
    <2>2. Cardinality(NotYet) <= Cardinality(Creators) /\ Cardinality(NotYet) \in Nat
      BY <2>1, Constants, FS_Subset, FS_CardinalityType
    <2>3. stamp + Cardinality(NotYet) <= Cardinality(Ids)
      BY <2>2, Constants DEF Init
    <2> QED
      BY <1>1, <1>2, <2>3 DEF StampInv, Init, At, HasLot
  <1>5. PoolInv
    BY <1>1, <1>2, FS_EmptySet DEF PoolInv, Init, Using
  <1>6. LockInv
    BY <1>1, <1>2 DEF LockInv, Init, Locking
  <1>7. WinnerInv
    BY <1>1, <1>2 DEF WinnerInv, Init
  <1>8. ShownInv /\ WalkInv
    BY <1>1, <1>2, Disjoint DEF ShownInv, WalkInv
  <1> QED
    BY <1>3, <1>4, <1>5, <1>6, <1>7, <1>8 DEF IInv

\* The invariant always holds.
LEMMA Invariant == Spec => []IInv
  <1>1. IInv /\ [Next]_vars => IInv'
    BY TypeStep, StampStep, PoolStep, LockStep, WinnerStep, ShownStep, WalkStep DEF IInv
  <1> QED
    BY <1>1, InvInit, PTL DEF Spec

\* Every variable keeps its type and no more connections are in use than the pool
\* has, whatever fails and whoever waits.
THEOREM RepositoryTypes == Spec => []TypeOK
  <1>1. IInv => TypeOK
    <2> SUFFICES ASSUME IInv PROVE TypeOK
      OBVIOUS
    <2>1. /\ DOMAIN lots \subseteq 1..stamp /\ stamp \in Nat
          /\ stamp + Cardinality(NotYet) <= Cardinality(Ids)
      BY DEF IInv, StampInv, TypeInv
    <2>2. Cardinality(NotYet) \in Nat /\ Cardinality(Ids) \in Nat
      BY Constants, FS_Subset, FS_CardinalityType DEF NotYet
    <2>3. stamp <= Cardinality(Ids)
      BY <2>1, <2>2
    <2>4. \A l \in DOMAIN lots :
            lots[l].status \in {"active", "closed"} /\ lots[l].winner \in Bidders \cup {None}
      <3>1. lots \in [DOMAIN lots -> Row]
        BY TableShape DEF IInv, TypeInv
      <3>2. \A l \in DOMAIN lots : lots[l] \in Row
        BY <3>1
      <3> QED
        BY <3>2 DEF Row, Status
    <2> QED
      BY <2>1, <2>3, <2>4 DEF TypeOK, IInv, TypeInv, PoolInv
  <1> QED
    BY <1>1, Invariant, PTL

\* A request that has its answer keeps neither a connection nor a row lock,
\* whatever failed on the way and however full the pool was.
THEOREM NothingKept == Spec => []NothingLeftHeld
  <1>1. IInv => NothingLeftHeld
    <2> SUFFICES ASSUME IInv PROVE NothingLeftHeld
      OBVIOUS
    <2>1. \A r \in conns : ~Done(r)
      BY DEF IInv, PoolInv, Using, Done, At
    <2>2. ASSUME NEW l \in Ids, locked[l] # None
          PROVE  ~Done(locked[l]) /\ locked[l] \in conns
      <3>1. request[locked[l]].stage \in Locking /\ locked[l] \in Requests
        BY <2>2 DEF IInv, LockInv, TypeInv, Requests
      <3> QED
        BY <3>1 DEF IInv, PoolInv, Locking, Using, Done, At
    <2> QED
      BY <2>1, <2>2 DEF NothingLeftHeld
  <1> QED
    BY <1>1, Invariant, PTL

\* The money a profile shows as spent is what the user bid himself, lot by lot,
\* for any number of bids, closers and failures.
THEOREM SpentIsOwn == Spec => []SpentIsOwnBids
  <1>1. IInv => SpentIsOwnBids
    <2> SUFFICES ASSUME IInv, NEW r \in Viewers, "shown" \in DOMAIN request[r],
                        NEW l \in request[r].shown.wins
                 PROVE  /\ request[r].shown.spent[l] \in BidsOf(request[r].user, l)
                        /\ \A i \in BidsOf(request[r].user, l) : i <= request[r].shown.spent[l]
      BY DEF SpentIsOwnBids
    <2> DEFINE v == request[r]
    <2>1. v \in Viewing
      <3>1. v \in Entry
        BY DEF IInv, TypeInv, Requests
      <3> QED
        BY <3>1 DEF Entry, Short, Plain, OnLot, Opened, Ranked, Listing
    <2>2. StillSo(v) /\ v.user \in Bidders
      BY <2>1 DEF IInv, ShownInv, Requests, Viewing
    <2>3. l \in DOMAIN lots /\ lots[l].winner = v.user /\ v.shown.spent[l] = Price(l)
      BY <2>2 DEF StillSo, Won
    <2>4. l \in Ids /\ TypeInv /\ v.user # None
      BY <2>2, <2>3, TableShape DEF IInv, TypeInv, Requests
    <2>5. Highest(l) = v.user
      BY <2>3, <2>4 DEF IInv, WinnerInv
    <2>6. Price(l) > 0 /\ bids[l][Price(l)] = v.user
      BY <2>4, <2>5, PriceType DEF Highest
    <2>7. bids[l] \in Seq(Bidders)
      BY <2>4 DEF TypeInv
    <2> QED
      BY <2>3, <2>6, <2>7 DEF BidsOf, Price
  <1> QED
    BY <1>1, Invariant, PTL

\* Whoever pages through the list, MaxLimit rows at a time or fewer, misses no
\* lot; among the active ones no more than were closed on the way, for any list,
\* page and order of events.
THEOREM NothingMissed == Spec => []WalkMissesNothing
  <1>1. IInv => WalkMissesNothing
    <2> SUFFICES ASSUME IInv, NEW r \in Walkers, Done(r), "seen" \in DOMAIN request[r],
                        request[r].limit <= MaxLimit
                 PROVE  LET w == request[r]
                            missed == Matching(w.start, w.filter) \ w.seen
                            closed == Matching(lots, "closed") \ Matching(w.start, "closed")
                        IN  Cardinality(missed) <=
                              IF w.filter = "active" THEN Cardinality(closed) ELSE 0
      BY DEF WalkMissesNothing
    <2> DEFINE w == request[r]
    <2>1. w \in Listing
      <3>1. w \in Entry
        BY DEF IInv, TypeInv, Requests
      <3> QED
        BY <3>1 DEF Entry, Short, Plain, OnLot, Opened, Ranked, Viewing
    <2>2. OnItsWay(w) /\ w.stage = "done"
      BY <2>1 DEF IInv, WalkInv, Requests, Done, At
    <2> QED
      BY <2>2 DEF OnItsWay, Unseen, Allowed, ClosedSince
  <1> QED
    BY <1>1, Invariant, PTL

\* Seen again, a profile counts all it counted before, at the same prices,
\* whatever happens in between.
THEOREM ProfilesGrow == Spec => ProfileOnlyGrows
  <1>1. IInv /\ [Next]_vars => [ProfileGrows]_vars
    <2> SUFFICES ASSUME IInv, Next PROVE ProfileGrows
      OBVIOUS
    <2>1. PICK r \in Requests : Step(r) \/ Fail(r)
      BY DEF Next
    <2>2. TypeInv /\ StampInv /\ Others(r) /\ TypeInv'
      BY <2>1, PoolTurns, TypeStep DEF IInv
    <2> SUFFICES ASSUME NEW q \in Viewers,
                        "shown" \in DOMAIN request[q], "shown" \in DOMAIN request'[q]
                 PROVE  LET old == request[q].shown  new == request'[q].shown IN
                          /\ \A l \in Ids : old.placed[l] \subseteq new.placed[l]
                          /\ old.wins \subseteq new.wins
                          /\ \A l \in old.wins : old.spent[l] = new.spent[l]
      BY DEF ProfileGrows
    <2>3. request[q] \in Viewing /\ request'[q] \in Viewing
      <3>1. request[q] \in Entry /\ request'[q] \in Entry
        <4>1. request \in [Requests -> Entry] /\ request' \in [Requests -> Entry]
          BY <2>1, <2>2, EntryStep DEF TypeInv
        <4> QED
          BY <4>1 DEF Requests
      <3> QED
        BY <3>1 DEF Entry, Short, Plain, OnLot, Opened, Ranked, Listing
    <2>4. CASE q # r
      <3>1. request'[q] = request[q]
        BY <2>2, <2>4 DEF Others, Requests
      <3> QED
        BY <3>1
    <2>5. CASE q = r
      <3>1. View(r)
        BY <2>1, <2>2, <2>3, <2>5, OnlyOwn
      <3>2. CASE StartView(r)
        <4>1. request[r] \in Plain
          BY <2>2, <3>2, StageType DEF StartView, At
        <4> QED
          BY <2>5, <4>1 DEF Plain
      <3>3. CASE Begin(r, "shown", "viewing")
        <4>1. request'[r].shown = request[r].shown
          BY <2>2, <2>3, <2>5, <3>3, MovedType DEF Begin
        <4> QED
          BY <2>5, <4>1
      <3>4. CASE UserProfile(r)
        <4>1. Enter(r, Looked(request[r]))
          BY <3>4 DEF UserProfile, Looked
        <4>2. request'[r] = Looked(request[r])
          BY <2>2, <4>1, Entered
        <4>3. request'[r].shown = GetUserStats(request[r].user)
          BY <2>3, <2>5, <4>2 DEF Looked, Viewing
        <4>4. StillSo(request[r])
          BY <2>3, <2>5 DEF IInv, ShownInv
        <4> QED
          BY <2>5, <4>3, <4>4 DEF StillSo, GetUserStats
      <3> QED
        BY <3>1, <3>2, <3>3, <3>4 DEF View
    <2> QED
      BY <2>4, <2>5
  <1> QED
    BY <1>1, Invariant, PTL DEF Spec, ProfileOnlyGrows
=============================================================================
