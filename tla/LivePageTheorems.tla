-------------------------- MODULE LivePageTheorems --------------------------
(***************************************************************************)
(* What the pages of a lot may show, for every number of pages, replicas,  *)
(* bids and lost connections, in whatever order messages arrive.           *)
(***************************************************************************)
EXTENDS LivePage, TLAPS

USE PageAssumption

-----------------------------------------------------------------------------
(* Lists. *)

Items(s) == {s[i] : i \in DOMAIN s}

LEMMA ItemsAppend ==
  ASSUME NEW S, NEW s \in Seq(S), NEW m \in S
  PROVE  Append(s, m) \in Seq(S) /\ Items(Append(s, m)) = Items(s) \cup {m}
  <1>1. /\ Append(s, m) \in Seq(S) /\ Len(s) \in Nat /\ DOMAIN s = 1..Len(s)
        /\ DOMAIN Append(s, m) = 1..(Len(s) + 1)
        /\ Append(s, m)[Len(s) + 1] = m
        /\ \A i \in 1..Len(s) : Append(s, m)[i] = s[i]
    OBVIOUS
  <1>2. Items(Append(s, m)) \subseteq Items(s) \cup {m}
    <2>1. ASSUME NEW i \in 1..(Len(s) + 1) PROVE Append(s, m)[i] \in Items(s) \cup {m}
      <3>1. i \in 1..Len(s) \/ i = Len(s) + 1
        BY <1>1
      <3> QED
        BY <1>1, <3>1 DEF Items
    <2> QED
      BY <1>1, <2>1 DEF Items
  <1>3. Items(s) \cup {m} \subseteq Items(Append(s, m))
    <2>1. \A i \in 1..Len(s) : i \in 1..(Len(s) + 1)
      BY <1>1
    <2>2. Len(s) + 1 \in 1..(Len(s) + 1)
      BY <1>1
    <2> QED
      BY <1>1, <2>1, <2>2 DEF Items
  <1> QED
    BY <1>1, <1>2, <1>3

LEMMA ItemsHead ==
  ASSUME NEW S, NEW s \in Seq(S), s # <<>>
  PROVE  /\ Head(s) \in S /\ Tail(s) \in Seq(S)
         /\ Items(s) = {Head(s)} \cup Items(Tail(s))
         /\ Len(s) = 1 => Items(s) = {Head(s)}
         /\ Len(s) # 1 => Tail(s) # <<>>
  <1>1. /\ Head(s) = s[1] /\ Tail(s) \in Seq(S) /\ Len(s) \in Nat \ {0} /\ DOMAIN s = 1..Len(s)
        /\ Len(Tail(s)) = Len(s) - 1 /\ DOMAIN Tail(s) = 1..(Len(s) - 1)
        /\ \A i \in 1..(Len(s) - 1) : Tail(s)[i] = s[i + 1]
    OBVIOUS
  <1>2. Head(s) \in S
    OBVIOUS
  <1>3. Items(s) \subseteq {Head(s)} \cup Items(Tail(s))
    <2>1. ASSUME NEW i \in 1..Len(s), i # 1 PROVE s[i] \in Items(Tail(s))
      <3>1. i - 1 \in 1..(Len(s) - 1) /\ s[i] = s[(i - 1) + 1]
        BY <1>1, <2>1
      <3>2. s[i] = Tail(s)[i - 1]
        BY <1>1, <3>1
      <3> QED
        BY <1>1, <3>1, <3>2 DEF Items
    <2> QED
      BY <1>1, <2>1 DEF Items
  <1>4. {Head(s)} \cup Items(Tail(s)) \subseteq Items(s)
    <2>1. 1 \in 1..Len(s) /\ \A i \in 1..(Len(s) - 1) : i + 1 \in 1..Len(s)
      BY <1>1
    <2> QED
      BY <1>1, <2>1 DEF Items
  <1>5. Len(s) = 1 => Items(s) = {Head(s)}
    <2>1. Len(s) = 1 => \A i \in 1..Len(s) : i = 1
      BY <1>1
    <2> QED
      BY <1>1, <1>4, <2>1 DEF Items
  <1>6. Len(s) # 1 => Len(Tail(s)) # 0
    BY <1>1
  <1>7. Len(s) # 1 => Tail(s) # <<>>
    BY <1>6
  <1> QED
    BY <1>1, <1>2, <1>3, <1>4, <1>5, <1>7

-----------------------------------------------------------------------------
(* Types. *)

Statuses == {"active", "closed"}
Msg == [type : {"new_bid", "lot_extended", "lot_closed"}, value : Nat]
Call == [at : Replicas, bid : Nat, msgs : Seq(Msg)]

Posts == {"no", "sent", "admitted", "accepted"} \cup Refusals

\* A stamp is given to one bid at most, and is used up by it.
BidTypes ==
  /\ began \in 0..MaxBids /\ txs \subseteq 1..began /\ status \in Statuses /\ ext \in Nat
  /\ bids \in Seq(Nat) /\ \A n \in DOMAIN bids : bids[n] \in (1..began) \ txs

\* Nobody holds the row of a closed lot: the closer waited for it.
LockTypes ==
  /\ overdue \in BOOLEAN /\ unheard \in BOOLEAN /\ holder \in txs \cup {0}
  /\ unheard => holder # 0
  /\ holder # 0 => status = "active"

LotTypes == BidTypes /\ LockTypes

PageTypes ==
  /\ calls \subseteq Call /\ \A k \in calls : k.msgs # <<>>
  /\ phase \in [Pages -> {"none", "loading", "active", "closed", "error"}]
  /\ shown \in [Pages -> [price : Nat, ext : Nat, status : Statuses]]
  /\ history \in [Pages -> Seq(Nat)]
  /\ conn \in [Pages -> Replicas \cup {None}] /\ chan \in [Pages -> Seq(Msg)]
  /\ missed \in [Pages -> BOOLEAN] /\ overtaken \in [Pages -> BOOLEAN]
  /\ post \in [Pages -> Posts] /\ reason \in [Pages -> Refusals \cup {"none"}]
  /\ mine \in [Pages -> Nat] /\ offer \in [Pages -> Nat]
  /\ panel \in [Pages -> [price : Nat, status : Statuses]]

Types == LotTypes /\ PageTypes

NewBid(n)   == [type |-> "new_bid", value |-> n]
Extended(x) == [type |-> "lot_extended", value |-> x]
LotClosed   == [type |-> "lot_closed", value |-> 0]

\* What a commit sends: the bid, and the extension if there was one.
LEMMA CommitSends ==
  ASSUME NEW n \in Nat, NEW x \in Nat
  PROVE  /\ Messages(n, x) \in Seq(Msg) /\ Messages(n, x) # <<>>
         /\ Items(Messages(n, x)) = {NewBid(n)} \cup (IF x = ext THEN {} ELSE {Extended(x)})
  <1>1. NewBid(n) \in Msg /\ Extended(x) \in Msg
    BY DEF NewBid, Extended, Msg
  <1>2. CASE x = ext
    <2>1. Messages(n, x) = <<NewBid(n)>>
      BY <1>1, <1>2 DEF Messages, NewBid
    <2>2. <<NewBid(n)>> \in Seq(Msg) /\ <<NewBid(n)>> # <<>> /\ Items(<<NewBid(n)>>) = {NewBid(n)}
      BY <1>1 DEF Items
    <2> QED
      BY <1>2, <2>1, <2>2
  <1>3. CASE x # ext
    <2>1. Messages(n, x) = <<NewBid(n), Extended(x)>>
      <3>1. Messages(n, x) = <<NewBid(n)>> \o <<Extended(x)>>
        BY <1>3 DEF Messages, NewBid, Extended
      <3>2. ASSUME NEW a \in Msg, NEW b \in Msg PROVE <<a>> \o <<b>> = <<a, b>>
        <4> DEFINE u == <<a>> \o <<b>>
                   v == <<a, b>>
        <4>1. /\ u \in Seq(Msg) /\ Len(u) = 2 /\ u[1] = a /\ u[2] = b
              /\ v \in Seq(Msg) /\ Len(v) = 2 /\ v[1] = a /\ v[2] = b
          OBVIOUS
        <4> HIDE DEF u, v
        <4>2. /\ u = [i \in 1..2 |-> u[i]] /\ v = [i \in 1..2 |-> v[i]]
              /\ \A i \in 1..2 : u[i] = v[i]
          BY <4>1
        <4>3. u = v
          BY <4>2, Zenon
        <4> QED
          BY <4>3 DEF u, v
      <3> QED
        BY <1>1, <3>1, <3>2
    <2>2. /\ <<NewBid(n), Extended(x)>> \in Seq(Msg) /\ <<NewBid(n), Extended(x)>> # <<>>
          /\ Items(<<NewBid(n), Extended(x)>>) = {NewBid(n), Extended(x)}
      BY <1>1 DEF Items
    <2> QED
      BY <1>3, <2>1, <2>2
  <1> QED
    BY <1>2, <1>3

-----------------------------------------------------------------------------
(* The steps. *)

\* Connections break and broadcasts are lost.
Breaks ==
  \/ \E p \in Pages : Drop(p)
  \/ \E r \in Replicas : Restart(r)

\* The lock and the form; nothing that is recorded, sent or shown.
Quiet ==
  \/ BeginTx \/ Expire \/ LoseReply \/ Rollback \/ UNCHANGED vars
  \/ \E t \in txs : Admit(t)
  \/ \E p \in Pages :
       \/ Submit(p) \/ Fail(p) \/ Reread(p) \/ RereadFails(p) \/ Answer(p)
       \/ \E t \in txs : AdmitForm(p, t) \/ Refuse(p, t)

LEMMA StepCases ==
  ASSUME [Next]_vars
  PROVE  \/ Quiet \/ CommitUnheard \/ CloseUnheard \/ Breaks
         \/ \E r \in Replicas : Commit(r) \/ CloseLot(r)
         \/ \E k \in calls : Broadcast(k)
         \/ \E p \in Pages :
              \/ Load(p) \/ LoadFails(p) \/ Render(p) \/ Receive(p)
              \/ \E r \in Replicas : Connect(p, r)
  BY Zenon DEF Next, Quiet, Breaks, Open, Reload

LEMMA QuietFacts ==
  ASSUME Quiet
  PROVE  UNCHANGED <<bids, ext, calls, phase, shown, history, linkVars>>
  BY DEF Quiet, vars, lotVars, linkVars, BeginTx, Expire, LoseReply, Rollback, Admit, Admission,
     Submit, Fail, Reread, RereadFails, Answer, AdmitForm, Refuse

LEMMA BreakFacts ==
  ASSUME Breaks
  PROVE  \E lost \in SUBSET Pages, kept \in SUBSET calls : Disconnect(lost, kept)
  <1>1. \A p \in Pages : Drop(p) => Disconnect({p}, calls)
    BY DEF Drop
  <1>2. \A r \in Replicas :
          Restart(r) => Disconnect({p \in Pages : conn[p] = r}, {k \in calls : k.at # r})
    BY DEF Restart
  <1> QED
    BY <1>1, <1>2, Zenon DEF Breaks

\* A bid is recorded by the transaction that holds the row.
LEMMA RecordFacts ==
  ASSUME LotTypes, Record
  PROVE  /\ LotTypes' /\ holder # 0 /\ status = "active" /\ status' = status
         /\ Len(bids) \in Nat /\ Len(bids') = Len(bids) + 1
         /\ ext' \in {ext, ext + 1}
  <1>1. /\ bids \in Seq(Nat) /\ began \in 0..MaxBids /\ ext \in Nat /\ status \in Statuses
        /\ txs \subseteq 1..began /\ holder \in txs /\ status = "active"
        /\ overdue \in BOOLEAN
        /\ \A n \in DOMAIN bids : bids[n] \in (1..began) \ txs
    BY DEF LotTypes, BidTypes, LockTypes, Record
  <1>2. /\ bids' = Append(bids, holder) /\ began' = began /\ txs' = txs \ {holder}
        /\ status' = status /\ ext' \in {ext, ext + 1} /\ holder' = 0 /\ unheard' = FALSE
        /\ overdue' \in {overdue, FALSE}
    BY DEF Record
  <1>3. PICK t : t = holder /\ t \in 1..began /\ t \in Nat /\ t \in txs
    BY <1>1
  <1>4. /\ bids' \in Seq(Nat) /\ Len(bids) \in Nat /\ Len(bids') = Len(bids) + 1
        /\ DOMAIN bids = 1..Len(bids) /\ DOMAIN bids' = 1..(Len(bids) + 1)
        /\ bids'[Len(bids) + 1] = t /\ \A n \in 1..Len(bids) : bids'[n] = bids[n]
    <2>1. bids' = Append(bids, t)
      BY <1>2, <1>3
    <2> QED
      BY <1>1, <1>3, <2>1
  <1>5. ASSUME NEW n \in DOMAIN bids' PROVE bids'[n] \in (1..began) \ txs'
    <2>1. n \in 1..Len(bids) \/ n = Len(bids) + 1
      BY <1>4
    <2> QED
      BY <1>1, <1>2, <1>3, <1>4, <2>1
  <1>6. BidTypes'
    BY <1>1, <1>2, <1>4, <1>5 DEF BidTypes
  <1>7. LockTypes'
    BY <1>1, <1>2 DEF LockTypes
  <1> QED
    BY <1>1, <1>2, <1>3, <1>4, <1>6, <1>7 DEF LotTypes, Record

\* A commit on replica r, seen from outside.
LEMMA CommitFacts ==
  ASSUME LotTypes, NEW r \in Replicas, Commit(r)
  PROVE  /\ Record
         /\ \E k \in Call :
              /\ calls' = calls \cup {k} /\ k.bid = Len(bids') /\ k.msgs # <<>>
              /\ Items(k.msgs) = {NewBid(Len(bids'))} \cup
                                 (IF ext' = ext THEN {} ELSE {Extended(ext')})
  <1>1. Record /\ Len(bids') \in Nat /\ ext' \in Nat
    BY RecordFacts DEF Commit, LotTypes, BidTypes
  <1> DEFINE ms == Messages(Len(bids'), ext')
             k == [at |-> r, bid |-> Len(bids'), msgs |-> ms]
  <1>2. /\ ms \in Seq(Msg) /\ ms # <<>>
        /\ Items(ms) = {NewBid(Len(bids'))} \cup (IF ext' = ext THEN {} ELSE {Extended(ext')})
    <2>1. ASSUME NEW n \in Nat, NEW x \in Nat, n = Len(bids'), x = ext'
          PROVE  /\ ms = Messages(n, x) /\ ms \in Seq(Msg) /\ ms # <<>>
                 /\ Items(ms) = {NewBid(n)} \cup (IF x = ext THEN {} ELSE {Extended(x)})
      <3>1. ms = Messages(n, x)
        BY <2>1
      <3> QED
        BY <2>1, <3>1, CommitSends
    <2> QED
      BY <1>1, <2>1
  <1>3. calls' = calls \cup {k}
    BY DEF Commit
  <1>4. k \in Call /\ k.bid = Len(bids') /\ k.msgs = ms
    <2> HIDE DEF ms
    <2> QED
      BY <1>1, <1>2 DEF Call
  <1> QED
    BY <1>1, <1>2, <1>3, <1>4

LEMMA TypesInit == Init => Types
  <1> SUFFICES ASSUME Init PROVE Types
    OBVIOUS
  <1>1. Len(bids) = 0 /\ bids \in Seq(Nat) /\ DOMAIN bids = {}
    BY DEF Init
  <1>2. Row \in [price : Nat, ext : Nat, status : Statuses]
    BY <1>1 DEF Init, Row, Statuses
  <1>3. Form(Row) \in [price : Nat, status : Statuses]
    BY <1>1 DEF Init, Row, Form, Statuses
  <1>4. LotTypes
    <2>1. BidTypes
      BY <1>1 DEF Init, BidTypes, Statuses
    <2>2. overdue = FALSE /\ unheard = FALSE /\ holder = 0 /\ status = "active"
      BY Zenon DEF Init
    <2>3. LockTypes
      BY <2>2 DEF LockTypes
    <2> QED
      BY <2>1, <2>3 DEF LotTypes
  <1>5. PageTypes
    BY <1>2, <1>3 DEF Init, PageTypes, Posts
  <1> QED
    BY <1>4, <1>5 DEF Types

LEMMA RowType ==
  ASSUME LotTypes
  PROVE  /\ Len(bids) \in Nat /\ DOMAIN bids = 1..Len(bids)
         /\ Row \in [price : Nat, ext : Nat, status : Statuses]
         /\ Row.price = Len(bids) /\ Row.ext = ext /\ Row.status = status
         /\ Form(Row) \in [price : Nat, status : Statuses]
         /\ Form(Row).price = Len(bids) /\ Form(Row).status = status
  BY DEF LotTypes, BidTypes, Row, Form

\* A list of recent bids holds numbers of bids.
LEMMA RecentType ==
  ASSUME LotTypes, NEW list \in RecentBids
  PROVE  list \in Seq(Nat) /\ \A i \in DOMAIN list : list[i] \in 1..Len(bids)
  <1>1. Rows \in Nat /\ DOMAIN bids = 1..Len(bids)
    BY RowType DEF Rows
  <1>2. list \in [1..Rows -> 1..Len(bids)]
    BY <1>1 DEF RecentBids
  <1> QED
    BY <1>1, <1>2

\* The lot through the steps that record nothing.
LEMMA LotQuiet ==
  ASSUME LotTypes,
         \/ Quiet \/ CloseUnheard
         \/ \E r \in Replicas : CloseLot(r)
  PROVE  LotTypes'
  <1>1. CASE UNCHANGED lotVars
    BY <1>1 DEF lotVars, lockVars, LotTypes, BidTypes, LockTypes
  <1>2. CASE BeginTx
    BY <1>2 DEF BeginTx, lockVars, LotTypes, BidTypes, LockTypes
  <1>3. CASE Expire
    BY <1>3 DEF Expire, LotTypes, BidTypes, LockTypes
  <1>4. CASE LoseReply
    BY <1>4 DEF LoseReply, LotTypes, BidTypes, LockTypes
  <1>5. CASE Rollback
    BY <1>5 DEF Rollback, LotTypes, BidTypes, LockTypes
  <1>6. ASSUME NEW t \in txs, Admission(t) PROVE LotTypes'
    <2>1. unheard = FALSE /\ status = "active" /\ t # 0
      BY <1>6 DEF Admission, RowFree, Accepting, LotTypes, BidTypes, LockTypes
    <2> QED
      BY <1>6, <2>1 DEF Admission, LotTypes, BidTypes, LockTypes
  <1>7. ASSUME NEW p \in Pages, NEW t \in txs, Refuse(p, t) PROVE LotTypes'
    <2>1. holder = 0
      BY <1>7 DEF Refuse, RowFree
    <2> QED
      BY <1>7, <2>1 DEF Refuse, lockVars, LotTypes, BidTypes, LockTypes
  <1>8. CASE Closing
    BY <1>8 DEF Closing, lockVars, LotTypes, BidTypes, LockTypes, Statuses
  <1>9. ASSUME NEW p \in Pages,
               Submit(p) \/ Fail(p) \/ Reread(p) \/ RereadFails(p) \/ Answer(p)
        PROVE  LotTypes'
    BY <1>1, <1>9 DEF Submit, Fail, Reread, RereadFails, Answer
  <1> QED
    BY <1>1, <1>2, <1>3, <1>4, <1>5, <1>6, <1>7, <1>8, <1>9
       DEF Quiet, Admit, AdmitForm, CloseUnheard, CloseLot, vars

\* The answer to a form that holds the lock.
LEMMA ResolveType ==
  ASSUME PageTypes, NEW outcome \in Posts
  PROVE  /\ Resolve(outcome) \in [Pages -> Posts]
         /\ \A p \in Pages : Resolve(outcome)[p] \in {post[p], outcome}
         /\ \A p \in Pages : post[p] # "admitted" => Resolve(outcome)[p] = post[p]
  BY DEF PageTypes, Resolve

LEMMA PageQuiet ==
  ASSUME Types, Quiet
  PROVE  PageTypes'
  <1>1. PageTypes /\ LotTypes
    BY DEF Types
  <1>2. UNCHANGED <<calls, phase, shown, history, linkVars>>
    BY QuietFacts
  <1>3. ASSUME post' \in [Pages -> Posts], UNCHANGED <<mine, panel, reason, offer>> PROVE PageTypes'
    BY <1>1, <1>2, <1>3 DEF PageTypes, linkVars
  <1>4. CASE UNCHANGED formVars
    BY <1>1, <1>3, <1>4 DEF formVars, PageTypes
  <1>5. CASE LoseReply \/ Rollback
    <2>1. "error" \in Posts
      BY DEF Posts, Refusals
    <2> QED
      BY <1>1, <1>3, <1>5, <2>1, ResolveType DEF LoseReply, Rollback
  <1>6. ASSUME NEW p \in Pages, NEW outcome \in Posts, post' = [post EXCEPT ![p] = outcome],
               UNCHANGED <<mine, panel, reason, offer>>
        PROVE  PageTypes'
    BY <1>1, <1>3, <1>6 DEF PageTypes
  <1>7. ASSUME NEW p \in Pages,
               \/ Submit(p) \/ Fail(p) \/ RereadFails(p)
               \/ \E t \in txs : AdmitForm(p, t) \/ Refuse(p, t)
        PROVE  PageTypes'
    <2>1. {"sent", "error", "no", "admitted", Why} \subseteq Posts
      BY DEF Posts, Refusals, Why
    <2> QED
      BY <1>6, <1>7, <2>1 DEF Submit, Fail, RereadFails, AdmitForm, Refuse
  <1>8. ASSUME NEW p \in Pages, Reread(p) PROVE PageTypes'
    <2>1. panel[p].price + 1 \in Nat /\ post[p] \in Refusals /\ "no" \in Posts
      BY <1>1, <1>8 DEF PageTypes, Reread, Posts
    <2> QED
      BY <1>1, <1>2, <1>8, <2>1, RowType DEF Reread, Proposed, PageTypes, linkVars
  <1>9. ASSUME NEW p \in Pages, Answer(p) PROVE PageTypes'
    <2>1. [price |-> mine[p], status |-> "active"] \in [price : Nat, status : Statuses] /\ "no" \in Posts
      BY <1>1 DEF PageTypes, Statuses, Posts
    <2> QED
      BY <1>1, <1>2, <1>9, <2>1 DEF Answer, PageTypes, linkVars
  <1> QED
    BY <1>4, <1>5, <1>7, <1>8, <1>9 DEF Quiet, BeginTx, Expire, Admit, vars

LEMMA TypesLot ==
  ASSUME Types,
         \/ Quiet \/ CloseUnheard
         \/ \E r \in Replicas : CloseLot(r)
  PROVE  Types'
  <1>1. LotTypes'
    BY LotQuiet DEF Types
  <1>2. CASE Quiet
    BY <1>1, <1>2, PageQuiet DEF Types
  <1>3. CASE CloseUnheard
    BY <1>1, <1>3 DEF CloseUnheard, Closing, Types, PageTypes, linkVars, formVars
  <1>4. ASSUME NEW r \in Replicas, CloseLot(r) PROVE Types'
    <2> DEFINE k == [at |-> r, bid |-> 0, msgs |-> <<LotClosed>>]
    <2>1. k \in Call /\ k.msgs # <<>>
      BY DEF Call, LotClosed, Msg
    <2>2. calls' = calls \cup {k}
      BY <1>4 DEF CloseLot, LotClosed
    <2> HIDE DEF k
    <2> QED
      BY <1>1, <1>4, <2>1, <2>2 DEF CloseLot, Closing, Types, PageTypes, linkVars, formVars
  <1> QED
    BY <1>2, <1>3, <1>4

LEMMA TypesCommit ==
  ASSUME Types, CommitUnheard \/ \E r \in Replicas : Commit(r)
  PROVE  Types'
  <1>1. LotTypes /\ PageTypes
    BY DEF Types
  <1>2. CASE CommitUnheard
    BY <1>1, <1>2, RecordFacts DEF CommitUnheard, Types, PageTypes, formVars
  <1>3. ASSUME NEW r \in Replicas, Commit(r) PROVE Types'
    <2>1. LotTypes' /\ Len(bids') \in Nat /\ \E k \in Call : calls' = calls \cup {k} /\ k.msgs # <<>>
      BY <1>1, <1>3, CommitFacts, RecordFacts
    <2>2. post' \in [Pages -> Posts]
      BY <1>1, <1>3, ResolveType DEF Commit, Posts
    <2>3. mine' \in [Pages -> Nat]
      BY <1>1, <1>3, <2>1 DEF Commit, PageTypes
    <2>4. UNCHANGED <<phase, shown, history, linkVars, panel, reason, offer>>
      BY <1>3 DEF Commit
    <2> QED
      BY <1>1, <2>1, <2>2, <2>3, <2>4 DEF Types, PageTypes, linkVars
  <1> QED
    BY <1>2, <1>3

LEMMA LotSame ==
  ASSUME LotTypes, UNCHANGED lotVars
  PROVE  LotTypes'
  BY DEF LotTypes, BidTypes, LockTypes, lotVars, lockVars

\* What becomes of a call when its first message is out.
Rest(k) == IF Len(k.msgs) = 1 THEN {} ELSE {[k EXCEPT !.msgs = Tail(k.msgs)]}

LEMMA RestFacts ==
  ASSUME NEW k \in Call, k.msgs # <<>>
  PROVE  /\ Head(k.msgs) \in Msg /\ k.at \in Replicas
         /\ Rest(k) \subseteq Call
         /\ \A j \in Rest(k) : j.msgs = Tail(k.msgs) /\ j.msgs # <<>> /\ j.bid = k.bid
         /\ Items(k.msgs) = {Head(k.msgs)} \cup UNION {Items(j.msgs) : j \in Rest(k)}
  <1>1. /\ k.msgs \in Seq(Msg) /\ Head(k.msgs) \in Msg /\ Tail(k.msgs) \in Seq(Msg)
        /\ Items(k.msgs) = {Head(k.msgs)} \cup Items(Tail(k.msgs))
        /\ Len(k.msgs) = 1 => Items(k.msgs) = {Head(k.msgs)}
        /\ Len(k.msgs) # 1 => Tail(k.msgs) # <<>>
    <2>1. k.msgs \in Seq(Msg)
      BY DEF Call
    <2> QED
      BY <2>1, ItemsHead
  <1> DEFINE j == [k EXCEPT !.msgs = Tail(k.msgs)]
  <1>2. j \in Call /\ j.msgs = Tail(k.msgs) /\ j.bid = k.bid /\ k.at \in Replicas
    BY <1>1 DEF Call
  <1>3. Rest(k) = IF Len(k.msgs) = 1 THEN {} ELSE {j}
    BY DEF Rest
  <1> HIDE DEF j
  <1> QED
    BY <1>1, <1>2, <1>3

LEMMA TypesBroadcast ==
  ASSUME Types, NEW k \in calls, Broadcast(k)
  PROVE  Types'
  <1>1. k \in Call /\ k.msgs # <<>>
    BY DEF Types, PageTypes
  <1> DEFINE m == Head(k.msgs)
  <1>2. /\ m \in Msg /\ Rest(k) \subseteq Call /\ \A j \in Rest(k) : j.msgs # <<>>
    BY <1>1, RestFacts
  <1>3. /\ calls' = (calls \ {k}) \cup Rest(k)
        /\ chan' = [p \in Pages |-> IF conn[p] = k.at THEN Append(chan[p], m) ELSE chan[p]]
        /\ missed' = [p \in Pages |-> missed[p] \/ (conn[p] # k.at /\ Newer(p, m))]
        /\ UNCHANGED <<lotVars, phase, shown, history, conn, overtaken, formVars>>
    BY DEF Broadcast, Rest
  <1> HIDE DEF m
  <1>4. \A p \in Pages : Append(chan[p], m) \in Seq(Msg)
    BY <1>2 DEF Types, PageTypes
  <1>5. chan' \in [Pages -> Seq(Msg)] /\ missed' \in [Pages -> BOOLEAN]
    BY <1>3, <1>4 DEF Types, PageTypes
  <1>6. LotTypes'
    BY <1>3, LotSame DEF Types
  <1>7. PageTypes'
    BY <1>2, <1>3, <1>5 DEF Types, PageTypes, formVars
  <1> QED
    BY <1>6, <1>7 DEF Types

LEMMA TypesPage ==
  ASSUME Types, NEW p \in Pages,
         \/ Load(p) \/ LoadFails(p) \/ Render(p)
         \/ \E r \in Replicas : Connect(p, r)
  PROVE  Types'
  <1>1. LotTypes /\ PageTypes
    BY DEF Types
  <1>2. LotTypes'
    BY <1>1, LotSame DEF Load, LoadFails, Render, Connect
  <1>3. CASE Load(p)
    <2>1. "no" \in Posts
      BY DEF Posts
    <2> QED
      BY <1>1, <1>2, <1>3, <2>1, RowType DEF Load, Types, PageTypes
  <1>4. CASE Render(p)
    <2>1. PICK list \in RecentBids : history' = [history EXCEPT ![p] = list]
      BY <1>4 DEF Render
    <2>2. list \in Seq(Nat)
      BY <1>1, RecentType
    <2>3. shown[p] \in [price : Nat, ext : Nat, status : Statuses]
      BY <1>1 DEF PageTypes
    <2>4. Form(shown[p]) \in [price : Nat, status : Statuses] /\ shown[p].status \in {"active", "closed"}
      BY <2>3 DEF Form, Statuses
    <2> QED
      BY <1>1, <1>2, <1>4, <2>1, <2>2, <2>4 DEF Render, Types, PageTypes, linkVars
  <1>5. CASE LoadFails(p)
    BY <1>1, <1>2, <1>5 DEF LoadFails, Types, PageTypes, linkVars, formVars
  <1>6. CASE \E r \in Replicas : Connect(p, r)
    BY <1>1, <1>2, <1>6 DEF Connect, Types, PageTypes, formVars
  <1> QED
    BY <1>3, <1>4, <1>5, <1>6

\* What the script makes of a message.
LEMMA ReceiveFacts ==
  ASSUME PageTypes, NEW p \in Pages, Receive(p)
  PROVE  \E m \in Msg :
           /\ chan[p] # <<>> /\ m = Head(chan[p])
           /\ Items(chan[p]) = {m} \cup Items(Tail(chan[p]))
           /\ chan' = [chan EXCEPT ![p] = Tail(chan[p])] /\ chan' \in [Pages -> Seq(Msg)]
           /\ overtaken' = [overtaken EXCEPT ![p] = overtaken[p] \/ Older(p, m)]
           /\ shown' \in [Pages -> [price : Nat, ext : Nat, status : Statuses]]
           /\ history' \in [Pages -> Seq(Nat)]
           /\ \A q \in Pages \ {p} : shown'[q] = shown[q] /\ history'[q] = history[q]
           /\ shown'[p].price = IF m.type = "new_bid" THEN m.value ELSE shown[p].price
           /\ shown'[p].ext = IF m.type = "lot_extended" THEN m.value ELSE shown[p].ext
           /\ Items(history'[p]) \subseteq
                Items(history[p]) \cup (IF m.type = "new_bid" THEN {m.value} ELSE {})
           /\ UNCHANGED <<lotVars, calls, phase, conn, missed, formVars>>
  <1> DEFINE m == Head(chan[p])
  <1>1. /\ chan[p] # <<>> /\ m \in Msg /\ Tail(chan[p]) \in Seq(Msg)
        /\ Items(chan[p]) = {m} \cup Items(Tail(chan[p]))
    <2>1. chan[p] \in Seq(Msg) /\ chan[p] # <<>>
      BY DEF PageTypes, Receive
    <2> QED
      BY <2>1, ItemsHead
  <1>2. /\ chan' = [chan EXCEPT ![p] = Tail(chan[p])]
        /\ overtaken' = [overtaken EXCEPT ![p] = overtaken[p] \/ Older(p, m)]
        /\ UNCHANGED <<lotVars, calls, phase, conn, missed, formVars>>
    BY DEF Receive
  <1>3. chan' \in [Pages -> Seq(Msg)]
    BY <1>1, <1>2 DEF PageTypes
  <1>4. \/ /\ m.type = "new_bid"
           /\ shown' = [shown EXCEPT ![p].price = m.value]
           /\ history' = [history EXCEPT ![p] = <<m.value>> \o history[p]]
        \/ /\ m.type = "lot_extended"
           /\ shown' = [shown EXCEPT ![p].ext = m.value] /\ history' = history
        \/ m.type = "lot_closed" /\ shown' = shown /\ history' = history
    BY DEF Receive
  <1>5. m.value \in Nat
    BY <1>1 DEF Msg
  <1> HIDE DEF m
  <1>6. /\ shown \in [Pages -> [price : Nat, ext : Nat, status : Statuses]]
        /\ history \in [Pages -> Seq(Nat)]
    BY DEF PageTypes
  <1>7. /\ shown' \in [Pages -> [price : Nat, ext : Nat, status : Statuses]]
        /\ \A q \in Pages \ {p} : shown'[q] = shown[q]
        /\ shown'[p].price = IF m.type = "new_bid" THEN m.value ELSE shown[p].price
        /\ shown'[p].ext = IF m.type = "lot_extended" THEN m.value ELSE shown[p].ext
    <2>1. CASE m.type = "new_bid" /\ shown' = [shown EXCEPT ![p].price = m.value]
      <3> DEFINE row == [shown[p] EXCEPT !.price = m.value]
      <3>1. /\ row \in [price : Nat, ext : Nat, status : Statuses]
            /\ row.price = m.value /\ row.ext = shown[p].ext
        BY <1>5, <1>6
      <3>2. shown' = [shown EXCEPT ![p] = row]
        BY <2>1
      <3> HIDE DEF row
      <3> QED
        BY <1>6, <2>1, <3>1, <3>2
    <2>2. CASE m.type = "lot_extended" /\ shown' = [shown EXCEPT ![p].ext = m.value]
      <3> DEFINE row == [shown[p] EXCEPT !.ext = m.value]
      <3>1. /\ row \in [price : Nat, ext : Nat, status : Statuses]
            /\ row.ext = m.value /\ row.price = shown[p].price
        BY <1>5, <1>6
      <3>2. shown' = [shown EXCEPT ![p] = row]
        BY <2>2
      <3> HIDE DEF row
      <3> QED
        BY <1>6, <2>2, <3>1, <3>2
    <2>3. CASE m.type = "lot_closed" /\ shown' = shown
      BY <1>6, <2>3
    <2> QED
      BY <1>4, <2>1, <2>2, <2>3
  <1>8. /\ history' \in [Pages -> Seq(Nat)]
        /\ \A q \in Pages \ {p} : history'[q] = history[q]
        /\ Items(history'[p]) \subseteq
             Items(history[p]) \cup (IF m.type = "new_bid" THEN {m.value} ELSE {})
    <2>1. CASE history' = history
      BY <1>6, <2>1
    <2>2. CASE m.type = "new_bid" /\ history' = [history EXCEPT ![p] = <<m.value>> \o history[p]]
      <3> DEFINE h == history[p]
                 u == <<m.value>> \o h
      <3>1. /\ h \in Seq(Nat) /\ Len(h) \in Nat /\ DOMAIN h = 1..Len(h)
            /\ u \in Seq(Nat) /\ DOMAIN u = 1..(Len(h) + 1) /\ u[1] = m.value
            /\ \A i \in 2..(Len(h) + 1) : u[i] = h[i - 1]
        BY <1>5, <1>6
      <3> HIDE DEF h, u
      <3>2. ASSUME NEW i \in DOMAIN u PROVE u[i] \in Items(h) \cup {m.value}
        <4>1. i = 1 \/ (i \in 2..(Len(h) + 1) /\ i - 1 \in 1..Len(h))
          BY <3>1
        <4> QED
          BY <3>1, <4>1 DEF Items
      <3>3. Items(u) \subseteq Items(h) \cup {m.value}
        BY <3>2 DEF Items
      <3>4. history'[p] = u /\ \A q \in Pages \ {p} : history'[q] = history[q]
        BY <1>6, <2>2 DEF h, u
      <3>5. history' \in [Pages -> Seq(Nat)]
        BY <1>6, <2>2, <3>1 DEF h, u
      <3> QED
        BY <2>2, <3>3, <3>4, <3>5 DEF h
    <2> QED
      BY <1>4, <2>1, <2>2
  <1> QED
    BY <1>1, <1>2, <1>3, <1>7, <1>8, <1>5 DEF m

LEMMA TypesReceive ==
  ASSUME Types, NEW p \in Pages, Receive(p)
  PROVE  Types'
  <1>1. LotTypes' /\ PageTypes
    BY LotSame DEF Receive, Types
  <1>2. overtaken' \in [Pages -> BOOLEAN]
    BY <1>1 DEF Receive, PageTypes
  <1>3. /\ chan' \in [Pages -> Seq(Msg)] /\ history' \in [Pages -> Seq(Nat)]
        /\ shown' \in [Pages -> [price : Nat, ext : Nat, status : Statuses]]
    BY <1>1, ReceiveFacts
  <1>4. UNCHANGED <<calls, phase, conn, missed, formVars>>
    BY DEF Receive
  <1> QED
    BY <1>1, <1>2, <1>3, <1>4 DEF Types, PageTypes, formVars

LEMMA TypesBreak ==
  ASSUME Types, Breaks
  PROVE  Types'
  <1>1. PICK lost \in SUBSET Pages, kept \in SUBSET calls : Disconnect(lost, kept)
    BY BreakFacts
  <1>2. LotTypes' /\ PageTypes /\ UNCHANGED <<overtaken, phase, shown, history, formVars>>
    BY <1>1, LotSame DEF Disconnect, Types
  <1>3. /\ calls' \subseteq calls
        /\ conn' = [p \in Pages |-> IF p \in lost THEN None ELSE conn[p]]
        /\ chan' = [p \in Pages |-> IF p \in lost THEN <<>> ELSE chan[p]]
        /\ missed' = [p \in Pages |-> missed[p] \/ chan'[p] # chan[p] \/ kept # calls]
    BY <1>1 DEF Disconnect
  <1>4. /\ conn' \in [Pages -> Replicas \cup {None}] /\ chan' \in [Pages -> Seq(Msg)]
        /\ missed' \in [Pages -> BOOLEAN]
    BY <1>2, <1>3 DEF PageTypes
  <1> QED
    BY <1>2, <1>3, <1>4 DEF Types, PageTypes, formVars

LEMMA TypesStep == Types /\ [Next]_vars => Types'
  <1> SUFFICES ASSUME Types, [Next]_vars PROVE Types'
    OBVIOUS
  <1> QED
    BY StepCases, TypesLot, TypesCommit, TypesBroadcast, TypesPage, TypesReceive, TypesBreak, Zenon

\* Bids are never taken back, extensions neither, and a closed lot is final.
LEMMA LotGrows ==
  ASSUME Types, [Next]_vars
  PROVE  /\ Len(bids) \in Nat /\ Len(bids') \in Nat /\ Len(bids) <= Len(bids')
         /\ ext \in Nat /\ ext' \in Nat /\ ext <= ext'
         /\ status = "closed" => status' = "closed" /\ Row' = Row /\ bids' = bids
  <1>1. /\ Types' /\ Len(bids) \in Nat /\ Len(bids') \in Nat /\ ext \in Nat /\ ext' \in Nat
    BY TypesStep DEF Types, LotTypes, BidTypes
  <1>2. CASE UNCHANGED <<bids, ext>> /\ (status = "closed" => status' = "closed")
    BY <1>1, <1>2 DEF Row
  <1>3. CASE Record
    <2>1. Len(bids') = Len(bids) + 1 /\ ext' \in {ext, ext + 1} /\ status = "active"
      BY <1>3, RecordFacts DEF Types
    <2> QED
      BY <1>1, <2>1
  <1>4. CASE Quiet
    <2>1. UNCHANGED status
      BY <1>4 DEF Quiet, vars, lotVars, BeginTx, Expire, LoseReply, Rollback, Admit, Admission,
         Submit, Fail, Reread, RereadFails, Answer, AdmitForm, Refuse
    <2> QED
      BY <1>2, <1>4, <2>1, QuietFacts
  <1>5. CASE CloseUnheard \/ \E r \in Replicas : CloseLot(r)
    BY <1>2, <1>5 DEF CloseUnheard, CloseLot, Closing
  <1>6. CASE Breaks
    BY <1>2, <1>6, BreakFacts DEF Disconnect, lotVars
  <1>7. CASE \/ \E k \in calls : Broadcast(k)
             \/ \E p \in Pages :
                  \/ Load(p) \/ LoadFails(p) \/ Render(p) \/ Receive(p)
                  \/ \E r \in Replicas : Connect(p, r)
    BY <1>2, <1>7 DEF lotVars, Broadcast, Load, LoadFails, Render, Receive, Connect
  <1> QED
    BY <1>3, <1>4, <1>5, <1>6, <1>7, StepCases DEF Commit, CommitUnheard

-----------------------------------------------------------------------------
(* Nothing is announced that was not committed. *)

MsgOK(m) ==
  /\ m.type = "new_bid" => m.value \in 1..Len(bids)
  /\ m.type = "lot_extended" => m.value \in 0..ext

MsgInv ==
  /\ \A k \in calls : \A m \in Items(k.msgs) : MsgOK(m) /\ (k.bid = 0 => m.type = "lot_closed")
  /\ \A p \in Pages : \A m \in Items(chan[p]) : MsgOK(m)

\* Only the steps of LotGrows change what an announcement refers to.
LEMMA StaysTrue ==
  ASSUME Types, [Next]_vars, NEW m, MsgOK(m)
  PROVE  MsgOK(m)'
  BY LotGrows DEF MsgOK

LEMMA MsgStep ==
  ASSUME Types, MsgInv, [Next]_vars
  PROVE  MsgInv'
  <1>1. PageTypes /\ LotTypes /\ \A m : MsgOK(m) => MsgOK(m)'
    BY StaysTrue DEF Types
  <1>2. CASE UNCHANGED <<calls, chan>>
    BY <1>1, <1>2 DEF MsgInv
  <1>3. ASSUME NEW r \in Replicas, Commit(r) PROVE MsgInv'
    <2>1. PICK k \in Call :
            /\ calls' = calls \cup {k} /\ k.bid = Len(bids')
            /\ Items(k.msgs) = {NewBid(Len(bids'))} \cup
                               (IF ext' = ext THEN {} ELSE {Extended(ext')})
      BY <1>1, <1>3, CommitFacts
    <2>2. Len(bids) \in Nat /\ Len(bids') = Len(bids) + 1 /\ ext' \in Nat /\ chan' = chan
      <3>1. Record /\ chan' = chan
        BY <1>3 DEF Commit, linkVars
      <3> QED
        BY <1>1, <3>1, RecordFacts DEF LotTypes, BidTypes
    <2>3. PICK n \in Nat, x \in Nat : n = Len(bids') /\ x = ext'
      BY <2>2
    <2>4. MsgOK(NewBid(n))' /\ MsgOK(Extended(x))' /\ k.bid # 0
      BY <2>1, <2>2, <2>3 DEF MsgOK, NewBid, Extended
    <2>5. Items(k.msgs) \subseteq {NewBid(n), Extended(x)}
      BY <2>1, <2>3
    <2>6. \A m \in Items(k.msgs) : MsgOK(m)'
      BY <2>4, <2>5
    <2> QED
      BY <1>1, <2>1, <2>2, <2>4, <2>6 DEF MsgInv
  <1>4. ASSUME NEW r \in Replicas, CloseLot(r) PROVE MsgInv'
    <2> DEFINE k == [at |-> r, bid |-> 0, msgs |-> <<LotClosed>>]
    <2>1. calls' = calls \cup {k} /\ chan' = chan
      BY <1>4 DEF CloseLot, Closing, LotClosed, linkVars
    <2>2. \A m \in Items(k.msgs) : m.type = "lot_closed"
      BY DEF Items, LotClosed
    <2> HIDE DEF k
    <2>3. \A m \in Items(k.msgs) : MsgOK(m)'
      BY <2>2 DEF MsgOK
    <2> QED
      BY <1>1, <2>1, <2>2, <2>3 DEF MsgInv
  <1>5. ASSUME NEW k \in calls, Broadcast(k) PROVE MsgInv'
    <2> DEFINE m == Head(k.msgs)
    <2>1. /\ m \in Msg /\ \A j \in Rest(k) : j.bid = k.bid
          /\ Items(k.msgs) = {m} \cup UNION {Items(j.msgs) : j \in Rest(k)}
      <3>1. k \in Call /\ k.msgs # <<>>
        BY <1>1 DEF PageTypes
      <3> QED
        BY <3>1, RestFacts
    <2>2. /\ calls' = (calls \ {k}) \cup Rest(k)
          /\ chan' = [p \in Pages |-> IF conn[p] = k.at THEN Append(chan[p], m) ELSE chan[p]]
      BY <1>5 DEF Broadcast, Rest
    <2> HIDE DEF m
    <2>3. ASSUME NEW p \in Pages PROVE Items(chan'[p]) \subseteq Items(chan[p]) \cup {m}
      <3>1. chan[p] \in Seq(Msg)
        BY <1>1 DEF PageTypes
      <3>2. Items(Append(chan[p], m)) = Items(chan[p]) \cup {m}
        BY <2>1, <3>1, ItemsAppend
      <3> QED
        BY <2>2, <3>2
    <2>4. \A j \in Rest(k) : Items(j.msgs) \subseteq Items(k.msgs)
      BY <2>1
    <2>5. m \in Items(k.msgs)
      BY <2>1
    <2>6. \A j \in calls' : \A i \in Items(j.msgs) : MsgOK(i)' /\ (j.bid = 0 => i.type = "lot_closed")
      BY <1>1, <2>1, <2>2, <2>4 DEF MsgInv
    <2>7. \A p \in Pages : \A i \in Items(chan'[p]) : MsgOK(i)'
      BY <1>1, <2>3, <2>5 DEF MsgInv
    <2> QED
      BY <2>6, <2>7 DEF MsgInv
  <1>6. ASSUME calls' \subseteq calls,
               \A p \in Pages : chan'[p] = chan[p] \/ chan'[p] = <<>>
        PROVE  MsgInv'
    <2>1. Items(<<>>) = {}
      BY DEF Items
    <2>2. \A p \in Pages : Items(chan'[p]) \subseteq Items(chan[p])
      BY <1>6, <2>1
    <2> QED
      BY <1>1, <1>6, <2>2 DEF MsgInv
  <1>7. ASSUME NEW p \in Pages, Load(p) PROVE MsgInv'
    <2>1. calls' = calls /\ chan' = [chan EXCEPT ![p] = <<>>] /\ chan \in [Pages -> Seq(Msg)]
      BY <1>1, <1>7 DEF Load, PageTypes
    <2> QED
      BY <1>6, <2>1
  <1>8. ASSUME NEW p \in Pages, Receive(p) PROVE MsgInv'
    <2>1. PICK m \in Msg :
            /\ Items(chan[p]) = {m} \cup Items(Tail(chan[p])) /\ calls' = calls
            /\ chan' = [chan EXCEPT ![p] = Tail(chan[p])]
      BY <1>1, <1>8, ReceiveFacts
    <2>2. \A q \in Pages : Items(chan'[q]) \subseteq Items(chan[q])
      BY <1>1, <2>1 DEF PageTypes
    <2> QED
      BY <1>1, <2>1, <2>2 DEF MsgInv
  <1>9. CASE Breaks
    <2>1. PICK lost \in SUBSET Pages, kept \in SUBSET calls : Disconnect(lost, kept)
      BY <1>9, BreakFacts
    <2>2. calls' \subseteq calls /\ \A p \in Pages : chan'[p] = chan[p] \/ chan'[p] = <<>>
      BY <2>1 DEF Disconnect
    <2> QED
      BY <1>6, <2>2
  <1>10. CASE \/ CommitUnheard \/ CloseUnheard
              \/ \E p \in Pages :
                   \/ LoadFails(p) \/ Render(p)
                   \/ \E r \in Replicas : Connect(p, r)
    BY <1>2, <1>10 DEF CommitUnheard, CloseUnheard, Closing, LoadFails, Render, Connect, linkVars
  <1>11. CASE Quiet
    BY <1>2, <1>11, QuietFacts DEF linkVars
  <1> QED
    BY <1>3, <1>4, <1>5, <1>7, <1>8, <1>9, <1>10, <1>11, StepCases, Zenon

-----------------------------------------------------------------------------
(* Nothing is shown that was not committed. *)

ShownInv ==
  \A p \in Pages :
    /\ shown[p].price \in 0..Len(bids) /\ shown[p].ext \in 0..ext
    /\ Items(history[p]) \subseteq 1..Len(bids)

LEMMA ShownStep ==
  ASSUME Types, MsgInv, ShownInv, [Next]_vars
  PROVE  ShownInv'
  <1>1. PageTypes /\ LotTypes
    BY DEF Types
  <1>2. /\ Len(bids) \in Nat /\ Len(bids') \in Nat /\ Len(bids) <= Len(bids')
        /\ ext \in Nat /\ ext' \in Nat /\ ext <= ext'
    BY LotGrows
  \* What was true of an unchanged page stays true.
  <1>3. ASSUME NEW p \in Pages, shown'[p] = shown[p], history'[p] = history[p]
        PROVE  /\ shown'[p].price \in 0..Len(bids') /\ shown'[p].ext \in 0..ext'
               /\ Items(history'[p]) \subseteq 1..Len(bids')
    <2>1. 1..Len(bids) \subseteq 1..Len(bids')
      BY <1>2
    <2>2. Items(history'[p]) \subseteq 1..Len(bids')
      BY <1>3, <2>1 DEF ShownInv
    <2>3. shown[p].price \in 0..Len(bids) /\ shown[p].ext \in 0..ext
      BY DEF ShownInv
    <2>4. shown'[p].price \in 0..Len(bids') /\ shown'[p].ext \in 0..ext'
      BY <1>2, <1>3, <2>3
    <2> QED
      BY <2>2, <2>4
  <1>4. CASE UNCHANGED <<shown, history>>
    BY <1>3, <1>4 DEF ShownInv
  <1>5. ASSUME NEW p \in Pages, Load(p) PROVE ShownInv'
    <2>1. /\ shown' = [shown EXCEPT ![p] = Row] /\ history' = history
          /\ Len(bids') = Len(bids) /\ ext' = ext
      BY <1>5 DEF Load, lotVars
    <2>2. shown'[p] = Row /\ \A q \in Pages \ {p} : shown'[q] = shown[q]
      BY <1>1, <2>1 DEF PageTypes
    <2>3. shown'[p].price \in 0..Len(bids') /\ shown'[p].ext \in 0..ext'
      BY <1>1, <1>2, <2>1, <2>2, RowType
    <2>4. Items(history'[p]) \subseteq 1..Len(bids')
      BY <2>1 DEF ShownInv
    <2> QED
      BY <1>3, <2>1, <2>2, <2>3, <2>4 DEF ShownInv
  <1>6. ASSUME NEW p \in Pages, Render(p) PROVE ShownInv'
    <2>1. PICK list \in RecentBids : history' = [history EXCEPT ![p] = list]
      BY <1>6 DEF Render
    <2>2. shown' = shown /\ Len(bids') = Len(bids) /\ ext' = ext
      BY <1>6 DEF Render, lotVars
    <2>3. Items(list) \subseteq 1..Len(bids)
      BY <1>1, RecentType DEF Items
    <2>4. history'[p] = list /\ \A q \in Pages \ {p} : history'[q] = history[q]
      BY <1>1, <2>1 DEF PageTypes
    <2> QED
      BY <1>3, <2>2, <2>3, <2>4 DEF ShownInv
  <1>7. ASSUME NEW p \in Pages, Receive(p) PROVE ShownInv'
    <2>1. PICK m \in Msg :
            /\ Items(chan[p]) = {m} \cup Items(Tail(chan[p]))
            /\ \A q \in Pages \ {p} : shown'[q] = shown[q] /\ history'[q] = history[q]
            /\ shown'[p].price = IF m.type = "new_bid" THEN m.value ELSE shown[p].price
            /\ shown'[p].ext = IF m.type = "lot_extended" THEN m.value ELSE shown[p].ext
            /\ Items(history'[p]) \subseteq
                 Items(history[p]) \cup (IF m.type = "new_bid" THEN {m.value} ELSE {})
            /\ UNCHANGED lotVars
      BY <1>1, <1>7, ReceiveFacts
    <2>2. MsgOK(m)
      BY <2>1 DEF MsgInv
    <2>3. Len(bids') = Len(bids) /\ ext' = ext
      BY <2>1 DEF lotVars
    <2>4. shown'[p].price \in 0..Len(bids') /\ shown'[p].ext \in 0..ext'
      <3>1. shown[p].price \in 0..Len(bids) /\ shown[p].ext \in 0..ext
        BY DEF ShownInv
      <3>2. m.type = "new_bid" => m.value \in 0..Len(bids)
        BY <1>2, <2>2 DEF MsgOK
      <3>3. m.type = "lot_extended" => m.value \in 0..ext
        BY <2>2 DEF MsgOK
      <3> QED
        BY <2>1, <2>3, <3>1, <3>2, <3>3
    <2>5. Items(history'[p]) \subseteq 1..Len(bids')
      BY <2>1, <2>2, <2>3 DEF MsgOK, ShownInv
    <2> QED
      BY <1>3, <2>1, <2>4, <2>5 DEF ShownInv
  <1>8. CASE Breaks
    BY <1>4, <1>8, BreakFacts DEF Disconnect
  <1>9. CASE \/ CommitUnheard \/ CloseUnheard
             \/ \E r \in Replicas : Commit(r) \/ CloseLot(r)
             \/ \E k \in calls : Broadcast(k)
             \/ \E p \in Pages : LoadFails(p) \/ \E r \in Replicas : Connect(p, r)
    BY <1>4, <1>9 DEF CommitUnheard, CloseUnheard, Closing, Commit, CloseLot, Broadcast, LoadFails,
       Connect
  <1>10. CASE Quiet
    BY <1>4, <1>10, QuietFacts
  <1> QED
    BY <1>5, <1>6, <1>7, <1>8, <1>9, <1>10, StepCases, Zenon

\* Only the script of a rendered page listens.
ConnInv ==
  \A p \in Pages :
    /\ chan[p] # <<>> => conn[p] # None
    /\ conn[p] # None => phase[p] = "active"

LEMMA ConnStep ==
  ASSUME Types, ConnInv, [Next]_vars
  PROVE  ConnInv'
  <1>1. PageTypes
    BY DEF Types
  <1>2. CASE UNCHANGED <<chan, conn, phase>>
    BY <1>2 DEF ConnInv
  <1>3. ASSUME NEW k \in calls, Broadcast(k) PROVE ConnInv'
    <2>1. conn' = conn /\ phase' = phase
      BY <1>3 DEF Broadcast
    <2>2. ASSUME NEW p \in Pages PROVE chan'[p] # chan[p] => conn[p] = k.at
      BY <1>3 DEF Broadcast
    <2>3. k.at # None
      BY <1>1 DEF PageTypes, Call
    <2> QED
      BY <2>1, <2>2, <2>3 DEF ConnInv
  <1>4. ASSUME NEW p \in Pages, Load(p) PROVE ConnInv'
    BY <1>1, <1>4 DEF Load, PageTypes, ConnInv
  <1>5. ASSUME NEW p \in Pages, Render(p) \/ LoadFails(p) PROVE ConnInv'
    <2>1. phase[p] = "loading" /\ chan' = chan /\ conn' = conn
      BY <1>5 DEF Render, LoadFails, linkVars
    <2>2. \A q \in Pages \ {p} : phase'[q] = phase[q]
      BY <1>1, <1>5 DEF Render, LoadFails, PageTypes
    <2>3. chan[p] = <<>> /\ conn[p] = None
      BY <2>1 DEF ConnInv
    <2> QED
      BY <2>1, <2>2, <2>3 DEF ConnInv
  <1>6. ASSUME NEW p \in Pages, NEW r \in Replicas, Connect(p, r) PROVE ConnInv'
    BY <1>1, <1>6 DEF Connect, PageTypes, ConnInv
  <1>7. ASSUME NEW p \in Pages, Receive(p) PROVE ConnInv'
    <2>1. chan[p] # <<>> /\ conn' = conn /\ phase' = phase
      BY <1>7 DEF Receive
    <2>2. \A q \in Pages \ {p} : chan'[q] = chan[q]
      BY <1>1, <1>7 DEF Receive, PageTypes
    <2> QED
      BY <2>1, <2>2 DEF ConnInv
  <1>8. CASE Breaks
    <2>1. PICK lost \in SUBSET Pages, kept \in SUBSET calls : Disconnect(lost, kept)
      BY <1>8, BreakFacts
    <2> QED
      BY <2>1 DEF Disconnect, ConnInv
  <1>9. CASE \/ CommitUnheard \/ CloseUnheard
             \/ \E r \in Replicas : Commit(r) \/ CloseLot(r)
    BY <1>2, <1>9 DEF linkVars, CommitUnheard, CloseUnheard, Closing, Commit, CloseLot
  <1>10. CASE Quiet
    BY <1>2, <1>10, QuietFacts DEF linkVars
  <1> QED
    BY <1>3, <1>4, <1>5, <1>6, <1>7, <1>8, <1>9, <1>10, StepCases, Zenon

-----------------------------------------------------------------------------
(* A page that says the lot is closed. *)

FinalInv ==
  \A p \in Pages :
    /\ phase[p] \in {"loading", "closed"} /\ shown[p].status = "closed" =>
         status = "closed" /\ shown[p] = Row
    /\ phase[p] = "closed" => shown[p].status = "closed" /\ history[p] \in RecentBids

LEMMA FinalStep ==
  ASSUME Types, ConnInv, FinalInv, [Next]_vars
  PROVE  FinalInv'
  <1>1. PageTypes /\ LotTypes
    BY DEF Types
  <1>2. status = "closed" => status' = "closed" /\ Row' = Row /\ bids' = bids
    BY LotGrows
  <1>3. bids' = bids => RecentBids' = RecentBids
    BY DEF RecentBids, Rows
  \* The lot of a page that knows it closed does not change any more.
  <1>4. ASSUME NEW p \in Pages, phase'[p] = phase[p], shown'[p] = shown[p], history'[p] = history[p]
        PROVE  /\ phase'[p] \in {"loading", "closed"} /\ shown'[p].status = "closed" =>
                    status' = "closed" /\ shown'[p] = Row'
               /\ phase'[p] = "closed" => shown'[p].status = "closed" /\ history'[p] \in RecentBids'
    <2>1. /\ phase[p] \in {"loading", "closed"} /\ shown[p].status = "closed" =>
               status = "closed" /\ shown[p] = Row
          /\ phase[p] = "closed" => shown[p].status = "closed" /\ history[p] \in RecentBids
      BY DEF FinalInv
    <2>2. phase[p] = "closed" => status = "closed"
      BY <2>1
    <2> QED
      BY <1>2, <1>3, <1>4, <2>1, <2>2, Zenon
  <1>5. CASE UNCHANGED <<phase, shown, history>>
    BY <1>4, <1>5 DEF FinalInv
  <1>6. ASSUME NEW p \in Pages, Load(p) PROVE FinalInv'
    <2>1. /\ shown'[p] = Row /\ phase'[p] = "loading" /\ history' = history
          /\ UNCHANGED <<bids, ext, status>>
          /\ \A q \in Pages \ {p} : shown'[q] = shown[q] /\ phase'[q] = phase[q]
      BY <1>1, <1>6 DEF Load, PageTypes, lotVars
    <2>2. Row' = Row /\ Row.status = status
      BY <2>1 DEF Row
    <2>3. \A q \in Pages \ {p} : history'[q] = history[q]
      BY <2>1
    <2> QED
      BY <1>4, <2>1, <2>2, <2>3 DEF FinalInv
  <1>7. ASSUME NEW p \in Pages, Render(p) PROVE FinalInv'
    <2>1. PICK list \in RecentBids : history' = [history EXCEPT ![p] = list]
      BY <1>7 DEF Render
    <2>2. /\ phase[p] = "loading" /\ phase'[p] = shown[p].status /\ shown' = shown
          /\ history'[p] = list /\ UNCHANGED <<bids, ext, status>>
          /\ \A q \in Pages \ {p} : history'[q] = history[q] /\ phase'[q] = phase[q]
      BY <1>1, <1>7, <2>1 DEF Render, PageTypes, lotVars
    <2>3. Row' = Row /\ RecentBids' = RecentBids
      BY <1>3, <2>2 DEF Row
    <2>4. shown[p].status = "closed" => status = "closed" /\ shown[p] = Row
      BY <2>2 DEF FinalInv
    <2> QED
      BY <1>4, <2>2, <2>3, <2>4 DEF FinalInv
  <1>8. ASSUME NEW p \in Pages, Receive(p) PROVE FinalInv'
    <2>1. /\ chan[p] # <<>> /\ phase' = phase
          /\ \A q \in Pages \ {p} : shown'[q] = shown[q] /\ history'[q] = history[q]
      <3>1. phase' = phase
        BY <1>8 DEF Receive
      <3> QED
        BY <1>1, <1>8, <3>1, ReceiveFacts
    <2>2. phase'[p] = "active"
      BY <2>1 DEF ConnInv
    <2> QED
      BY <1>4, <2>1, <2>2 DEF FinalInv
  <1>9. CASE Breaks
    BY <1>5, <1>9, BreakFacts DEF Disconnect
  <1>10. CASE \/ CommitUnheard \/ CloseUnheard
              \/ \E r \in Replicas : Commit(r) \/ CloseLot(r)
              \/ \E k \in calls : Broadcast(k)
              \/ \E p \in Pages, r \in Replicas : Connect(p, r)
    BY <1>5, <1>10 DEF CommitUnheard, CloseUnheard, Closing, Commit, CloseLot, Broadcast, Connect
  <1>11. CASE Quiet
    BY <1>5, <1>11, QuietFacts
  <1>12. ASSUME NEW p \in Pages, LoadFails(p) PROVE FinalInv'
    <2>1. /\ phase'[p] = "error" /\ \A q \in Pages \ {p} : phase'[q] = phase[q]
          /\ shown' = shown /\ history' = history
      BY <1>1, <1>12 DEF LoadFails, PageTypes
    <2>2. \A q \in Pages \ {p} : shown'[q] = shown[q] /\ history'[q] = history[q]
      BY <2>1
    <2> QED
      BY <1>4, <2>1, <2>2 DEF FinalInv
  <1> QED
    BY <1>6, <1>7, <1>8, <1>9, <1>10, <1>11, <1>12, StepCases, Zenon

-----------------------------------------------------------------------------
(* The form. *)

\* No bid will be recorded any more.
Over == holder = 0 /\ ~Accepting

LEMMA OverStays ==
  ASSUME LotTypes, Over, [Next]_vars
  PROVE  Over' /\ bids' = bids
  <1>1. holder = 0 /\ ~unheard /\ ~Accepting
    BY DEF Over, LotTypes, LockTypes
  <1>2. CASE UNCHANGED lotVars
    BY <1>1, <1>2 DEF Over, Accepting, lotVars, lockVars
  <1>3. CASE Quiet
    <2>1. ASSUME NEW t \in txs, Admission(t) PROVE FALSE
      BY <1>1, <2>1 DEF Admission
    <2>2. ASSUME NEW p \in Pages, NEW t \in txs, Refuse(p, t) PROVE Over' /\ bids' = bids
      BY <1>1, <2>2 DEF Refuse, Over, Accepting, lockVars
    <2>3. CASE BeginTx \/ Expire
      BY <1>1, <2>3 DEF BeginTx, Expire, Over, Accepting, lockVars
    <2>4. ASSUME NEW p \in Pages,
                 Submit(p) \/ Fail(p) \/ Reread(p) \/ RereadFails(p) \/ Answer(p)
          PROVE  UNCHANGED lotVars
      BY <2>4 DEF Submit, Fail, Reread, RereadFails, Answer
    <2> QED
      BY <1>1, <1>2, <1>3, <2>1, <2>2, <2>3, <2>4
         DEF Quiet, LoseReply, Rollback, Admit, AdmitForm, vars
  <1>4. CASE Closing
    BY <1>1, <1>4 DEF Closing, Over, Accepting, lockVars
  <1>5. CASE Breaks
    BY <1>2, <1>5, BreakFacts DEF Disconnect
  <1>6. CASE \/ \E k \in calls : Broadcast(k)
             \/ \E p \in Pages :
                  \/ Load(p) \/ LoadFails(p) \/ Render(p) \/ Receive(p)
                  \/ \E r \in Replicas : Connect(p, r)
    BY <1>2, <1>6 DEF Broadcast, Load, LoadFails, Render, Receive, Connect
  <1>7. ~Record
    BY <1>1 DEF Record
  <1> QED
    BY <1>3, <1>4, <1>5, <1>6, <1>7, StepCases DEF Commit, CommitUnheard, CloseLot, CloseUnheard

\* A refusal and the form that came back with it stay justified.
Justified(p) ==
  /\ phase[p] = "loading" => post[p] = "no" /\ reason[p] = "none"
  /\ post[p] = "price" => Proposed(p) <= Len(bids)
  /\ post[p] = "over" => Over
  /\ reason[p] = "price" => Proposed(p) > offer[p]
  /\ reason[p] = "over" => Over /\ panel[p].price = Len(bids)

FormInv == \A p \in Pages : Justified(p)

LEMMA FormStep ==
  ASSUME Types, FormInv, [Next]_vars
  PROVE  FormInv'
  <1>1. PageTypes /\ LotTypes
    BY DEF Types
  <1>2. /\ Len(bids) \in Nat /\ Len(bids') \in Nat /\ Len(bids) <= Len(bids')
        /\ Over => Over' /\ bids' = bids
    BY <1>1, LotGrows, OverStays
  <1>3. ASSUME NEW p \in Pages PROVE Proposed(p) = panel[p].price + 1 /\ Proposed(p) \in Nat
    BY <1>1 DEF Proposed, PageTypes
  \* What the lot does cannot hurt a form, and a new request has no reason yet.
  <1>4. ASSUME NEW p \in Pages, phase'[p] = phase[p],
               panel'[p] = panel[p], reason'[p] = reason[p], offer'[p] = offer[p],
               \/ post'[p] = post[p]
               \/ /\ post'[p] \notin {"price", "over"}
                  /\ phase[p] = "loading" => post'[p] = "no"
        PROVE  Justified(p)'
    <2>1. Proposed(p)' = Proposed(p)
      BY <1>4 DEF Proposed
    <2>2. Proposed(p) <= Len(bids) => Proposed(p) <= Len(bids')
      BY <1>2, <1>3
    <2>3. Justified(p)
      BY DEF FormInv
    <2> QED
      BY <1>2, <1>4, <2>1, <2>2, <2>3, Zenon DEF Justified
  <1>5. CASE UNCHANGED <<phase, formVars>>
    BY <1>4, <1>5 DEF formVars, FormInv
  <1>6. ASSUME NEW p \in Pages,
               Justified(p)',
               \A q \in Pages \ {p} :
                 /\ phase'[q] = phase[q] /\ post'[q] = post[q] /\ panel'[q] = panel[q]
                 /\ reason'[q] = reason[q] /\ offer'[q] = offer[q]
        PROVE  FormInv'
    <2>1. \A q \in Pages \ {p} : Justified(q)'
      BY <1>4, <1>6
    <2> QED
      BY <1>6, <2>1 DEF FormInv
  <1>7. ASSUME NEW p \in Pages, Load(p) PROVE FormInv'
    <2>1. /\ phase'[p] = "loading" /\ post'[p] = "no" /\ reason'[p] = "none"
          /\ \A q \in Pages \ {p} :
               /\ phase'[q] = phase[q] /\ post'[q] = post[q] /\ panel'[q] = panel[q]
               /\ reason'[q] = reason[q] /\ offer'[q] = offer[q]
      BY <1>1, <1>7 DEF Load, PageTypes
    <2>2. Justified(p)'
      BY <2>1 DEF Justified
    <2> QED
      BY <1>6, <2>1, <2>2
  <1>8. ASSUME NEW p \in Pages, Render(p) \/ LoadFails(p) PROVE FormInv'
    <2>1. /\ phase[p] = "loading" /\ phase'[p] # "loading"
          /\ post' = post /\ reason' = reason /\ offer' = offer
          /\ \A q \in Pages \ {p} : phase'[q] = phase[q] /\ panel'[q] = panel[q]
      <3>1. shown[p].status \in {"active", "closed"}
        BY <1>1 DEF PageTypes, Statuses
      <3> QED
        BY <1>1, <1>8, <3>1 DEF Render, LoadFails, PageTypes, formVars
    <2>2. post[p] = "no" /\ reason[p] = "none"
      BY <2>1 DEF FormInv, Justified
    <2>3. Justified(p)'
      BY <2>1, <2>2 DEF Justified
    <2>4. \A q \in Pages \ {p} : post'[q] = post[q] /\ reason'[q] = reason[q] /\ offer'[q] = offer[q]
      BY <2>1
    <2> QED
      BY <1>6, <2>1, <2>3, <2>4
  <1>9. ASSUME UNCHANGED <<phase, panel, reason, offer>>,
               \A p \in Pages :
                 \/ post'[p] = post[p]
                 \/ post'[p] \notin {"price", "over"} /\ phase[p] # "loading"
        PROVE  FormInv'
    BY <1>4, <1>9 DEF FormInv
  \* Only a form that has no request under way, or one that is not loading,
  \* changes its request.
  <1>10. \A p \in Pages : post[p] # "no" => phase[p] # "loading"
    BY DEF FormInv, Justified
  <1>11. ASSUME NEW p \in Pages,
                \/ Submit(p) \/ Fail(p) \/ RereadFails(p)
                \/ \E t \in txs : AdmitForm(p, t)
         PROVE  FormInv'
    <2>1. /\ UNCHANGED <<phase, panel, reason, offer>>
          /\ phase[p] # "loading" /\ post'[p] \in {"sent", "error", "no", "admitted"}
          /\ \A q \in Pages \ {p} : post'[q] = post[q]
      BY <1>1, <1>10, <1>11 DEF Submit, Fail, RereadFails, AdmitForm, PageTypes, Refusals
    <2> QED
      BY <1>9, <2>1
  <1>12. ASSUME NEW p \in Pages, NEW t \in txs, Refuse(p, t) PROVE FormInv'
    <2>1. /\ phase' = phase /\ panel' = panel /\ reason' = reason /\ offer' = offer
          /\ bids' = bids /\ holder = 0
          /\ post[p] = "sent" /\ post'[p] = Why /\ \A q \in Pages \ {p} : post'[q] = post[q]
          /\ ~Accepting \/ Proposed(p) <= Len(bids)
      BY <1>1, <1>12 DEF Refuse, RowFree, PageTypes
    <2>2. /\ phase[p] # "loading"
          /\ post'[p] = "price" => Proposed(p) <= Len(bids)
          /\ post'[p] = "over" => Over'
      BY <1>2, <1>10, <2>1 DEF Why, Over
    <2>3. Proposed(p)' = Proposed(p) /\ Justified(p)
      BY <2>1 DEF Proposed, FormInv
    <2>4. Justified(p)'
      BY <1>2, <2>1, <2>2, <2>3 DEF Justified
    <2>5. \A q \in Pages \ {p} : /\ phase'[q] = phase[q] /\ panel'[q] = panel[q]
                                  /\ reason'[q] = reason[q] /\ offer'[q] = offer[q]
      BY <2>1
    <2> QED
      BY <1>6, <2>1, <2>4, <2>5
  <1>13. ASSUME NEW p \in Pages, Reread(p) PROVE FormInv'
    <2>1. /\ phase' = phase /\ post[p] \in Refusals /\ post'[p] = "no"
          /\ reason'[p] = post[p] /\ offer'[p] = Proposed(p) /\ panel'[p] = Form(Row)
          /\ bids' = bids
          /\ \A q \in Pages \ {p} :
               /\ phase'[q] = phase[q] /\ post'[q] = post[q] /\ panel'[q] = panel[q]
               /\ reason'[q] = reason[q] /\ offer'[q] = offer[q]
      BY <1>1, <1>13 DEF Reread, PageTypes, lotVars
    <2>2. Proposed(p)' = Len(bids) + 1 /\ panel'[p].price = Len(bids')
      BY <1>1, <2>1, RowType DEF Proposed
    <2>3. phase[p] # "loading" /\ Justified(p)
      BY <1>10, <2>1 DEF Refusals, FormInv
    <2>4. reason'[p] = "price" => Proposed(p)' > offer'[p]
      BY <1>2, <1>3, <2>1, <2>2, <2>3 DEF Justified
    <2>5. reason'[p] = "over" => Over' /\ panel'[p].price = Len(bids')
      BY <1>2, <2>1, <2>2, <2>3 DEF Justified
    <2>6. Justified(p)'
      BY <2>1, <2>3, <2>4, <2>5 DEF Justified
    <2> QED
      BY <1>6, <2>1, <2>6
  <1>14. ASSUME NEW p \in Pages, Answer(p) PROVE FormInv'
    <2>1. /\ phase' = phase /\ post'[p] = "no" /\ reason'[p] = "none"
          /\ \A q \in Pages \ {p} :
               /\ phase'[q] = phase[q] /\ post'[q] = post[q] /\ panel'[q] = panel[q]
               /\ reason'[q] = reason[q] /\ offer'[q] = offer[q]
      BY <1>1, <1>14 DEF Answer, PageTypes
    <2>2. Justified(p)'
      BY <2>1 DEF Justified
    <2> QED
      BY <1>6, <2>1, <2>2
  \* The request that holds the lock is that of a form.
  <1>15. ASSUME NEW outcome \in {"accepted", "error"}, post' = Resolve(outcome),
                UNCHANGED <<phase, panel, reason, offer>>
         PROVE  FormInv'
    <2>1. outcome \in Posts /\ outcome \notin {"price", "over"}
      BY DEF Posts, Refusals
    <2>2. \A p \in Pages : \/ post'[p] = post[p]
                           \/ post[p] = "admitted" /\ post'[p] = outcome
      BY <1>1, <1>15, <2>1, ResolveType
    <2> QED
      BY <1>9, <1>10, <1>15, <2>1, <2>2
  <1>16. CASE LoseReply \/ Rollback \/ \E r \in Replicas : Commit(r)
    BY <1>15, <1>16 DEF LoseReply, Rollback, Commit
  <1>17. CASE Breaks
    BY <1>5, <1>17, BreakFacts DEF Disconnect
  <1>18. CASE \/ BeginTx \/ Expire \/ UNCHANGED vars \/ CommitUnheard \/ CloseUnheard
              \/ \E t \in txs : Admit(t)
              \/ \E r \in Replicas : CloseLot(r)
              \/ \E k \in calls : Broadcast(k)
              \/ \E p \in Pages : Receive(p) \/ \E r \in Replicas : Connect(p, r)
    BY <1>5, <1>18 DEF vars, BeginTx, Expire, CommitUnheard, CloseUnheard, Closing, Admit, CloseLot,
       Broadcast, Receive, Connect
  <1>19. CASE Quiet
    BY <1>11, <1>12, <1>13, <1>14, <1>16, <1>18, <1>19, Zenon DEF Quiet
  <1> QED
    BY <1>7, <1>8, <1>16, <1>17, <1>18, <1>19, StepCases, Zenon

-----------------------------------------------------------------------------
(* The feed of a page. *)

OnItsWay(p, m) == m \in Items(chan[p]) \/ \E k \in calls : m \in Items(k.msgs)

\* What a page lacks is still on its way, unless it missed something or was
\* thrown back by an older message.
Fed(p) ==
  ~missed[p] /\ ~overtaken[p] =>
    /\ \A n \in Nat : n > shown[p].price /\ n <= Len(bids) => OnItsWay(p, NewBid(n))
    /\ \A x \in Nat : x > shown[p].ext /\ x <= ext => OnItsWay(p, Extended(x))

FeedInv == \A p \in Pages : Fed(p)

LEMMA FeedStep ==
  ASSUME Types, FeedInv, [Next]_vars
  PROVE  FeedInv'
  <1>1. PageTypes /\ LotTypes /\ Len(bids) \in Nat /\ ext \in Nat
    BY LotGrows DEF Types
  \* What only adds to the calls loses nothing.
  <1>2. ASSUME NEW p \in Pages, calls \subseteq calls', chan'[p] = chan[p], NEW m, OnItsWay(p, m)
        PROVE  OnItsWay(p, m)'
    BY <1>2 DEF OnItsWay
  <1>3. ASSUME NEW p \in Pages, calls \subseteq calls', chan'[p] = chan[p], shown'[p] = shown[p],
               UNCHANGED <<bids, ext>>, missed[p] => missed'[p], overtaken'[p] = overtaken[p]
        PROVE  Fed(p)'
    BY <1>2, <1>3 DEF FeedInv, Fed
  <1>4. CASE calls \subseteq calls' /\ UNCHANGED <<bids, ext, chan, shown, missed, overtaken>>
    BY <1>3, <1>4 DEF FeedInv
  <1>5. ASSUME NEW r \in Replicas, Commit(r) PROVE FeedInv'
    <2>1. PICK k \in Call :
            /\ calls' = calls \cup {k}
            /\ Items(k.msgs) = {NewBid(Len(bids'))} \cup
                               (IF ext' = ext THEN {} ELSE {Extended(ext')})
      BY <1>1, <1>5, CommitFacts
    <2>2. /\ Len(bids') = Len(bids) + 1 /\ ext' \in {ext, ext + 1}
          /\ UNCHANGED <<chan, shown, missed, overtaken>>
      BY <1>1, <1>5, RecordFacts DEF Commit, linkVars
    <2>3. PICK b \in Nat, e \in Nat : b = Len(bids') /\ e = ext'
      BY <1>1, <2>2
    <2>4. NewBid(b) \in Items(k.msgs) /\ (e # ext => Extended(e) \in Items(k.msgs))
      BY <2>1, <2>3
    <2> SUFFICES ASSUME NEW p \in Pages, ~missed[p], ~overtaken[p] PROVE Fed(p)'
      BY <2>2 DEF FeedInv, Fed
    <2>5. ASSUME NEW m, m \in Items(k.msgs) PROVE OnItsWay(p, m)'
      BY <2>1, <2>5 DEF OnItsWay
    <2>6. ASSUME NEW n \in Nat, n > shown[p].price, n <= Len(bids') PROVE OnItsWay(p, NewBid(n))'
      <3>1. n <= Len(bids) \/ n = b
        BY <1>1, <2>2, <2>3, <2>6
      <3>2. CASE n <= Len(bids)
        <4>1. OnItsWay(p, NewBid(n))
          BY <2>6, <3>2 DEF FeedInv, Fed
        <4> QED
          BY <1>2, <2>1, <2>2, <4>1
      <3>3. CASE n = b
        BY <2>4, <2>5, <3>3
      <3> QED
        BY <3>1, <3>2, <3>3
    <2>7. ASSUME NEW x \in Nat, x > shown[p].ext, x <= ext' PROVE OnItsWay(p, Extended(x))'
      <3>1. x <= ext \/ (x = e /\ e # ext)
        BY <1>1, <2>2, <2>3, <2>7
      <3>2. CASE x <= ext
        <4>1. OnItsWay(p, Extended(x))
          BY <2>7, <3>2 DEF FeedInv, Fed
        <4> QED
          BY <1>2, <2>1, <2>2, <4>1
      <3>3. CASE x = e /\ e # ext
        BY <2>4, <2>5, <3>3
      <3> QED
        BY <3>1, <3>2, <3>3
    <2> QED
      BY <2>2, <2>6, <2>7 DEF Fed
  <1>6. ASSUME NEW k \in calls, Broadcast(k) PROVE FeedInv'
    <2> DEFINE m == Head(k.msgs)
    <2>1. m \in Msg /\ Items(k.msgs) = {m} \cup UNION {Items(j.msgs) : j \in Rest(k)}
      <3>1. k \in Call /\ k.msgs # <<>>
        BY <1>1 DEF PageTypes
      <3> QED
        BY <3>1, RestFacts
    <2>2. /\ calls' = (calls \ {k}) \cup Rest(k)
          /\ chan' = [p \in Pages |-> IF conn[p] = k.at THEN Append(chan[p], m) ELSE chan[p]]
          /\ missed' = [p \in Pages |-> missed[p] \/ (conn[p] # k.at /\ Newer(p, m))]
          /\ UNCHANGED <<bids, ext, shown, overtaken>>
      BY <1>6 DEF Broadcast, Rest, lotVars
    <2> HIDE DEF m
    <2> SUFFICES ASSUME NEW p \in Pages, ~missed'[p], ~overtaken[p] PROVE Fed(p)'
      BY <2>2 DEF FeedInv, Fed
    <2>3. ~missed[p] /\ (conn[p] = k.at \/ ~Newer(p, m))
      BY <2>2
    <2>4. /\ Items(chan[p]) \subseteq Items(chan'[p])
          /\ conn[p] = k.at => m \in Items(chan'[p])
      <3>1. chan[p] \in Seq(Msg)
        BY <1>1 DEF PageTypes
      <3>2. Items(Append(chan[p], m)) = Items(chan[p]) \cup {m}
        BY <2>1, <3>1, ItemsAppend
      <3> QED
        BY <2>2, <3>2
    <2>5. ASSUME NEW i, OnItsWay(p, i) PROVE OnItsWay(p, i)' \/ (i = m /\ conn[p] # k.at)
      <3>1. CASE i \in Items(chan[p])
        BY <2>4, <3>1 DEF OnItsWay
      <3>2. ASSUME NEW j \in calls, j # k, i \in Items(j.msgs) PROVE OnItsWay(p, i)'
        BY <2>2, <3>2 DEF OnItsWay
      <3>3. ASSUME NEW j \in Rest(k), i \in Items(j.msgs) PROVE OnItsWay(p, i)'
        BY <2>2, <3>3 DEF OnItsWay
      <3>4. CASE i = m
        BY <2>4, <3>4 DEF OnItsWay
      <3> QED
        BY <2>1, <2>5, <3>1, <3>2, <3>3, <3>4 DEF OnItsWay
    <2>6. ASSUME NEW n \in Nat, n > shown[p].price, n <= Len(bids) PROVE OnItsWay(p, NewBid(n))'
      <3>1. OnItsWay(p, NewBid(n))
        BY <2>3, <2>6 DEF FeedInv, Fed
      <3>2. NewBid(n) = m => Newer(p, m)
        BY <2>6 DEF NewBid, Newer
      <3> QED
        BY <2>3, <2>5, <3>1, <3>2
    <2>7. ASSUME NEW x \in Nat, x > shown[p].ext, x <= ext PROVE OnItsWay(p, Extended(x))'
      <3>1. OnItsWay(p, Extended(x))
        BY <2>3, <2>7 DEF FeedInv, Fed
      <3>2. Extended(x) = m => Newer(p, m)
        BY <2>7 DEF Extended, Newer
      <3> QED
        BY <2>3, <2>5, <3>1, <3>2
    <2> QED
      BY <2>2, <2>6, <2>7 DEF Fed
  <1>7. ASSUME NEW p \in Pages, Load(p) PROVE FeedInv'
    <2>1. /\ shown'[p] = Row /\ UNCHANGED <<bids, ext, calls>>
          /\ \A q \in Pages \ {p} : /\ shown'[q] = shown[q] /\ chan'[q] = chan[q]
                                    /\ missed'[q] = missed[q] /\ overtaken'[q] = overtaken[q]
      BY <1>1, <1>7 DEF Load, PageTypes, lotVars
    <2>2. shown'[p].price = Len(bids') /\ shown'[p].ext = ext'
      BY <1>1, <2>1, RowType
    <2>3. Fed(p)'
      BY <1>1, <2>1, <2>2 DEF Fed
    <2>4. \A q \in Pages \ {p} : Fed(q)'
      BY <1>3, <2>1
    <2> QED
      BY <2>3, <2>4 DEF FeedInv
  <1>8. ASSUME NEW p \in Pages, Receive(p) PROVE FeedInv'
    <2>1. PICK m \in Msg :
            /\ Items(chan[p]) = {m} \cup Items(Tail(chan[p]))
            /\ chan' = [chan EXCEPT ![p] = Tail(chan[p])]
            /\ overtaken' = [overtaken EXCEPT ![p] = overtaken[p] \/ Older(p, m)]
            /\ \A q \in Pages \ {p} : shown'[q] = shown[q]
            /\ shown'[p].price = IF m.type = "new_bid" THEN m.value ELSE shown[p].price
            /\ shown'[p].ext = IF m.type = "lot_extended" THEN m.value ELSE shown[p].ext
            /\ UNCHANGED <<lotVars, calls, missed>>
      BY <1>1, <1>8, ReceiveFacts
    <2>2. /\ UNCHANGED <<bids, ext, calls, missed>> /\ Items(chan'[p]) = Items(Tail(chan[p]))
          /\ \A q \in Pages \ {p} : chan'[q] = chan[q] /\ overtaken'[q] = overtaken[q]
          /\ overtaken'[p] = (overtaken[p] \/ Older(p, m))
      BY <1>1, <2>1 DEF PageTypes, lotVars
    <2>3. \A q \in Pages \ {p} : Fed(q)'
      BY <1>3, <2>1, <2>2
    <2>4. ASSUME ~missed[p], ~overtaken'[p] PROVE Fed(p)'
      <3>1. ~overtaken[p] /\ ~Older(p, m)
        BY <2>2, <2>4
      <3>2. ASSUME NEW i, i # m, OnItsWay(p, i) PROVE OnItsWay(p, i)'
        BY <2>1, <2>2, <3>2 DEF OnItsWay
      <3>3. m.value \in Nat /\ shown[p].price \in Nat /\ shown[p].ext \in Nat
        BY <1>1 DEF Msg, PageTypes
      <3>4. ASSUME NEW n \in Nat, n > shown'[p].price, n <= Len(bids) PROVE OnItsWay(p, NewBid(n))'
        <4>1. n > shown[p].price /\ NewBid(n) # m
          <5>1. CASE m.type = "new_bid"
            <6>1. m.value >= shown[p].price
              BY <3>1, <3>3, <5>1 DEF Older
            <6>2. n > m.value
              BY <2>1, <3>4, <5>1
            <6> QED
              BY <3>3, <6>1, <6>2 DEF NewBid
          <5>2. CASE m.type # "new_bid"
            BY <2>1, <3>4, <5>2 DEF NewBid
          <5> QED
            BY <5>1, <5>2
        <4>2. OnItsWay(p, NewBid(n))
          BY <2>4, <3>1, <3>4, <4>1 DEF FeedInv, Fed
        <4> QED
          BY <3>2, <4>1, <4>2
      <3>5. ASSUME NEW x \in Nat, x > shown'[p].ext, x <= ext PROVE OnItsWay(p, Extended(x))'
        <4>1. x > shown[p].ext /\ Extended(x) # m
          <5>1. CASE m.type = "lot_extended"
            <6>1. m.value >= shown[p].ext
              BY <3>1, <3>3, <5>1 DEF Older
            <6>2. x > m.value
              BY <2>1, <3>5, <5>1
            <6> QED
              BY <3>3, <6>1, <6>2 DEF Extended
          <5>2. CASE m.type # "lot_extended"
            BY <2>1, <3>5, <5>2 DEF Extended
          <5> QED
            BY <5>1, <5>2
        <4>2. OnItsWay(p, Extended(x))
          BY <2>4, <3>1, <3>5, <4>1 DEF FeedInv, Fed
        <4> QED
          BY <3>2, <4>1, <4>2
      <3> QED
        BY <2>2, <3>4, <3>5 DEF Fed
    <2>5. Fed(p)'
      BY <2>2, <2>4 DEF Fed
    <2> QED
      BY <2>3, <2>5 DEF FeedInv
  <1>9. CASE Breaks
    <2>1. PICK lost \in SUBSET Pages, kept \in SUBSET calls : Disconnect(lost, kept)
      BY <1>9, BreakFacts
    <2>2. /\ calls' = kept /\ UNCHANGED <<bids, ext, shown, overtaken>>
          /\ missed' = [p \in Pages |-> missed[p] \/ chan'[p] # chan[p] \/ kept # calls]
      BY <2>1 DEF Disconnect, lotVars
    <2> SUFFICES ASSUME NEW p \in Pages, ~missed'[p], ~overtaken[p] PROVE Fed(p)'
      BY <2>2 DEF FeedInv, Fed
    <2>3. ~missed[p] /\ chan'[p] = chan[p] /\ calls' = calls
      BY <2>2
    <2> QED
      BY <1>3, <2>2, <2>3
  <1>10. CASE CloseUnheard \/ \E r \in Replicas : CloseLot(r)
    BY <1>4, <1>10 DEF CloseUnheard, CloseLot, Closing, linkVars
  <1>11. CASE \E p \in Pages :
                \/ LoadFails(p) \/ Render(p)
                \/ \E r \in Replicas : Connect(p, r)
    BY <1>4, <1>11 DEF LoadFails, Render, Connect, linkVars, lotVars
  <1>12. CASE Quiet
    BY <1>4, <1>12, QuietFacts DEF linkVars
  \* A bid nobody hears of is missed by all.
  <1>13. CASE CommitUnheard
    BY <1>13 DEF CommitUnheard, FeedInv, Fed
  <1> QED
    BY <1>5, <1>6, <1>7, <1>8, <1>9, <1>10, <1>11, <1>12, <1>13, StepCases, Zenon

-----------------------------------------------------------------------------
(* The theorems. *)

PageInv ==
  /\ Types /\ MsgInv /\ ShownInv /\ ConnInv /\ FinalInv
  /\ FormInv /\ FeedInv

LEMMA PageInit == Init => PageInv
  <1> SUFFICES ASSUME Init PROVE PageInv
    OBVIOUS
  <1>1. Types /\ Len(bids) = 0 /\ ext = 0 /\ calls = {} /\ Items(<<>>) = {}
    BY TypesInit DEF Init, Items
  <1>2. \A p \in Pages : /\ chan[p] = <<>> /\ conn[p] = None /\ history[p] = <<>>
                         /\ shown[p] = Row /\ phase[p] = "none" /\ post[p] = "no"
                         /\ reason[p] = "none"
    BY DEF Init
  <1>3. Row.price = 0 /\ Row.ext = 0
    BY <1>1 DEF Row
  <1>4. MsgInv /\ ConnInv
    BY <1>1, <1>2 DEF MsgInv, ConnInv
  <1>5. ShownInv
    <2>1. 0 \in 0..Len(bids) /\ 0 \in 0..ext
      BY <1>1
    <2>2. \A p \in Pages : Items(history[p]) = {}
      BY <1>1, <1>2
    <2> QED
      BY <1>2, <1>3, <2>1, <2>2 DEF ShownInv
  <1>6. FinalInv /\ FormInv
    BY <1>2 DEF FinalInv, FormInv, Justified
  <1>7. FeedInv
    BY <1>1, <1>2, <1>3 DEF FeedInv, Fed
  <1> QED
    BY <1>1, <1>4, <1>5, <1>6, <1>7 DEF PageInv

LEMMA PageStep == PageInv /\ [Next]_vars => PageInv'
  BY TypesStep, MsgStep, ShownStep, ConnStep, FinalStep, FormStep, FeedStep, Zenon DEF PageInv

LEMMA PageAlways == Spec => []PageInv
  BY PageInit, PageStep, PTL DEF Spec

LEMMA PageImplies ==
  ASSUME PageInv
  PROVE  TypeOK /\ ClosedPageIsFinal /\ StaleForAReason
  <1>1. Types /\ LotTypes /\ PageTypes
    BY DEF PageInv, Types
  <1>2. TypeOK
    <2>1. ASSUME NEW p \in Pages
          PROVE  /\ shown[p].price \in 0..Len(bids) /\ shown[p].ext \in 0..ext
                 /\ \A i \in DOMAIN history[p] : history[p][i] \in 1..Len(bids)
                 /\ conn[p] # None => phase[p] = "active"
      BY DEF PageInv, ShownInv, ConnInv, Items
    <2> QED
      BY <1>1, <2>1 DEF TypeOK, LotTypes, BidTypes, LockTypes, PageTypes, Statuses
  <1>3. ClosedPageIsFinal
    BY DEF PageInv, FinalInv, ClosedPageIsFinal
  <1>4. StaleForAReason
    <2> SUFFICES ASSUME NEW p \in Pages, Settled(p), ~overtaken[p]
                 PROVE  shown[p].price = Len(bids) /\ shown[p].ext = ext
      BY DEF StaleForAReason
    <2>1. Fed(p) /\ ~missed[p] /\ ~overtaken[p] /\ chan[p] = <<>> /\ Items(<<>>) = {}
      BY DEF PageInv, FeedInv, Settled, Items
    <2>2. ASSUME NEW m, OnItsWay(p, m) PROVE m.type = "lot_closed"
      <3>1. PICK k \in calls : m \in Items(k.msgs)
        BY <2>1, <2>2 DEF OnItsWay
      <3>2. k.bid = 0
        BY DEF Settled
      <3> QED
        BY <3>1, <3>2 DEF PageInv, MsgInv
    <2>3. /\ \A n \in Nat : ~OnItsWay(p, NewBid(n))
          /\ \A x \in Nat : ~OnItsWay(p, Extended(x))
      BY <2>2 DEF NewBid, Extended
    <2>4. shown[p].price \in 0..Len(bids) /\ shown[p].ext \in 0..ext
      BY DEF PageInv, ShownInv
    <2>5. Len(bids) \in Nat /\ ext \in Nat
      BY <1>1, RowType DEF LotTypes, BidTypes
    <2>6. /\ ~(Len(bids) > shown[p].price /\ Len(bids) <= Len(bids))
          /\ ~(ext > shown[p].ext /\ ext <= ext)
      BY <2>1, <2>3, <2>5 DEF Fed
    <2> QED
      BY <2>4, <2>5, <2>6
  <1> QED
    BY <1>2, <1>3, <1>4

\* Every variable keeps its type, and no page ever shows a bid, a price or an
\* extension that was not committed: the broadcasts of engine.go:131 follow
\* the commit, and the page was rendered from committed rows.
THEOREM PageTypeOK == Spec => []TypeOK
  BY PageAlways, PageImplies, PTL

\* A page that says the lot is closed shows its final price and the list of
\* recent bids as it stays: the lot was read before the list, and no bid
\* commits after the closing (handlers.go:67-72).
THEOREM ClosedPagesAreFinal == Spec => []ClosedPageIsFinal
  BY PageAlways, PageImplies, PTL

\* A form that comes back because of the price proposes more than the amount
\* refused: the row read for it is not older than the one the bid was compared
\* with.  One that comes back because the lot was closed, or its time over while
\* it still says active, shows the final price: the refusal waited for the row,
\* so that no bid admitted earlier was left to raise it.  Of refusals by an error
\* nothing is said (engine.go:84-98, handlers.go:134-141).
THEOREM RefusalsAreExplained == Spec => []RefusalIsExplained
  <1>1. PageInv => RefusalIsExplained
    BY DEF PageInv, FormInv, Justified, RefusalIsExplained
  <1> QED
    BY <1>1, PageAlways, PTL

\* When all broadcasts are over, a connected page shows the price and the
\* closing time of the lot, unless it was not connected to the replica that
\* sent a message or an older message came after a newer one: everything a
\* page lacks is on its way until one of the two happens (lot.templ:159-205).
THEOREM PagesAreStaleForAReason == Spec => []StaleForAReason
  BY PageAlways, PageImplies, PTL

=============================================================================
