------------------------------ MODULE LivePage ------------------------------
(***************************************************************************)
(* One lot as its pages show it.  The server renders a page from two       *)
(* reads (the lot, then its recent bids); the script of the page then      *)
(* applies the messages of one WebSocket connection to one replica.  What  *)
(* AuctionEngine and WebSocketHub establish is taken for granted: bids     *)
(* commit one after the other, each higher than the last, and a broadcast  *)
(* reaches the pages connected to its replica.  The broadcasts of          *)
(* different bids are not ordered: they run after the commit, outside any  *)
(* lock.  The n-th bid to commit has the amount n.  The replicas and the   *)
(* database agree on the time.                                             *)
(***************************************************************************)
EXTENDS Integers, Sequences

CONSTANTS
  Pages, Replicas,
  MaxBids,     \* bound: transactions begun
  PageRows,    \* rows of the list of recent bids (20 in the code)
  MaxFaults,   \* bound: lost connections, restarts, failed requests
  None

ASSUME PageAssumption ==
  /\ MaxBids \in Nat /\ PageRows \in Nat \ {0} /\ MaxFaults \in Nat
  /\ None \notin Replicas

VARIABLES
  began,       \* transactions begun: the stamps NOW() gives, in order
  txs,         \* the stamps of those that have neither committed nor failed
  bids,        \* the stamp of each bid, in the order of their commits
  ext,         \* lots.extended_count, which grows with closing_at
  status,      \* lots.status
  overdue,     \* closing_at has passed
  holder,      \* the admitted transaction, which holds the row lock, or 0
  unheard,     \* the reply to its COMMIT is lost
  calls,       \* goroutines with broadcasts left: replica, bid, messages
  phase,       \* "none", "loading", "active", "closed" or "error", per page
  shown,       \* the lot as the page shows it
  history,     \* the amounts under "Recent bids", top first
  conn,        \* the replica of the page's connection, or None
  chan,        \* messages on their way to the page
  reload,      \* the page is about to reload itself
  overtaken,   \* the page received a message older than what it showed
  missed,      \* a message newer than the page was sent while it was not connected,
               \* or never
  post,        \* the request of the form: "no", "sent", "admitted", "accepted" or
               \* the reason of its refusal
  mine,        \* the amount of the bid that was accepted
  panel,       \* price and status as the bid form shows them
  reason,      \* why the form came back with a refusal, or "none"
  offer,       \* the amount it was refused for
  faults

lockVars == <<overdue, holder, unheard>>
lotVars  == <<began, txs, bids, ext, status, lockVars>>
linkVars == <<conn, chan, missed, overtaken>>
formVars == <<post, mine, panel, reason, offer>>
vars == <<lotVars, calls, phase, shown, history, reload, linkVars, formVars, faults>>

Refusals == {"price", "over", "error"}

Row == [price |-> Len(bids), ext |-> ext, status |-> status]

Form(row) == [price |-> row.price, status |-> row.status]

\* GetRecentBids: the last PageRows bids by created_at, the start of the
\* transaction, not by amount; as a set, because that is what an order leaves.
Rows == IF Len(bids) < PageRows THEN Len(bids) ELSE PageRows
RecentBids ==
  {list \in [1..Rows -> DOMAIN bids] :
     /\ \A i, j \in 1..Rows : i < j => bids[list[i]] > bids[list[j]]
     /\ \A n \in DOMAIN bids : \A i \in 1..Rows :
          bids[n] > bids[list[i]] => \E j \in 1..Rows : list[j] = n}

Init ==
  /\ began = 0 /\ txs = {} /\ bids = <<>> /\ ext = 0 /\ status = "active"
  /\ overdue = FALSE /\ holder = 0 /\ unheard = FALSE
  /\ calls = {}
  /\ phase   = [p \in Pages |-> "none"]
  /\ shown   = [p \in Pages |-> Row]
  /\ history = [p \in Pages |-> <<>>]
  /\ conn    = [p \in Pages |-> None]
  /\ chan    = [p \in Pages |-> <<>>]
  /\ reload  = [p \in Pages |-> FALSE]
  /\ missed  = [p \in Pages |-> FALSE]
  /\ overtaken = [p \in Pages |-> FALSE]
  /\ post    = [p \in Pages |-> "no"]
  /\ mine    = [p \in Pages |-> 0]
  /\ panel   = [p \in Pages |-> Form(Row)]
  /\ reason  = [p \in Pages |-> "none"]
  /\ offer   = [p \in Pages |-> 0]
  /\ faults  = 0

-----------------------------------------------------------------------------
(* The lot *)

\* One failure more.
Fault == faults < MaxFaults /\ faults' = faults + 1

BeginTx ==
  /\ began < MaxBids
  /\ began' = began + 1 /\ txs' = txs \cup {began'}
  /\ UNCHANGED <<bids, ext, status, lockVars, calls, phase, shown, history, reload, linkVars, formVars, faults>>

Expire ==
  /\ status = "active" /\ ~overdue
  /\ overdue' = TRUE
  /\ UNCHANGED <<began, txs, bids, ext, status, holder, unheard>>
  /\ UNCHANGED <<calls, phase, shown, history, reload, linkVars, formVars, faults>>

\* Mutant: the SELECT does not wait for a row that is locked.
NoRowLock == TRUE

\* GetLotByID FOR UPDATE has the row.
RowFree == holder = 0

\* Mutant: neither the status nor the time is tested.
AcceptsAlways == TRUE
Accepting == status = "active" /\ ~overdue

\* Transaction t has locked the row and passed the tests.
Admission(t) ==
  /\ RowFree /\ Accepting /\ t \in txs
  /\ holder' = t
  /\ UNCHANGED <<began, txs, bids, ext, status, overdue, unheard>>

\* A bid of somebody else.
Admit(t) ==
  /\ Admission(t)
  /\ UNCHANGED <<calls, phase, shown, history, reload, linkVars, formVars, faults>>

\* The bid row and the lot with its new price, maybe extended, are written.
Record ==
  /\ holder # 0 /\ holder' = 0 /\ unheard' = FALSE
  /\ txs' = txs \ {holder}
  /\ bids' = Append(bids, holder)
  /\ \/ UNCHANGED <<ext, overdue>>
     \/ ext' = ext + 1 /\ overdue' = FALSE
  /\ UNCHANGED <<began, status>>

\* Mutant: a bid that extends the lot sends lot_extended in place of new_bid.
OnlyExtended(n, x) ==
  IF x = ext THEN <<[type |-> "new_bid", value |-> n]>> ELSE <<[type |-> "lot_extended", value |-> x]>>

\* What PlaceBid broadcasts after the n-th bid, x being the extensions then.
Messages(n, x) ==
  <<[type |-> "new_bid", value |-> n]>>
    \o (IF x = ext THEN <<>> ELSE <<[type |-> "lot_extended", value |-> x]>>)

\* What becomes of the form whose bid holds the lock.
Resolve(outcome) == [p \in Pages |-> IF post[p] = "admitted" THEN outcome ELSE post[p]]

\* COMMIT, heard of on replica r; the broadcasts follow.
Commit(r) ==
  /\ ~unheard /\ Record
  /\ calls' = calls \cup {[at |-> r, bid |-> Len(bids'), msgs |-> Messages(Len(bids'), ext')]}
  /\ post' = Resolve("accepted")
  /\ mine' = [p \in Pages |-> IF post[p] = "admitted" THEN Len(bids') ELSE mine[p]]
  /\ UNCHANGED <<phase, shown, history, reload, linkVars, panel, reason, offer, faults>>

\* PlaceBid gives up on the reply to its COMMIT; the bid is recorded in
\* silence, or not at all (Rollback).
LoseReply ==
  /\ Fault /\ holder # 0 /\ ~unheard
  /\ unheard' = TRUE
  /\ post' = Resolve("error")
  /\ UNCHANGED <<began, txs, bids, ext, status, overdue, holder>>
  /\ UNCHANGED <<calls, phase, shown, history, reload, linkVars, mine, panel, reason, offer>>

CommitUnheard ==
  /\ unheard /\ Record
  /\ missed' = [p \in Pages |-> TRUE]
  /\ UNCHANGED <<calls, phase, shown, history, reload, conn, chan, overtaken, formVars, faults>>

\* A statement of the transaction fails, or its time is up.
Rollback ==
  /\ Fault /\ holder # 0
  /\ holder' = 0 /\ unheard' = FALSE /\ txs' = txs \ {holder}
  /\ post' = Resolve("error")
  /\ UNCHANGED <<began, bids, ext, status, overdue>>
  /\ UNCHANGED <<calls, phase, shown, history, reload, linkVars, mine, panel, reason, offer>>

\* The UPDATE of a closer waits for the lock and finds the version it read.
Closing ==
  /\ status = "active" /\ overdue /\ holder = 0
  /\ status' = "closed"
  /\ UNCHANGED <<began, txs, bids, ext, lockVars, phase, shown, history, reload, linkVars, formVars>>

CloseLot(r) ==
  /\ Closing
  /\ calls' = calls \cup {[at |-> r, bid |-> 0, msgs |-> <<[type |-> "lot_closed", value |-> 0]>>]}
  /\ UNCHANGED faults

\* The reply to the UPDATE is lost: nobody is told.
CloseUnheard == Closing /\ Fault /\ UNCHANGED calls

Newer(p, m) ==
  \/ m.type = "new_bid"      /\ m.value > shown[p].price
  \/ m.type = "lot_extended" /\ m.value > shown[p].ext
  \/ m.type = "lot_closed"

Older(p, m) ==
  \/ m.type = "new_bid"      /\ m.value < shown[p].price
  \/ m.type = "lot_extended" /\ m.value < shown[p].ext

\* BroadcastToLot on the replica of the goroutine.
Broadcast(k) ==
  LET m == Head(k.msgs) IN
    /\ calls' = (calls \ {k}) \cup (IF Len(k.msgs) = 1 THEN {} ELSE {[k EXCEPT !.msgs = Tail(@)]})
    /\ chan' = [p \in Pages |-> IF conn[p] = k.at THEN Append(chan[p], m) ELSE chan[p]]
    /\ missed' = [p \in Pages |-> missed[p] \/ (conn[p] # k.at /\ Newer(p, m))]
    /\ UNCHANGED <<lotVars, phase, shown, history, reload, conn, overtaken, formVars, faults>>

-----------------------------------------------------------------------------
(* Loading the page *)

\* LotPage reads the lot; leaving the old page closes its connection.
Load(p) ==
  /\ phase' = [phase EXCEPT ![p] = "loading"]
  /\ shown' = [shown EXCEPT ![p] = Row]
  /\ conn' = [conn EXCEPT ![p] = None] /\ chan' = [chan EXCEPT ![p] = <<>>]
  /\ reload' = [reload EXCEPT ![p] = FALSE]
  /\ missed' = [missed EXCEPT ![p] = FALSE] /\ overtaken' = [overtaken EXCEPT ![p] = FALSE]
  /\ post' = [post EXCEPT ![p] = "no"]
  /\ reason' = [reason EXCEPT ![p] = "none"] /\ offer' = [offer EXCEPT ![p] = 0]
  /\ UNCHANGED <<lotVars, calls, history, mine, panel, faults>>

Open(p) == phase[p] # "loading" /\ ~reload[p] /\ Load(p)
Reload(p) == reload[p] /\ Load(p)

\* Mutant: the page is rendered for an active lot whatever the row says.
RendersActive(p) ==
  /\ phase[p] = "loading"
  /\ \E list \in RecentBids : history' = [history EXCEPT ![p] = list]
  /\ phase' = [phase EXCEPT ![p] = "active"]
  /\ panel' = [panel EXCEPT ![p] = Form(shown[p])]
  /\ UNCHANGED <<lotVars, calls, shown, reload, linkVars, post, mine, reason, offer, faults>>

\* LotPage reads the bids and renders; only the page of an active lot gets
\* the script and the form.
Render(p) ==
  /\ phase[p] = "loading"
  /\ \E list \in RecentBids : history' = [history EXCEPT ![p] = list]
  /\ phase' = [phase EXCEPT ![p] = shown[p].status]
  /\ panel' = [panel EXCEPT ![p] = Form(shown[p])]
  /\ UNCHANGED <<lotVars, calls, shown, reload, linkVars, post, mine, reason, offer, faults>>

\* One of the two reads fails: 404 or 500, with neither script nor form.
LoadFails(p) ==
  /\ Fault /\ phase[p] = "loading"
  /\ phase' = [phase EXCEPT ![p] = "error"]
  /\ UNCHANGED <<lotVars, calls, shown, history, reload, linkVars, formVars>>

-----------------------------------------------------------------------------
(* The script *)

\* connect(), at first and after every onclose; nothing is caught up with.
Connect(p, r) ==
  /\ phase[p] = "active" /\ conn[p] = None
  /\ conn' = [conn EXCEPT ![p] = r]
  /\ UNCHANGED <<lotVars, calls, phase, shown, history, reload, chan, missed, overtaken, formVars, faults>>

\* onMessage
Receive(p) ==
  /\ chan[p] # <<>>
  /\ chan' = [chan EXCEPT ![p] = Tail(@)]
  /\ overtaken' = [overtaken EXCEPT ![p] = @ \/ Older(p, Head(chan[p]))]
  /\ LET m == Head(chan[p]) IN
       \/ /\ m.type = "new_bid"
          /\ shown' = [shown EXCEPT ![p].price = m.value]
          /\ history' = [history EXCEPT ![p] = <<m.value>> \o @]
          /\ UNCHANGED reload
       \/ /\ m.type = "lot_extended"
          /\ shown' = [shown EXCEPT ![p].ext = m.value]
          /\ UNCHANGED <<history, reload>>
       \/ /\ m.type = "lot_closed"
          /\ reload' = [reload EXCEPT ![p] = TRUE]
          /\ UNCHANGED <<shown, history>>
  /\ UNCHANGED <<lotVars, calls, phase, conn, missed, formVars, faults>>

\* Connections are lost with what was on its way; unsent broadcasts may be
\* lost with them.
Disconnect(lost, kept) ==
  /\ Fault
  /\ calls' = kept
  /\ conn' = [p \in Pages |-> IF p \in lost THEN None ELSE conn[p]]
  /\ chan' = [p \in Pages |-> IF p \in lost THEN <<>> ELSE chan[p]]
  /\ missed' = [p \in Pages |-> missed[p] \/ chan'[p] # chan[p] \/ kept # calls]
  /\ UNCHANGED <<lotVars, overtaken, phase, shown, history, reload, formVars>>

Drop(p) == conn[p] # None /\ Disconnect({p}, calls)

\* A replica stops: its goroutines never finish their broadcasts.
Restart(r) == Disconnect({p \in Pages : conn[p] = r}, {k \in calls : k.at # r})

-----------------------------------------------------------------------------
(* The bid form *)

\* The amount the form proposes: one step above the price it shows.
Proposed(p) == panel[p].price + 1

Submit(p) ==
  /\ phase[p] = "active" /\ panel[p].status = "active" /\ post[p] = "no"
  /\ post' = [post EXCEPT ![p] = "sent"]
  /\ UNCHANGED <<lotVars, calls, phase, shown, history, reload, linkVars, mine, panel, reason, offer, faults>>

AdmitForm(p, t) ==
  /\ post[p] = "sent" /\ Proposed(p) > Len(bids)
  /\ Admission(t)
  /\ post' = [post EXCEPT ![p] = "admitted"]
  /\ UNCHANGED <<calls, phase, shown, history, reload, linkVars, mine, panel, reason, offer, faults>>

\* The status and the time are tested first.
Why == IF Accepting THEN "price" ELSE "over"

\* Mutant: a refused bid is broadcast all the same.
RefusesAloud(p, t) ==
  /\ post[p] = "sent" /\ t \in txs /\ RowFree
  /\ ~Accepting \/ Proposed(p) <= Len(bids)
  /\ post' = [post EXCEPT ![p] = Why]
  /\ txs' = txs \ {t}
  /\ calls' = calls \cup {[at |-> r, bid |-> Len(bids) + 1,
                           msgs |-> <<[type |-> "new_bid", value |-> Len(bids) + 1]>>] : r \in Replicas}
  /\ UNCHANGED <<began, bids, ext, status, lockVars, phase, shown, history, reload, linkVars, mine, panel, reason, offer, faults>>

\* The lot is closed, or its time is over, or it has that price already.
Refuse(p, t) ==
  /\ post[p] = "sent" /\ t \in txs /\ RowFree
  /\ ~Accepting \/ Proposed(p) <= Len(bids)
  /\ post' = [post EXCEPT ![p] = Why]
  /\ txs' = txs \ {t}
  /\ UNCHANGED <<began, bids, ext, status, lockVars, calls, phase, shown, history, reload, linkVars, mine, panel, reason, offer, faults>>

\* PlaceBid fails before it has the row: no connection, no lot, no time.
Fail(p) ==
  /\ Fault /\ post[p] = "sent"
  /\ post' = [post EXCEPT ![p] = "error"]
  /\ UNCHANGED <<lotVars, calls, phase, shown, history, reload, linkVars, mine, panel, reason, offer>>

\* After an error the handler reads the lot again, without a lock.
Reread(p) ==
  /\ post[p] \in Refusals
  /\ reason' = [reason EXCEPT ![p] = post[p]] /\ offer' = [offer EXCEPT ![p] = Proposed(p)]
  /\ panel' = [panel EXCEPT ![p] = Form(Row)]
  /\ post' = [post EXCEPT ![p] = "no"]
  /\ UNCHANGED <<lotVars, calls, phase, shown, history, reload, linkVars, mine, faults>>

\* That read fails, too: htmx keeps the form it has when the answer is 500.
RereadFails(p) ==
  /\ Fault /\ post[p] \in Refusals
  /\ post' = [post EXCEPT ![p] = "no"]
  /\ UNCHANGED <<lotVars, calls, phase, shown, history, reload, linkVars, mine, panel, reason, offer>>

\* PlaceBid returns after its broadcasts; the form shows the bid's own row.
Answer(p) ==
  /\ post[p] = "accepted" /\ \A k \in calls : k.bid # mine[p]
  /\ panel' = [panel EXCEPT ![p] = [price |-> mine[p], status |-> "active"]]
  /\ reason' = [reason EXCEPT ![p] = "none"] /\ offer' = [offer EXCEPT ![p] = 0]
  /\ post' = [post EXCEPT ![p] = "no"]
  /\ UNCHANGED <<lotVars, calls, phase, shown, history, reload, linkVars, mine, faults>>

-----------------------------------------------------------------------------
Next ==
  \/ BeginTx \/ Expire \/ LoseReply \/ CommitUnheard \/ Rollback \/ CloseUnheard
  \/ \E t \in txs : Admit(t)
  \/ \E r \in Replicas : Commit(r) \/ CloseLot(r) \/ Restart(r)
  \/ \E k \in calls : Broadcast(k)
  \/ \E p \in Pages :
       \/ Open(p) \/ Reload(p) \/ LoadFails(p) \/ Render(p)
       \/ \E r \in Replicas : Connect(p, r)
       \/ Receive(p) \/ Drop(p)
       \/ Submit(p) \/ Fail(p) \/ Reread(p) \/ RereadFails(p) \/ Answer(p)
       \/ \E t \in txs : AdmitForm(p, t) \/ Refuse(p, t)

\* A browser handles the messages it has, its timer fires and its requests
\* are answered, be it with an error.
Spec ==
  /\ Init /\ [][Next]_vars
  /\ \A p \in Pages : WF_vars(Render(p)) /\ WF_vars(Receive(p)) /\ WF_vars(Reload(p))

-----------------------------------------------------------------------------
(* Properties *)

\* Every variable keeps its type, and a page never shows a bid, a price or an
\* extension that was not committed (engine.go:131 comes after the commit).
TypeOK ==
  /\ began \in 0..MaxBids /\ txs \subseteq 1..began /\ status \in {"active", "closed"}
  /\ \A n \in DOMAIN bids : bids[n] \in (1..began) \ txs
  /\ overdue \in BOOLEAN /\ holder \in txs \cup {0} /\ (unheard => holder # 0)
  /\ phase \in [Pages -> {"none", "loading", "active", "closed", "error"}]
  /\ conn \in [Pages -> Replicas \cup {None}]
  /\ \A p \in Pages :
       /\ shown[p].price \in 0..Len(bids) /\ shown[p].ext \in 0..ext
       /\ \A i \in DOMAIN history[p] : history[p][i] \in 1..Len(bids)
       /\ conn[p] # None => phase[p] = "active"

\* A page that says the lot is closed shows the final price and the list of
\* bids is as complete as it ever gets, although the two were read apart:
\* the lot first, when no bid could follow (handlers.go:67-72).
ClosedPageIsFinal ==
  \A p \in Pages : phase[p] = "closed" => shown[p] = Row /\ history[p] \in RecentBids

\* A form that comes back because of the price proposes more than the amount
\* refused, and one that comes back because the lot was closed or its time over
\* shows the final price: nobody is told so while a bid admitted earlier can
\* still raise the price or extend the lot.  The form itself may be offered on,
\* with the very same amount, until the lot is closed; and of a refusal by an
\* error nothing is promised (engine.go:84-98, handlers.go:134-141).
RefusalIsExplained ==
  \A p \in Pages : phase[p] = "active" =>
    /\ reason[p] = "price" => Proposed(p) > offer[p]
    /\ reason[p] = "over"  => panel[p].price = Len(bids)

\* A page of an active lot with nothing on its way to it.
Settled(p) ==
  /\ phase[p] = "active" /\ conn[p] # None /\ chan[p] = <<>> /\ ~missed[p]
  /\ \A k \in calls : k.bid = 0

\* A page is current when all broadcasts are over, except for two reasons:
\* something was sent while it was loading, disconnected or connected to
\* another replica, or an older message came after it showed a newer one
\* (lot.templ:159-205).
StaleForAReason ==
  \A p \in Pages : Settled(p) /\ ~overtaken[p] => shown[p].price = Len(bids) /\ shown[p].ext = ext

\* What the API description promises of the feed: a page that was connected
\* all along shows the price of the lot once all events are in
\* (openapi.yaml:173-174).
ShowsCurrentPrice == \A p \in Pages : Settled(p) => shown[p].price = Len(bids)

\* A page to which lot_closed is on its way shows the closed lot in the end,
\* or an error page when the lot cannot be read, unless its connection breaks
\* first: the page reloads, and the row was written before the message
\* (engine.go:173-179, lot.templ:206-208, handlers.go:68-76).
ClosingReachesPage ==
  \A p \in Pages :
    (reload[p] \/ \E i \in DOMAIN chan[p] : chan[p][i].type = "lot_closed")
      ~> (phase[p] \in {"closed", "error"} \/ (phase[p] = "active" /\ conn[p] = None /\ missed[p]))
=============================================================================
