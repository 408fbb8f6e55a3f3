------------------------------ MODULE Auction ------------------------------
(***************************************************************************)
(* What an auction promises, with no database, goroutine, timer or clock:  *)
(* a lot is opened once at a start price, every accepted bid raises the    *)
(* price by at least the minimum step, and closing the lot, which happens  *)
(* once, makes the bidder who leads at that moment the winner.             *)
(* AuctionEngine implements this specification (see Promise there).        *)
(* Prices are whole cents.                                                 *)
(***************************************************************************)
EXTENDS Integers

CONSTANTS
  Lots,       \* lot ids
  Bidders,    \* who can bid
  Nobody,     \* no leader, no winner
  Start,      \* start price of a lot
  Step,       \* minimum step of a lot
  Prices      \* prices a bid can reach

VARIABLES
  status,     \* "absent", "active" or "closed", for each lot
  price,      \* current price
  leader,     \* who placed the highest bid
  winner      \* who won

vars == <<status, price, leader, winner>>

Init ==
  /\ status = [l \in Lots |-> "absent"]
  /\ price  = [l \in Lots |-> 0]
  /\ leader = [l \in Lots |-> Nobody]
  /\ winner = [l \in Lots |-> Nobody]

Open(l) ==
  /\ status[l] = "absent"
  /\ status' = [status EXCEPT ![l] = "active"]
  /\ price'  = [price EXCEPT ![l] = Start]
  /\ UNCHANGED <<leader, winner>>

Outbid(l, b, p) ==
  /\ status[l] = "active"
  /\ p > price[l]
  /\ p >= price[l] + Step
  /\ price'  = [price EXCEPT ![l] = p]
  /\ leader' = [leader EXCEPT ![l] = b]
  /\ UNCHANGED <<status, winner>>

Close(l) ==
  /\ status[l] = "active"
  /\ status' = [status EXCEPT ![l] = "closed"]
  /\ winner' = [winner EXCEPT ![l] = leader[l]]
  /\ UNCHANGED <<price, leader>>

Next ==
  \E l \in Lots :
    \/ Open(l)
    \/ \E b \in Bidders, p \in Prices : Outbid(l, b, p)
    \/ Close(l)

Spec == Init /\ [][Next]_vars
=============================================================================
