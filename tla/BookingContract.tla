-------------------------- MODULE BookingContract --------------------------
(***************************************************************************)
(* What the two services promise together, with no threads, no messages    *)
(* and no arms: offers are made, their outcomes recorded, and spots sold.  *)
(* A spot is sold to the user and at the price of an offer, and never more *)
(* often than the offer was recorded as booked; an offer is recorded at    *)
(* most once per thread of the pricing service, because the check that it  *)
(* is not booked yet takes no lock.  The rows are kept as the ledger says. *)
(* ParkingSystem implements this.                                          *)
(***************************************************************************)
EXTENDS ReservationLedger

CONSTANT Reporters  \* threads of the pricing service

VARIABLES
  offers,  \* the offers made, each with how often it was recorded as booked
  sales    \* the offer and the price of each row of reservations

contract == <<offers, sales, reservations>>

ContractInit == LedgerInit /\ offers = << >> /\ sales = << >>

\* An offer is logged for user u, at whatever price.
Offer(u) ==
  /\ Len(offers') > Len(offers)
  /\ LET price == offers'[Len(offers')].price IN
       /\ price \in Nat
       /\ offers' = Append(offers, [user |-> u, price |-> price, recorded |-> 0])
  /\ UNCHANGED <<sales, reservations>>

\* Offer e is recorded as booked.
Record(e) ==
  /\ offers[e].recorded < Reporters
  /\ offers' = [offers EXCEPT ![e].recorded = @ + 1]
  /\ UNCHANGED <<sales, reservations>>

Sold(e) == {i \in 1..Len(sales) : sales[i].event = e}

\* A reservation is made for offer e, on account of a record not yet used.
Sell(e, s, w) ==
  /\ sales' = Append(sales, [event |-> e, price |-> offers[e].price])
  /\ Cardinality(Sold(e)) < offers[e].recorded
  /\ Book(s, offers[e].user, w)
  /\ UNCHANGED offers

\* A reservation is cancelled; what was recorded and sold stays.
Revoke(i) == Cancel(i) /\ UNCHANGED <<offers, sales>>

ContractNext ==
  \/ \E u \in Users : Offer(u)
  \/ \E e \in 1..Len(offers) :
       \/ Record(e)
       \/ \E s \in Spots, w \in Windows : Sell(e, s, w)
  \/ \E i \in 1..Len(reservations) : Revoke(i)

ContractSpec == ContractInit /\ [][ContractNext]_contract
=============================================================================
