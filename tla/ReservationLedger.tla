------------------------- MODULE ReservationLedger -------------------------
(***************************************************************************)
(* What the inventory service promises about inventory.reservations, with  *)
(* no workers, no transactions and no spot status: rows are only added and *)
(* cancelled, a (spot, window) key is used once, and a window is booked    *)
(* only while every instant of it is held by fewer than Capacity confirmed *)
(* reservations of the spot.  Inventory implements this with Capacity the  *)
(* number of worker threads.                                               *)
(***************************************************************************)
EXTENDS ReservationRows, FiniteSets

CONSTANTS Slots, Capacity

VARIABLE reservations

LedgerInit == reservations = << >>

\* A reservation is confirmed: one new row, no other row touched.
Book(s, u, w) ==
  /\ ValidWindow(w)
  /\ KeyFree(reservations, s, w)
  /\ \A t \in Slots : Covers(w, t) =>
       Cardinality(ConfirmedAt(reservations, s, t)) < Capacity
  /\ reservations' = Append(reservations, [spot |-> s, user |-> u,
                                           window |-> w,
                                           status |-> "confirmed"])

\* A reservation is cancelled; cancelling it again changes nothing.
Cancel(i) == reservations' = [reservations EXCEPT ![i].status = "cancelled"]

LedgerNext ==
  \/ \E s \in Spots, u \in Users, w \in Windows : Book(s, u, w)
  \/ \E i \in 1..Len(reservations) : Cancel(i)

LedgerSpec == LedgerInit /\ [][LedgerNext]_reservations
=============================================================================
