-------------------------- MODULE ContractProofs --------------------------
(***************************************************************************)
(* What follows from the contract alone, for every number of users, spots  *)
(* and windows and for every capacity.  With ContractKept of ParkingProofs *)
(* these are facts about the two services.                                 *)
(***************************************************************************)
EXTENDS BookingContract, FiniteSetTheorems, TLAPS

-----------------------------------------------------------------------------
(* State *)

OfferMade == [user: Users, price: Nat, recorded: Nat]
Sale == [event: Nat, price: Nat]

ContractTypeOK ==
  /\ offers \in Seq(OfferMade)
  /\ sales \in Seq(Sale)
  /\ reservations \in Seq(Reservation)
  /\ Len(sales) = Len(reservations)

\* Row i is of the user of its offer and was sold at the offer's price.
FairSale(i) ==
  LET e == sales[i].event IN
    /\ e \in 1..Len(offers)
    /\ offers[e].user = reservations[i].user
    /\ offers[e].price = sales[i].price

FairSales == \A i \in 1..Len(sales) : FairSale(i)

\* No offer is sold more often than it was recorded, nor recorded more often
\* than there are threads to record it.
SoldOnRecord ==
  \A e \in 1..Len(offers) :
    Cardinality(Sold(e)) <= offers[e].recorded /\ offers[e].recorded <= Reporters

\* No spot is held at an instant by more confirmed rows than the capacity.
WithinCapacity ==
  \A s \in Spots, t \in Slots :
    Cardinality(ConfirmedAt(reservations, s, t)) <= Capacity

-----------------------------------------------------------------------------
(* Steps *)

\* The sets that are counted are finite.
LEMMA SalesFinite ==
  ASSUME ContractTypeOK
  PROVE  /\ \A e : IsFiniteSet(Sold(e)) /\ Cardinality(Sold(e)) \in Nat
         /\ \A s, t : /\ IsFiniteSet(ConfirmedAt(reservations, s, t))
                      /\ Cardinality(ConfirmedAt(reservations, s, t)) \in Nat
<1>1. IsFiniteSet(1..Len(sales)) /\ IsFiniteSet(1..Len(reservations))
  BY FS_Interval DEF ContractTypeOK
<1>2. \A e : Sold(e) \in SUBSET (1..Len(sales))
  BY DEF Sold
<1>3. \A s, t : ConfirmedAt(reservations, s, t) \in SUBSET (1..Len(reservations))
  BY DEF ConfirmedAt
<1> QED
  BY <1>1, <1>2, <1>3, FS_Subset, FS_CardinalityType

\* An offer that is made leaves the others alone.
LEMMA OfferStep ==
  ASSUME ContractTypeOK, NEW u \in Users, Offer(u)
  PROVE  /\ offers' \in Seq(OfferMade) /\ Len(offers') = Len(offers) + 1
         /\ \A e \in 1..Len(offers) : offers'[e] = offers[e]
         /\ offers'[Len(offers) + 1].recorded = 0
<1> DEFINE price == offers'[Len(offers')].price
           o == [user |-> u, price |-> price, recorded |-> 0]
<1>1. offers' = Append(offers, o) /\ o \in OfferMade /\ o.recorded = 0
  BY DEF Offer, OfferMade
<1> HIDE DEF o
<1> QED
  BY <1>1 DEF ContractTypeOK

\* A record changes the count of its offer only.
LEMMA RecordStep ==
  ASSUME ContractTypeOK, NEW k \in 1..Len(offers), Record(k)
  PROVE  /\ offers' \in Seq(OfferMade) /\ Len(offers') = Len(offers)
         /\ \A e \in 1..Len(offers) : /\ offers'[e].user = offers[e].user
                                      /\ offers'[e].price = offers[e].price
                                      /\ e # k => offers'[e] = offers[e]
         /\ offers'[k].recorded = offers[k].recorded + 1
<1> DEFINE o == [offers[k] EXCEPT !.recorded = @ + 1]
<1>1. offers[k] \in OfferMade
  BY DEF ContractTypeOK
<1>2. /\ o \in OfferMade /\ o.user = offers[k].user /\ o.price = offers[k].price
      /\ o.recorded = offers[k].recorded + 1
  BY <1>1 DEF OfferMade
<1>3. offers' = [offers EXCEPT ![k] = o]
  BY DEF Record
<1> HIDE DEF o
<1>4. /\ offers' \in Seq(OfferMade) /\ Len(offers') = Len(offers) /\ offers'[k] = o
      /\ \A e \in 1..Len(offers) : e # k => offers'[e] = offers[e]
  BY <1>2, <1>3 DEF ContractTypeOK
<1> QED
  BY <1>2, <1>4

\* A sale adds one row and one line of the sales.
LEMMA SellStep ==
  ASSUME ContractTypeOK, NEW k \in 1..Len(offers), NEW s \in Spots, NEW w \in Windows,
         Sell(k, s, w)
  PROVE  /\ sales' \in Seq(Sale) /\ Len(sales') = Len(sales) + 1
         /\ sales'[Len(sales) + 1].event = k
         /\ sales'[Len(sales) + 1].price = offers[k].price
         /\ \A i \in 1..Len(sales) : sales'[i] = sales[i]
         /\ reservations' \in Seq(Reservation)
         /\ Len(reservations') = Len(reservations) + 1
         /\ reservations'[Len(reservations) + 1].spot = s
         /\ reservations'[Len(reservations) + 1].user = offers[k].user
         /\ reservations'[Len(reservations) + 1].window = w
         /\ reservations'[Len(reservations) + 1].status = "confirmed"
         /\ \A i \in 1..Len(reservations) : reservations'[i] = reservations[i]
         /\ offers' = offers
<1> DEFINE b == [event |-> k, price |-> offers[k].price]
           r == [spot |-> s, user |-> offers[k].user, window |-> w, status |-> "confirmed"]
<1>1. offers[k] \in OfferMade
  BY DEF ContractTypeOK
<1>2. b \in Sale /\ r \in Reservation
  BY <1>1 DEF OfferMade, Sale, Reservation, ReservationStatus, ContractTypeOK
<1>3. sales' = Append(sales, b) /\ reservations' = Append(reservations, r) /\ offers' = offers
  BY DEF Sell, Book
<1> HIDE DEF b, r
<1>4. /\ sales' \in Seq(Sale) /\ Len(sales') = Len(sales) + 1
      /\ sales'[Len(sales) + 1] = b
      /\ \A i \in 1..Len(sales) : sales'[i] = sales[i]
  BY <1>2, <1>3 DEF ContractTypeOK
<1>5. /\ reservations' \in Seq(Reservation)
      /\ Len(reservations') = Len(reservations) + 1
      /\ reservations'[Len(reservations) + 1] = r
      /\ \A i \in 1..Len(reservations) : reservations'[i] = reservations[i]
  BY <1>2, <1>3 DEF ContractTypeOK
<1> QED
  <2>1. b.event = k /\ b.price = offers[k].price
    BY DEF b
  <2>2. /\ r.spot = s /\ r.user = offers[k].user /\ r.window = w
        /\ r.status = "confirmed"
    BY DEF r
  <2> QED
    BY <1>3, <1>4, <1>5, <2>1, <2>2

\* A cancellation changes the status of one row.
LEMMA RevokeStep ==
  ASSUME ContractTypeOK, NEW k \in 1..Len(reservations), Revoke(k)
  PROVE  /\ reservations' \in Seq(Reservation) /\ Len(reservations') = Len(reservations)
         /\ \A i \in 1..Len(reservations) :
              /\ reservations'[i].spot = reservations[i].spot
              /\ reservations'[i].user = reservations[i].user
              /\ reservations'[i].window = reservations[i].window
              /\ reservations'[i].status = "confirmed" => reservations[i].status = "confirmed"
         /\ offers' = offers /\ sales' = sales
<1> DEFINE r == [reservations[k] EXCEPT !.status = "cancelled"]
<1>1. reservations[k] \in Reservation
  BY DEF ContractTypeOK
<1>2. /\ r \in Reservation /\ r.spot = reservations[k].spot
      /\ r.user = reservations[k].user /\ r.window = reservations[k].window
      /\ r.status = "cancelled"
  BY <1>1 DEF Reservation, ReservationStatus
<1>3. reservations' = [reservations EXCEPT ![k] = r] /\ offers' = offers /\ sales' = sales
  BY DEF Revoke, Cancel
<1> HIDE DEF r
<1>4. /\ reservations' \in Seq(Reservation) /\ Len(reservations') = Len(reservations)
      /\ reservations'[k] = r
      /\ \A i \in 1..Len(reservations) : i # k => reservations'[i] = reservations[i]
  BY <1>2, <1>3 DEF ContractTypeOK
<1> QED
  BY <1>2, <1>3, <1>4

\* The kinds of steps of the contract.
LEMMA ContractSteps ==
  ASSUME [ContractNext]_contract
  PROVE  \/ \E u \in Users : Offer(u)
         \/ \E e \in 1..Len(offers) : Record(e)
         \/ \E e \in 1..Len(offers), s \in Spots, w \in Windows : Sell(e, s, w)
         \/ \E i \in 1..Len(reservations) : Revoke(i)
         \/ UNCHANGED contract
BY DEF ContractNext

-----------------------------------------------------------------------------
(* Types *)

\* Offers, sales and rows are well typed, and every row has its line in the
\* sales.
THEOREM ContractTypes == ContractSpec => []ContractTypeOK
<1>1. ContractInit => ContractTypeOK
  BY DEF ContractInit, LedgerInit, ContractTypeOK
<1>2. ContractTypeOK /\ [ContractNext]_contract => ContractTypeOK'
  <2> SUFFICES ASSUME ContractTypeOK, [ContractNext]_contract PROVE ContractTypeOK'
    OBVIOUS
  <2>1. ASSUME NEW u \in Users, Offer(u) PROVE ContractTypeOK'
    BY <2>1, OfferStep DEF ContractTypeOK, Offer
  <2>2. ASSUME NEW e \in 1..Len(offers), Record(e) PROVE ContractTypeOK'
    BY <2>2, RecordStep DEF ContractTypeOK, Record
  <2>3. ASSUME NEW e \in 1..Len(offers), NEW s \in Spots, NEW w \in Windows, Sell(e, s, w)
        PROVE  ContractTypeOK'
    BY <2>3, SellStep DEF ContractTypeOK
  <2>4. ASSUME NEW i \in 1..Len(reservations), Revoke(i) PROVE ContractTypeOK'
    BY <2>4, RevokeStep DEF ContractTypeOK
  <2>5. CASE UNCHANGED contract
    BY <2>5 DEF contract, ContractTypeOK
  <2> QED
    BY <2>1, <2>2, <2>3, <2>4, <2>5, ContractSteps
<1> QED
  BY <1>1, <1>2, PTL DEF ContractSpec

\* The contract keeps the ledger: what is promised of rows alone is promised
\* still when offers and records are added.
THEOREM ContractIsLedger == ContractSpec => LedgerSpec
<1>1. ContractInit => LedgerInit
  BY DEF ContractInit
<1>2. ContractTypeOK /\ [ContractNext]_contract => [LedgerNext]_reservations
  <2> SUFFICES ASSUME ContractTypeOK, [ContractNext]_contract
               PROVE  [LedgerNext]_reservations
    OBVIOUS
  <2>1. ASSUME \/ \E u \in Users : Offer(u)
               \/ \E e \in 1..Len(offers) : Record(e)
               \/ UNCHANGED contract
        PROVE  UNCHANGED reservations
    BY <2>1 DEF Offer, Record, contract
  <2>2. ASSUME NEW e \in 1..Len(offers), NEW s \in Spots, NEW w \in Windows, Sell(e, s, w)
        PROVE  LedgerNext
    <3>1. offers[e].user \in Users
      <4>1. offers[e] \in OfferMade
        BY DEF ContractTypeOK
      <4> QED
        BY <4>1 DEF OfferMade
    <3>2. Book(s, offers[e].user, w)
      BY <2>2 DEF Sell
    <3> QED
      BY <3>1, <3>2 DEF LedgerNext
  <2>3. ASSUME NEW i \in 1..Len(reservations), Revoke(i) PROVE LedgerNext
    BY <2>3 DEF Revoke, LedgerNext
  <2> QED
    BY <2>1, <2>2, <2>3, ContractSteps
<1> QED
  BY <1>1, <1>2, ContractTypes, PTL DEF ContractSpec, LedgerSpec

-----------------------------------------------------------------------------
(* What the contract guarantees *)

\* Every row belongs to the user of the offer it was sold for and was sold at
\* the price of that offer.
THEOREM SalesAreFair == ContractSpec => []FairSales
<1>1. ContractInit => FairSales
  BY DEF ContractInit, FairSales
<1>2. ContractTypeOK /\ FairSales /\ [ContractNext]_contract => FairSales'
  <2> SUFFICES ASSUME ContractTypeOK, FairSales, [ContractNext]_contract
               PROVE  FairSales'
    OBVIOUS
  <2>n. /\ Len(offers) \in Nat /\ Len(sales) \in Nat
        /\ Len(sales) = Len(reservations)
    BY DEF ContractTypeOK
  <2>1. ASSUME NEW u \in Users, Offer(u) PROVE FairSales'
    <3>1. sales' = sales /\ reservations' = reservations
      BY <2>1 DEF Offer
    <3> QED
      BY <2>1, <2>n, <3>1, OfferStep DEF FairSales, FairSale
  <2>2. ASSUME NEW k \in 1..Len(offers), Record(k) PROVE FairSales'
    <3>1. sales' = sales /\ reservations' = reservations
      BY <2>2 DEF Record
    <3> QED
      BY <2>2, <2>n, <3>1, RecordStep DEF FairSales, FairSale
  <2>3. ASSUME NEW k \in 1..Len(offers), NEW s \in Spots, NEW w \in Windows, Sell(k, s, w)
        PROVE  FairSales'
    <3> DEFINE n == Len(sales) + 1
    <3>1. /\ Len(sales') = n /\ sales'[n].event = k /\ sales'[n].price = offers[k].price
          /\ reservations'[n].user = offers[k].user /\ offers' = offers
      BY <2>3, <2>n, SellStep
    <3>2. \A i \in 1..Len(sales) : sales'[i] = sales[i] /\ reservations'[i] = reservations[i]
      BY <2>3, <2>n, SellStep
    <3>3. ASSUME NEW i \in 1..Len(sales) PROVE FairSale(i)'
      BY <3>1, <3>2 DEF FairSales, FairSale
    <3>4. ASSUME NEW i, i = n PROVE FairSale(i)'
      BY <3>1, <3>4 DEF FairSale
    <3>5. \A i \in 1..Len(sales') : i \in 1..Len(sales) \/ i = n
      BY <2>n, <3>1
    <3> QED
      BY <3>3, <3>4, <3>5 DEF FairSales
  <2>4. ASSUME NEW k \in 1..Len(reservations), Revoke(k) PROVE FairSales'
    BY <2>4, <2>n, RevokeStep DEF FairSales, FairSale
  <2>5. CASE UNCHANGED contract
    BY <2>5 DEF contract, FairSales, FairSale
  <2> QED
    BY <2>1, <2>2, <2>3, <2>4, <2>5, ContractSteps
<1> QED
  BY <1>1, <1>2, ContractTypes, PTL DEF ContractSpec

\* An offer is not sold more often than it was recorded as booked, and not
\* recorded more often than the pricing service has threads.
THEOREM SalesAreRecorded ==
  ASSUME Reporters \in Nat
  PROVE  ContractSpec => []SoldOnRecord
<1>1. ContractInit => SoldOnRecord
  BY DEF ContractInit, SoldOnRecord
<1>2. ContractTypeOK /\ FairSales /\ SoldOnRecord /\ [ContractNext]_contract => SoldOnRecord'
  <2> SUFFICES ASSUME ContractTypeOK, FairSales, SoldOnRecord, [ContractNext]_contract,
                      NEW e \in 1..Len(offers)'
               PROVE  /\ Cardinality(Sold(e))' <= offers'[e].recorded
                      /\ offers'[e].recorded <= Reporters
    BY DEF SoldOnRecord
  <2> DEFINE Kept == /\ Cardinality(Sold(e)) <= offers[e].recorded
                     /\ offers[e].recorded <= Reporters
  <2>n. Len(offers) \in Nat /\ Len(sales) \in Nat
    BY DEF ContractTypeOK
  <2>k. ASSUME e \in 1..Len(offers)
        PROVE  /\ Kept /\ offers[e].recorded \in Nat
               /\ IsFiniteSet(Sold(e)) /\ Cardinality(Sold(e)) \in Nat
    <3>1. offers[e] \in OfferMade
      BY <2>k DEF ContractTypeOK
    <3> QED
      BY <2>k, <3>1, SalesFinite DEF SoldOnRecord, OfferMade
  <2>s. ASSUME sales' = sales PROVE Sold(e)' = Sold(e)
    BY <2>s DEF Sold
  <2>1. ASSUME NEW u \in Users, Offer(u)
        PROVE  /\ Cardinality(Sold(e))' <= offers'[e].recorded
               /\ offers'[e].recorded <= Reporters
    <3>1. Sold(e)' = Sold(e)
      BY <2>1, <2>s DEF Offer
    <3>2. CASE e \in 1..Len(offers)
      BY <2>1, <2>k, <3>1, <3>2, OfferStep
    <3>3. CASE e = Len(offers) + 1
      <4>1. Sold(e) = {}
        BY <3>3, <2>n DEF FairSales, FairSale, Sold
      <4>2. Cardinality(Sold(e)) = 0
        BY <4>1, FS_EmptySet
      <4> QED
        BY <2>1, <3>1, <3>3, <4>2, OfferStep
    <3> QED
      BY <2>1, <2>n, <3>2, <3>3, OfferStep
  <2>2. ASSUME NEW k \in 1..Len(offers), Record(k)
        PROVE  /\ Cardinality(Sold(e))' <= offers'[e].recorded
               /\ offers'[e].recorded <= Reporters
    <3>1. Sold(e)' = Sold(e)
      BY <2>2, <2>s DEF Record
    <3>2. e \in 1..Len(offers)
      BY <2>2, RecordStep
    <3>3. offers[k].recorded < Reporters
      BY <2>2 DEF Record
    <3>4. CASE e = k
      BY <2>2, <2>k, <3>1, <3>2, <3>3, <3>4, RecordStep
    <3>5. CASE e # k
      BY <2>2, <2>k, <3>1, <3>2, <3>5, RecordStep
    <3> QED
      BY <3>4, <3>5
  <2>3. ASSUME NEW k \in 1..Len(offers), NEW s \in Spots, NEW w \in Windows, Sell(k, s, w)
        PROVE  /\ Cardinality(Sold(e))' <= offers'[e].recorded
               /\ offers'[e].recorded <= Reporters
    <3>1. e \in 1..Len(offers) /\ offers' = offers
      BY <2>3, SellStep
    <3> DEFINE n == Len(sales) + 1
    <3>n. /\ Len(sales') = n /\ sales'[n].event = k
          /\ \A i \in 1..Len(sales) : sales'[i] = sales[i]
      BY <2>3, SellStep
    <3>2. CASE e = k
      <4>1. Sold(e)' = Sold(e) \cup {n}
        BY <2>n, <3>n, <3>2 DEF Sold
      <4>2. n \notin Sold(e)
        BY <2>n DEF Sold
      <4>3. Cardinality(Sold(e)') = Cardinality(Sold(e)) + 1
        BY <2>k, <3>1, <4>1, <4>2, FS_AddElement
      <4>4. Cardinality(Sold(e)) < offers[e].recorded
        BY <2>3, <3>2 DEF Sell
      <4> QED
        BY <2>k, <3>1, <4>3, <4>4
    <3>3. CASE e # k
      <4>1. Sold(e)' = Sold(e)
        BY <2>n, <3>n, <3>3 DEF Sold
      <4> QED
        BY <2>k, <3>1, <4>1
    <3> QED
      BY <3>2, <3>3
  <2>4. ASSUME \/ \E i \in 1..Len(reservations) : Revoke(i)
               \/ UNCHANGED contract
        PROVE  /\ Cardinality(Sold(e))' <= offers'[e].recorded
               /\ offers'[e].recorded <= Reporters
    <3>1. offers' = offers /\ sales' = sales
      BY <2>4 DEF Revoke, contract
    <3> QED
      BY <2>k, <2>s, <3>1
  <2> QED
    BY <2>1, <2>2, <2>3, <2>4, ContractSteps
<1> QED
  BY <1>1, <1>2, ContractTypes, SalesAreFair, PTL DEF ContractSpec

\* No spot is held at one instant by more than Capacity confirmed reservations,
\* whatever is offered, recorded, sold and cancelled.
THEOREM SalesFitCapacity ==
  ASSUME Capacity \in Nat
  PROVE  ContractSpec => []WithinCapacity
<1>1. ContractInit => WithinCapacity
  <2> SUFFICES ASSUME ContractInit, NEW s, NEW t
               PROVE  Cardinality(ConfirmedAt(reservations, s, t)) <= Capacity
    BY DEF WithinCapacity
  <2>1. ConfirmedAt(reservations, s, t) = {}
    BY DEF ContractInit, LedgerInit, ConfirmedAt
  <2> QED
    BY <2>1, FS_EmptySet
<1>2. ContractTypeOK /\ WithinCapacity /\ [ContractNext]_contract => WithinCapacity'
  <2> SUFFICES ASSUME ContractTypeOK, WithinCapacity, [ContractNext]_contract,
                      NEW s \in Spots, NEW t \in Slots
               PROVE  Cardinality(ConfirmedAt(reservations', s, t)) <= Capacity
    BY DEF WithinCapacity
  <2> DEFINE Held == ConfirmedAt(reservations, s, t)
             HeldNext == ConfirmedAt(reservations', s, t)
  <2>k. /\ IsFiniteSet(Held) /\ Cardinality(Held) \in Nat
        /\ Cardinality(Held) <= Capacity /\ Len(reservations) \in Nat
    BY SalesFinite DEF WithinCapacity, ContractTypeOK
  <2>1. ASSUME \/ \E u \in Users : Offer(u)
               \/ \E e \in 1..Len(offers) : Record(e)
               \/ UNCHANGED contract
        PROVE  Cardinality(HeldNext) <= Capacity
    <3>1. reservations' = reservations
      BY <2>1 DEF Offer, Record, contract
    <3> QED
      BY <2>k, <3>1
  <2>2. ASSUME NEW e \in 1..Len(offers), NEW z \in Spots, NEW w \in Windows, Sell(e, z, w)
        PROVE  Cardinality(HeldNext) <= Capacity
    <3> DEFINE n == Len(reservations) + 1
    <3>u. Sell(e, z, w)
      BY <2>2
    <3>1. /\ Len(reservations') = n /\ reservations'[n].spot = z
          /\ reservations'[n].window = w /\ reservations'[n].status = "confirmed"
          /\ \A i \in 1..Len(reservations) : reservations'[i] = reservations[i]
      BY <3>u, SellStep
    <3>2. CASE z = s /\ Covers(w, t)
      <4>1. HeldNext = Held \cup {n} /\ n \notin Held
        BY <2>k, <3>1, <3>2 DEF ConfirmedAt
      <4>2. Cardinality(HeldNext) = Cardinality(Held) + 1
        BY <2>k, <4>1, FS_AddElement
      <4>3. Cardinality(Held) < Capacity
        BY <3>u, <3>2 DEF Sell, Book
      <4> QED
        BY <2>k, <4>2, <4>3
    <3>3. CASE ~(z = s /\ Covers(w, t))
      <4>1. HeldNext = Held
        BY <2>k, <3>1, <3>3 DEF ConfirmedAt
      <4> QED
        BY <2>k, <4>1
    <3> QED
      BY <3>2, <3>3
  <2>3. ASSUME NEW k \in 1..Len(reservations), Revoke(k)
        PROVE  Cardinality(HeldNext) <= Capacity
    <3>1. HeldNext \in SUBSET Held
      BY <2>3, RevokeStep DEF ConfirmedAt
    <3>2. Cardinality(HeldNext) \in Nat /\ Cardinality(HeldNext) <= Cardinality(Held)
      BY <2>k, <3>1, FS_Subset, FS_CardinalityType
    <3> QED
      BY <2>k, <3>2
  <2> QED
    BY <2>1, <2>2, <2>3, ContractSteps
<1> QED
  BY <1>1, <1>2, ContractTypes, PTL DEF ContractSpec
=============================================================================
