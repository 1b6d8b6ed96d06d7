--------------------------- MODULE ParkingSystem ---------------------------
(***************************************************************************)
(* The inventory service and the pricing service together, behind the      *)
(* gateway.  A booking runs through both: an inventory worker reports the  *)
(* outcome of the offer to the pricing service and waits for the answer;   *)
(* only then does it try to reserve a spot.  The two services commit their *)
(* transactions separately, and either may fail between them.              *)
(* The steps of the services are the ones of Inventory and Pricing.        *)
(***************************************************************************)
EXTENDS Integers, Inventory

CONSTANTS
  PricingWorkers,  \* threads of the pricing server's executor
  Multipliers, MaxMultiplier, BasePrices, Scale, MaxEvents, MaxPulls \* Pricing

VARIABLES
  basePrice, events, arms, ppc, preq,  \* of Pricing
  call,     \* the offer that each inventory worker's request names
  caller,   \* the inventory worker each pricing worker answers
  bookings  \* the offer and price_at_booking of each reservation

Prc == INSTANCE Pricing WITH Workers <- PricingWorkers, pc <- ppc, req <- preq

ASSUME PricingServiceAssumption ==
  /\ IsFiniteSet(PricingWorkers)
  /\ Multipliers \subseteq Nat
  /\ MaxMultiplier \in Nat \ {0}
  /\ BasePrices \subseteq Nat
  /\ Scale \in Nat \ {0}

pricing == <<basePrice, events, arms, ppc, preq>>
links == <<call, caller, bookings>>
systemVars == <<vars, pricing, links>>

-----------------------------------------------------------------------------
(* State *)

\* "sent": the pricing service works on the report.
Call == [event: Nat, price: Nat, sent: BOOLEAN]
NoCall == [kind |-> "none"]

\* A pricing worker that serves the gateway, or whose caller has given up.
NoCaller == [kind |-> "nobody"]

ASSUME NoCallerAssumption == NoCaller \notin Workers

\* Worker w waits for the pricing service, and v is the one that answers.
Waiting(w, v) ==
  /\ pc[w] = "pricing" /\ call[w].sent
  /\ ppc[v] = "record" /\ preq[v] = [event |-> call[w].event, booked |-> TRUE]

SystemTypeOK ==
  /\ TypeOK
  /\ Prc!TypeOK
  /\ call \in [Workers -> {NoCall} \cup Call]
  /\ caller \in [PricingWorkers -> {NoCaller} \cup Workers]
  /\ bookings \in Seq([event: Nat, price: Nat])
  /\ Len(bookings) = Len(reservations)
  /\ \A w \in Workers :
       /\ pc[w] \in ReservePC => call[w] \in Call
       /\ pc[w] = "pricing" /\ call[w].sent => \E v \in PricingWorkers : caller[v] = w
  /\ \A v \in PricingWorkers : caller[v] # NoCaller => Waiting(caller[v], v)

SystemInit ==
  /\ Init
  /\ Prc!Init
  /\ call = [w \in Workers |-> NoCall]
  /\ caller = [v \in PricingWorkers |-> NoCaller]
  /\ bookings = << >>

-----------------------------------------------------------------------------
(* The gateway *)

\* /search: an offer for a lot in which an available spot was counted before.
\* The count and the price are two calls, and the spots of a new lot are all
\* available, so whatever their status is now the search may have seen one.
Search(u) ==
  /\ Prc!GetPrice(u)
  /\ UNCHANGED <<vars, links>>

\* /book with an offer that a search has returned and a price; the window is
\* what the user's screen shows by now.  Worker w takes the request.
Book(w, u, e, p, win) ==
  /\ ReserveSpot(w, u, win)
  /\ call' = IF pc'[w] = "idle" THEN call
             ELSE [call EXCEPT ![w] = [event |-> e, price |-> p, sent |-> FALSE]]
  /\ UNCHANGED <<pricing, caller, bookings>>

\* /book of an offer that is declined: the gateway reports it itself.
Decline(v, u, e, p) ==
  /\ Prc!Validate(v, e, u, p, FALSE)
  /\ UNCHANGED <<vars, links>>

\* /cancel-reservation
Cancel(w, u, i) ==
  /\ CancelReservation(w, u, i)
  /\ UNCHANGED <<pricing, links>>

-----------------------------------------------------------------------------
(* The call of the pricing service *)

\* The pricing service accepts the report of w's request and works on it.
CallPricing(w, v) ==
  /\ pc[w] = "pricing" /\ ~call[w].sent
  /\ Prc!Validate(v, call[w].event, req[w].user, call[w].price, TRUE)
  /\ call' = [call EXCEPT ![w].sent = TRUE]
  /\ caller' = [caller EXCEPT ![v] = w]
  /\ UNCHANGED <<vars, bookings>>

\* Mutant of Forget: a late answer reaches the worker's next request.
ForgetCallOnly(w) == call' = [call EXCEPT ![w] = NoCall] /\ UNCHANGED caller

\* Worker w is idle again: its request is forgotten, and a pricing worker that
\* still works for it answers nobody.
Forget(w) ==
  /\ call' = [call EXCEPT ![w] = NoCall]
  /\ caller' = [v \in PricingWorkers |-> IF caller[v] = w THEN NoCaller ELSE caller[v]]

\* A thread of the pricing service refuses the report: the booking fails.
PricingRefuses(w, v) ==
  /\ pc[w] = "pricing" /\ ~call[w].sent
  /\ ppc[v] = "idle"
  /\ ~Prc!Acceptable(call[w].event, req[w].user, call[w].price)
  /\ PricingOutcome(w) /\ pc'[w] = "idle"
  /\ Forget(w)
  /\ UNCHANGED <<pricing, bookings>>

\* The booking is recorded, and the worker that waits for it goes on.
PricingRecords(v) ==
  /\ Prc!RecordBooking(v)
  /\ IF caller[v] = NoCaller
       THEN UNCHANGED vars
       ELSE PricingOutcome(caller[v]) /\ pc'[caller[v]] = "spot"
  /\ caller' = [caller EXCEPT ![v] = NoCaller]
  /\ UNCHANGED <<call, bookings>>

\* A decline is recorded.
PricingRecordsDecline(v) ==
  /\ Prc!RecordNoBooking(v)
  /\ UNCHANGED <<vars, links>>

\* Mutants of PricingFails: the caller does not look at the answer's success;
\* it gets no answer.
PricingFailsUnseen(v) ==
  /\ Prc!RecordAbort(v)
  /\ IF caller[v] = NoCaller
       THEN UNCHANGED vars
       ELSE PricingOutcome(caller[v]) /\ pc'[caller[v]] = "spot"
  /\ caller' = [caller EXCEPT ![v] = NoCaller]
  /\ UNCHANGED <<call, bookings>>

PricingFailsSilently(v) ==
  /\ Prc!RecordAbort(v)
  /\ caller' = [caller EXCEPT ![v] = NoCaller]
  /\ UNCHANGED <<vars, call, bookings>>

\* The transaction of the pricing service is rolled back: the booking fails.
PricingFails(v) ==
  /\ Prc!RecordAbort(v)
  /\ IF caller[v] = NoCaller
       THEN UNCHANGED <<vars, call, caller>>
       ELSE /\ PricingOutcome(caller[v]) /\ pc'[caller[v]] = "idle"
            /\ Forget(caller[v])
  /\ UNCHANGED bookings

-----------------------------------------------------------------------------
(* The rest of the inventory service *)

\* A step of reserve_spot; a failure answers, a success goes on.
ReserveStep(w) ==
  /\ CheckSpot(w) \/ FindUser(w) \/ CheckOverlap(w) \/ Refresh(w)
  /\ IF pc'[w] = "idle" THEN Forget(w) ELSE UNCHANGED <<call, caller>>
  /\ UNCHANGED <<pricing, bookings>>

\* The row is inserted with the price the request named.
Reserve(w) ==
  /\ CommitReservation(w)
  /\ IF pc'[w] = "idle"
       THEN Forget(w) /\ UNCHANGED bookings
       ELSE /\ bookings' = Append(bookings, [event |-> call[w].event,
                                             price |-> call[w].price])
            /\ UNCHANGED <<call, caller>>
  /\ UNCHANGED pricing

CancelStep(w) ==
  /\ CommitCancel(w)
  /\ UNCHANGED <<pricing, links>>

\* The inventory worker fails; the pricing service knows nothing of it.
InventoryFails(w) ==
  /\ Abort(w)
  /\ Forget(w)
  /\ UNCHANGED <<pricing, bookings>>

Environment ==
  \/ /\ \/ \E s \in Spots, new \in SensorStatus : SensorRead(s, new)
        \/ SensorCommit
        \/ SensorAbort
        \/ Tick
     /\ UNCHANGED <<pricing, links>>
  \/ /\ \E b \in BasePrices : Prc!SetBasePrice(b)
     /\ UNCHANGED <<vars, links>>

-----------------------------------------------------------------------------

Prices == {events[i].price : i \in 1..Len(events)}

SystemNext ==
  \/ \E u \in Users : Search(u)
  \/ \E w \in Workers, u \in Users :
       \/ \E e \in 1..Len(events), p \in Prices, win \in Windows :
            Book(w, u, e, p, win)
       \/ \E i \in 1..Len(reservations) + 1 : Cancel(w, u, i)
  \/ \E v \in PricingWorkers :
       \/ \E u \in Users, e \in 1..Len(events), p \in Prices : Decline(v, u, e, p)
       \/ \E w \in Workers : CallPricing(w, v) \/ PricingRefuses(w, v)
       \/ PricingRecords(v)
       \/ PricingRecordsDecline(v)
       \/ PricingFails(v)
  \/ \E w \in Workers :
       \/ ReserveStep(w)
       \/ Reserve(w)
       \/ CancelStep(w)
       \/ InventoryFails(w)
  \/ Environment

SystemSpec == SystemInit /\ [][SystemNext]_systemVars

\* The threads of both servers keep running.  The queue of the pricing server's
\* executor is FIFO: a report gets a thread after finitely many others, also
\* when a thread is not free all the time from some point on.
SystemFairness ==
  /\ \A w \in Workers :
       /\ SF_systemVars(\E v \in PricingWorkers : CallPricing(w, v) \/ PricingRefuses(w, v))
       /\ WF_systemVars(ReserveStep(w) \/ Reserve(w) \/ CancelStep(w))
  /\ \A v \in PricingWorkers :
       WF_systemVars(PricingRecords(v) \/ PricingRecordsDecline(v) \/ PricingFails(v))
SystemFairSpec == SystemSpec /\ SystemFairness

-----------------------------------------------------------------------------
(* Properties *)

\* The reservations that were made for offer e.
Reserved(e) == {i \in 1..Len(bookings) : bookings[i].event = e}

\* The workers whose report of offer e was accepted and whose row is not yet
\* committed.
Reserving(e) ==
  {w \in Workers : /\ pc[w] \in {"spot", "user", "overlap", "commit"}
                 /\ call[w].event = e}

\* Every reservation is of the user and at the price of the offer it was made
\* for, and that offer is recorded as booked ("This ensures the price, event,
\* and user align", documentation/USE-CASES.md:103).
OffersAlign ==
  \A i \in 1..Len(bookings) :
    LET e == bookings[i].event IN
      /\ e \in 1..Len(events)
      /\ events[e].booked
      /\ events[e].user = reservations[i].user
      /\ events[e].price = bookings[i].price

\* No reservation without its own credit: the reservations of an offer, and the
\* workers about to make one, are no more than its recorded bookings, whichever
\* of the two services fails in between and whoever repeats the request.
EveryBookingPaid ==
  \A e \in 1..Len(events) :
    Cardinality(Reserved(e)) + Cardinality(Reserving(e)) <= events[e].credits

\* When no request is in progress, every offer recorded as booked has its
\* reservation: the outcome is reported "after a reservation is confirmed"
\* (documentation/architecture.md:261).  False: it is reported before.
RecordedWhenReserved ==
  (\A w \in Workers : pc[w] = "idle") =>
    \A e \in 1..Len(events) : events[e].booked => Reserved(e) # {}

\* While the base price never changes, the rewards of the bandit lie in [0, 1]
\* and every arm can be sampled: no booking that fails half way, in either
\* service, leaves an arm that a search would choke on.
RewardInUnitInterval == Prc!RewardInUnitInterval
ArmsSamplable == Prc!ArmsSamplable

\* However requests and failures interleave, the two services do together what
\* one careful seller would do: each reservation is sold to the user and at the
\* price of an offer, on account of a record of its own.
Contract ==
  INSTANCE BookingContract WITH
    Capacity <- Cardinality(Workers),
    Reporters <- Cardinality(PricingWorkers),
    offers <- [i \in 1..Len(events) |->
                 [user |-> events[i].user, price |-> events[i].price,
                  recorded |-> events[i].credits]],
    sales <- bookings
RefinesContract == Contract!ContractSpec

\* Every request the gateway sends to the inventory service is answered, though
\* two pools of threads wait for each other's database rows and calls.
BookingsAnswered ==
  \A w \in Workers : pc[w] # "idle" ~> pc[w] = "idle"
=============================================================================
