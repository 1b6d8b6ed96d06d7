--------------------------- MODULE ParkingProofs ---------------------------
(***************************************************************************)
(* Theorems about ParkingSystem, for every set of users, spots, windows,   *)
(* offers and threads of the two services.                                 *)
(***************************************************************************)
EXTENDS ParkingSystem, InventoryProofs

-----------------------------------------------------------------------------
(* The inventory service inside the system *)

CallersTyped == caller \in [PricingWorkers -> {NoCaller} \cup Workers]

\* A pricing thread answers one inventory worker or nobody.
LEMMA CallersTypedStep ==
  ASSUME CallersTyped, [SystemNext]_systemVars
  PROVE  CallersTyped'
<1> USE DEF CallersTyped, Forget, links
<1>1. ASSUME NEW u \in Users, Search(u) PROVE CallersTyped'
  BY <1>1 DEF Search
<1>2. ASSUME NEW w \in Workers, NEW u \in Users, NEW e, NEW p, NEW win, Book(w, u, e, p, win)
      PROVE  CallersTyped'
  BY <1>2 DEF Book
<1>3. ASSUME NEW w \in Workers, NEW u \in Users, NEW i, Cancel(w, u, i)
      PROVE  CallersTyped'
  BY <1>3 DEF Cancel
<1>4. ASSUME NEW v \in PricingWorkers, NEW u \in Users, NEW e, NEW p, Decline(v, u, e, p)
      PROVE  CallersTyped'
  BY <1>4 DEF Decline
<1>5. ASSUME NEW w \in Workers, NEW v \in PricingWorkers,
             CallPricing(w, v) \/ PricingRefuses(w, v)
      PROVE  CallersTyped'
  BY <1>5 DEF CallPricing, PricingRefuses
<1>6. ASSUME NEW v \in PricingWorkers,
             PricingRecords(v) \/ PricingRecordsDecline(v) \/ PricingFails(v)
      PROVE  CallersTyped'
  BY <1>6 DEF PricingRecords, PricingRecordsDecline, PricingFails
<1>7. ASSUME NEW w \in Workers,
             ReserveStep(w) \/ Reserve(w) \/ CancelStep(w) \/ InventoryFails(w)
      PROVE  CallersTyped'
  BY <1>7 DEF ReserveStep, Reserve, CancelStep, InventoryFails
<1>8. ASSUME Environment PROVE CallersTyped'
  BY <1>8 DEF Environment
<1>9. CASE UNCHANGED systemVars
  BY <1>9 DEF systemVars
<1> QED
  BY <1>1, <1>2, <1>3, <1>4, <1>5, <1>6, <1>7, <1>8, <1>9 DEF SystemNext

LEMMA Callers == SystemSpec => []CallersTyped
<1>1. SystemInit => CallersTyped
  BY DEF SystemInit, CallersTyped
<1>2. CallersTyped /\ [SystemNext]_systemVars => CallersTyped'
  BY CallersTypedStep
<1> QED
  BY <1>1, <1>2, PTL DEF SystemSpec

\* A step of the system is one of the inventory service, or leaves it alone.
LEMMA InventoryStep ==
  ASSUME CallersTyped, [SystemNext]_systemVars
  PROVE  [Next]_vars
<1>1. ASSUME NEW u \in Users, Search(u) PROVE UNCHANGED vars
  BY <1>1 DEF Search
<1>2. ASSUME NEW w \in Workers, NEW u \in Users, NEW win \in Windows, NEW e, NEW p,
             Book(w, u, e, p, win)
      PROVE  Next
  BY <1>2 DEF Book, Next
<1>3. ASSUME NEW w \in Workers, NEW u \in Users, NEW i \in 1..Len(reservations) + 1,
             Cancel(w, u, i)
      PROVE  Next
  BY <1>3 DEF Cancel, Next
<1>4. ASSUME NEW v \in PricingWorkers, NEW u \in Users, NEW e, NEW p, Decline(v, u, e, p)
      PROVE  UNCHANGED vars
  BY <1>4 DEF Decline
<1>5. ASSUME NEW w \in Workers, NEW v \in PricingWorkers, CallPricing(w, v)
      PROVE  UNCHANGED vars
  BY <1>5 DEF CallPricing
<1>6. ASSUME NEW w \in Workers, NEW v \in PricingWorkers, PricingRefuses(w, v)
      PROVE  Next
  BY <1>6 DEF PricingRefuses, Next, Serve
<1>7. ASSUME NEW v \in PricingWorkers, PricingRecords(v) \/ PricingFails(v)
      PROVE  Next \/ UNCHANGED vars
  <2>1. UNCHANGED vars \/ (caller[v] # NoCaller /\ PricingOutcome(caller[v]))
    BY <1>7 DEF PricingRecords, PricingFails
  <2>2. caller[v] # NoCaller => caller[v] \in Workers
    BY DEF CallersTyped
  <2> QED
    BY <2>1, <2>2 DEF Next, Serve
<1>8. ASSUME NEW v \in PricingWorkers, PricingRecordsDecline(v)
      PROVE  UNCHANGED vars
  BY <1>8 DEF PricingRecordsDecline
<1>9. ASSUME NEW w \in Workers,
             ReserveStep(w) \/ Reserve(w) \/ CancelStep(w) \/ InventoryFails(w)
      PROVE  Next
  BY <1>9 DEF ReserveStep, Reserve, CancelStep, InventoryFails, Next, Serve
<1>10. ASSUME Environment PROVE Next \/ UNCHANGED vars
  BY <1>10 DEF Environment, Next
<1>11. CASE UNCHANGED systemVars
  BY <1>11 DEF systemVars
<1> QED
  BY <1>1, <1>2, <1>3, <1>4, <1>5, <1>6, <1>7, <1>8, <1>9, <1>10, <1>11 DEF SystemNext

\* The pricing service, the gateway and the clients make the inventory service
\* do nothing that it could not do alone: every theorem about Inventory is one
\* about the system.
THEOREM InventoryInside == SystemSpec => Spec
<1>1. SystemInit => Init
  BY DEF SystemInit
<1>2. CallersTyped /\ [SystemNext]_systemVars => [Next]_vars
  BY InventoryStep
<1> QED
  BY <1>1, <1>2, Callers, PTL DEF SystemSpec, Spec

\* In the whole system, too, no spot is held at an instant by more confirmed
\* reservations than the inventory server has threads.
COROLLARY SystemOverbookingIsBounded == SystemSpec => []BoundedOverbooking
  BY InventoryInside, OverbookingIsBounded, PTL
-----------------------------------------------------------------------------
(* Steps of the pricing service *)

\* The log of offers only grows, and what was offered, to whom and at which
\* price is never rewritten; a booked offer stays booked and keeps its credits.
OffersGrow ==
  /\ Len(events) <= Len(events')
  /\ \A i \in 1..Len(events) :
       /\ events'[i].user = events[i].user
       /\ events'[i].price = events[i].price
       /\ events[i].booked => events'[i].booked
       /\ events[i].credits <= events'[i].credits

\* What a search logs.
LEMMA SearchLogs ==
  ASSUME Prc!TypeOK, NEW u \in Users, Prc!GetPrice(u)
  PROVE  \E e \in Prc!Event : /\ ~e.booked /\ e.credits = 0 /\ e.reward = 0 /\ e.user = u
                             /\ e.price \in Prc!Rounded(basePrice, e.arm)
                             /\ events' = Append(events, e)
<1>0. PICK m \in Multipliers : \E p \in Prc!Rounded(basePrice, m) :
        events' = Append(events, [user |-> u, arm |-> m, price |-> p,
                                  booked |-> FALSE, reward |-> 0, credits |-> 0])
  BY DEF Prc!GetPrice, Prc!SelectPrice
<1>1. PICK p \in Prc!Rounded(basePrice, m) :
        events' = Append(events, [user |-> u, arm |-> m, price |-> p,
                                  booked |-> FALSE, reward |-> 0, credits |-> 0])
  BY <1>0
<1> DEFINE e == [user |-> u, arm |-> m, price |-> p,
                 booked |-> FALSE, reward |-> 0, credits |-> 0]
<1>2. p \in Nat
  <2>1. basePrice \in Nat /\ m \in Nat
    BY PricingServiceAssumption DEF Prc!TypeOK
  <2>2. basePrice * m \in Nat
    BY <2>1
  <2>3. (basePrice * m) \div 100 \in Nat
    BY <2>2
  <2> QED
    BY <2>3 DEF Prc!Rounded
<1>3. e \in Prc!Event
  BY <1>2 DEF Prc!Event
<1>4. /\ ~e.booked /\ e.credits = 0 /\ e.reward = 0 /\ e.user = u
      /\ e.price = p /\ e.arm = m
  OBVIOUS
<1>5. events' = Append(events, e)
  BY <1>1
<1> HIDE DEF e
<1> QED
  BY <1>1, <1>3, <1>4, <1>5

\* What recording a booking does to the log and to the arms.
LEMMA BookingLogged ==
  ASSUME Prc!TypeOK, NEW v \in PricingWorkers, Prc!RecordBooking(v),
         NEW i, i = preq[v].event
  PROVE  /\ i \in 1..Len(events)
         /\ events' \in Seq(Prc!Event) /\ Len(events') = Len(events)
         /\ events'[i].user = events[i].user
         /\ events'[i].price = events[i].price
         /\ events'[i].booked
         /\ events'[i].reward = Prc!Reward(events[i].price)
         /\ events'[i].credits = events[i].credits + 1
         /\ \A j \in 1..Len(events) : j # i => events'[j] = events[j]
         /\ arms' = Prc!Credit(events[i].arm, Prc!Reward(events[i].price), events[i].price)
         /\ arms' \in [Multipliers -> Prc!Arm]
<1>1. i \in 1..Len(events) /\ events \in Seq(Prc!Event)
  BY DEF Prc!TypeOK, Prc!RequestOK, Prc!RecordBooking
<1>2. /\ events[i] \in Prc!Event
      /\ events[i].price \in Nat /\ events[i].arm \in Multipliers
  <2>1. events[i] \in Prc!Event
    BY <1>1
  <2> QED
    BY <2>1 DEF Prc!Event
<1> DEFINE e == events[i]
           m == e.arm
           r == Prc!Reward(e.price)
           b == Prc!Booked(e, r)
<1>3. r \in Int
  <2> DEFINE x == Scale * e.price * 100
             y == basePrice * MaxMultiplier
  <2>1. /\ basePrice \in Nat /\ basePrice > 0
        /\ MaxMultiplier \in Nat /\ MaxMultiplier > 0
    BY PricingServiceAssumption DEF Prc!TypeOK, Prc!RecordBooking
  <2>2. x \in Int /\ y \in Int /\ y > 0
    BY <1>2, <2>1, PricingServiceAssumption
  <2> HIDE DEF x, y
  <2>3. x \div y \in Int
    BY <2>2
  <2> QED
    BY <2>3 DEF Prc!Reward, x, y
<1>4. /\ b.user = e.user /\ b.price = e.price /\ b.booked
      /\ b.reward = r /\ b.credits = e.credits + 1
      /\ b \in Prc!Event
  BY <1>2, <1>3 DEF Prc!Booked, Prc!Event
<1>5. events' = [events EXCEPT ![i] = b] /\ arms' = Prc!Credit(m, r, e.price)
  BY DEF Prc!RecordBooking
<1>6. arms' \in [Multipliers -> Prc!Arm]
  <2> DEFINE c == e.price
             new == [alpha |-> arms[m].alpha + r,
                     beta |-> arms[m].beta + (Scale - r),
                     pulls |-> arms[m].pulls + 1,
                     revenue |-> arms[m].revenue + c]
  <2>1. arms[m] \in Prc!Arm /\ r \in Int /\ c \in Nat /\ m \in Multipliers
    BY <1>2, <1>3 DEF Prc!TypeOK
  <2>2. arms' = [arms EXCEPT ![m] = new]
    BY <1>5 DEF Prc!Credit
  <2> HIDE DEF m, r, c
  <2>3. new \in Prc!Arm
    BY <2>1, PricingServiceAssumption DEF Prc!Arm
  <2> QED
    BY <2>1, <2>2, <2>3 DEF Prc!TypeOK
<1>7. b \in Prc!Event
  BY <1>4
<1> HIDE DEF b
<1>8. /\ events' \in Seq(Prc!Event) /\ Len(events') = Len(events)
      /\ events'[i] = b
      /\ \A j \in 1..Len(events) : j # i => events'[j] = events[j]
  BY <1>1, <1>5, <1>7
<1> QED
  BY <1>1, <1>4, <1>5, <1>6, <1>8

\* The pricing service's state stays well typed, and its log grows.
LEMMA PricingTyped ==
  ASSUME Prc!TypeOK, Prc!Next \/ UNCHANGED pricing
  PROVE  Prc!TypeOK' /\ OffersGrow
<1>0. /\ events \in Seq(Prc!Event) /\ Len(events) \in Nat
      /\ \A i \in 1..Len(events) : events[i].credits \in Nat
  <2>1. events \in Seq(Prc!Event)
    BY DEF Prc!TypeOK
  <2>2. \A i \in 1..Len(events) : events[i] \in Prc!Event
    BY <2>1
  <2> QED
    BY <2>1, <2>2 DEF Prc!Event
<1>1. ASSUME NEW u \in Users, Prc!GetPrice(u) PROVE Prc!TypeOK' /\ OffersGrow
  <2>1. PICK e \in Prc!Event : events' = Append(events, e)
    BY <1>1, SearchLogs
  <2>2. /\ events' \in Seq(Prc!Event) /\ Len(events') = Len(events) + 1
        /\ \A i \in 1..Len(events) : events'[i] = events[i]
    BY <1>0, <2>1
  <2>3. basePrice' = basePrice /\ arms' = arms /\ ppc' = ppc /\ preq' = preq
    BY <1>1 DEF Prc!GetPrice, Prc!SelectPrice
  <2>4. \A v \in PricingWorkers : Prc!RequestOK(v)'
    BY <1>0, <2>2, <2>3 DEF Prc!TypeOK, Prc!RequestOK
  <2>5. OffersGrow
    BY <1>0, <2>2 DEF OffersGrow
  <2> QED
    BY <2>2, <2>3, <2>4, <2>5 DEF Prc!TypeOK
<1>2. ASSUME NEW b \in BasePrices, Prc!SetBasePrice(b)
      PROVE  Prc!TypeOK' /\ OffersGrow
  BY <1>0, <1>2 DEF Prc!TypeOK, Prc!SetBasePrice, Prc!RequestOK, OffersGrow
<1>3. ASSUME NEW v \in PricingWorkers, NEW e \in 1..Len(events), NEW u \in Users,
             NEW p, NEW booked \in BOOLEAN, Prc!Validate(v, e, u, p, booked)
      PROVE  Prc!TypeOK' /\ OffersGrow
  <2> DEFINE o == [event |-> e, booked |-> booked]
  <2>1. o \in Prc!Outcome /\ o.event = e
    BY <1>0 DEF Prc!Outcome
  <2>2. /\ ppc' = [ppc EXCEPT ![v] = "record"] /\ preq' = [preq EXCEPT ![v] = o]
        /\ basePrice' = basePrice /\ events' = events /\ arms' = arms
    BY <1>3 DEF Prc!Validate
  <2> HIDE DEF o
  <2> QED
    BY <1>0, <2>1, <2>2 DEF Prc!TypeOK, Prc!RequestOK, OffersGrow
<1>4. ASSUME NEW v \in PricingWorkers, Prc!RecordBooking(v)
      PROVE  Prc!TypeOK' /\ OffersGrow
  <2> DEFINE i == preq[v].event
  <2>1. /\ i \in 1..Len(events)
        /\ events' \in Seq(Prc!Event) /\ Len(events') = Len(events)
        /\ events'[i].user = events[i].user
        /\ events'[i].price = events[i].price
        /\ events'[i].booked /\ events'[i].credits = events[i].credits + 1
        /\ \A j \in 1..Len(events) : j # i => events'[j] = events[j]
        /\ arms' \in [Multipliers -> Prc!Arm]
    BY <1>4, BookingLogged
  <2>2. /\ basePrice' = basePrice
        /\ ppc' = [ppc EXCEPT ![v] = "idle"]
        /\ preq' = [preq EXCEPT ![v] = Prc!NoOutcome]
    BY <1>4 DEF Prc!RecordBooking, Prc!Reply
  <2> HIDE DEF i
  <2>3. \A o \in PricingWorkers : Prc!RequestOK(o)'
    BY <2>1, <2>2 DEF Prc!TypeOK, Prc!RequestOK
  <2>4. OffersGrow
    BY <1>0, <2>1 DEF OffersGrow
  <2> QED
    BY <2>1, <2>2, <2>3, <2>4 DEF Prc!TypeOK
<1>5. ASSUME NEW v \in PricingWorkers, Prc!RecordNoBooking(v)
      PROVE  Prc!TypeOK' /\ OffersGrow
  <2> DEFINE m == events[preq[v].event].arm
  <2>1. m \in Multipliers
    <3>1. events[preq[v].event] \in Prc!Event
      BY <1>5 DEF Prc!TypeOK, Prc!RequestOK, Prc!RecordNoBooking
    <3> QED
      BY <3>1 DEF Prc!Event
  <2>2. arms' = [arms EXCEPT ![m] = [alpha |-> arms[m].alpha,
                                     beta |-> arms[m].beta + Scale,
                                     pulls |-> arms[m].pulls + 1,
                                     revenue |-> arms[m].revenue]]
    BY <1>5 DEF Prc!RecordNoBooking
  <2> HIDE DEF m
  <2>3. arms' \in [Multipliers -> Prc!Arm]
    <3>1. arms[m] \in Prc!Arm
      BY <2>1 DEF Prc!TypeOK
    <3> QED
      BY <2>1, <2>2, <3>1, PricingServiceAssumption DEF Prc!TypeOK, Prc!Arm
  <2> QED
    BY <1>0, <1>5, <2>3
    DEF Prc!TypeOK, Prc!RequestOK, Prc!RecordNoBooking, Prc!Reply, OffersGrow
<1>6. ASSUME NEW v \in PricingWorkers, Prc!RecordAbort(v)
      PROVE  Prc!TypeOK' /\ OffersGrow
  BY <1>0, <1>6 DEF Prc!TypeOK, Prc!RequestOK, Prc!RecordAbort, Prc!Reply, OffersGrow
<1>7. CASE UNCHANGED pricing
  BY <1>0, <1>7 DEF Prc!TypeOK, Prc!RequestOK, pricing, OffersGrow
<1> QED
  BY <1>1, <1>2, <1>3, <1>4, <1>5, <1>6, <1>7 DEF Prc!Next

-----------------------------------------------------------------------------
(* The links between the two services *)

\* The steps of a request whose booking has been recorded.
Recorded == ReservePC \ {"pricing"}

\* The offer that worker w's request names was made to its user at its price.
Matches(w) ==
  /\ events[call[w].event].user = req[w].user
  /\ events[call[w].event].price = call[w].price

\* What the two services know of one offer agrees: an accepted report matched
\* the offer, and a request goes on only when its booking is recorded.
CallsOK ==
  /\ call \in [Workers -> {NoCall} \cup Call]
  /\ \A w \in Workers : pc[w] \in ReservePC =>
       /\ call[w] \in Call
       /\ call[w].event \in 1..Len(events)
       /\ call[w].sent => Matches(w)
       /\ pc[w] \in Recorded => call[w].sent /\ events[call[w].event].booked

\* A report has exactly one pricing thread, until it is answered.
CallersOK ==
  /\ CallersTyped
  /\ \A v \in PricingWorkers : caller[v] # NoCaller => Waiting(caller[v], v)
  /\ \A v1, v2 \in PricingWorkers :
       caller[v1] # NoCaller /\ caller[v1] = caller[v2] => v1 = v2
  /\ \A w \in Workers :
       pc[w] = "pricing" /\ call[w].sent => \E v \in PricingWorkers : caller[v] = w

BookingsTyped ==
  /\ bookings \in Seq([event: Nat, price: Nat])
  /\ Len(bookings) = Len(reservations)

\* The inductive invariant of the links.
LinkInv == Prc!TypeOK /\ CallsOK /\ CallersOK /\ BookingsTyped /\ OffersAlign

\* In the states of LinkInv the inventory service, the gateway and the clients
\* make the pricing service do nothing that it could not do alone.
LEMMA PricingStep ==
  ASSUME TypeOK, LinkInv, [SystemNext]_systemVars
  PROVE  Prc!Next \/ UNCHANGED pricing
<1> USE DEF LinkInv
<1>1. ASSUME NEW u \in Users, Search(u) PROVE Prc!Next
  BY <1>1 DEF Search, Prc!Next
<1>2. ASSUME NEW w \in Workers, NEW u \in Users, NEW e, NEW p, NEW win, Book(w, u, e, p, win)
      PROVE  UNCHANGED pricing
  BY <1>2 DEF Book
<1>3. ASSUME NEW w \in Workers, NEW u \in Users, NEW i, Cancel(w, u, i)
      PROVE  UNCHANGED pricing
  BY <1>3 DEF Cancel
<1>4. ASSUME NEW v \in PricingWorkers, NEW u \in Users, NEW e \in 1..Len(events),
             NEW p \in Prices, Decline(v, u, e, p)
      PROVE  Prc!Next
  BY <1>4 DEF Decline, Prices, Prc!Next
<1>5. ASSUME NEW w \in Workers, NEW v \in PricingWorkers, CallPricing(w, v)
      PROVE  Prc!Next
  <2> DEFINE e == call[w].event
             u == req[w].user
             p == call[w].price
  <2>1. Prc!Validate(v, e, u, p, TRUE) /\ pc[w] = "pricing"
    BY <1>5 DEF CallPricing
  <2>2. u \in Users
    BY <2>1 DEF TypeOK, RequestOK, ReservePC, ReserveRequest
  <2>3. e \in 1..Len(events)
    BY <2>1 DEF CallsOK, ReservePC
  <2>4. p = events[e].price
    BY <2>1 DEF Prc!Validate, Prc!Acceptable
  <2>5. p \in {events[i].price : i \in 1..Len(events)}
    BY <2>3, <2>4
  <2> HIDE DEF e, u, p
  <2> QED
    BY <2>1, <2>2, <2>3, <2>5 DEF Prc!Next
<1>6. ASSUME NEW w \in Workers, NEW v \in PricingWorkers, PricingRefuses(w, v)
      PROVE  UNCHANGED pricing
  BY <1>6 DEF PricingRefuses
<1>7. ASSUME NEW v \in PricingWorkers,
             PricingRecords(v) \/ PricingRecordsDecline(v) \/ PricingFails(v)
      PROVE  Prc!Next
  BY <1>7 DEF PricingRecords, PricingRecordsDecline, PricingFails, Prc!Next
<1>8. ASSUME NEW w \in Workers,
             ReserveStep(w) \/ Reserve(w) \/ CancelStep(w) \/ InventoryFails(w)
      PROVE  UNCHANGED pricing
  BY <1>8 DEF ReserveStep, Reserve, CancelStep, InventoryFails
<1>9. ASSUME Environment PROVE Prc!Next \/ UNCHANGED pricing
  BY <1>9 DEF Environment, Prc!Next
<1>10. CASE UNCHANGED systemVars
  BY <1>10 DEF systemVars
<1> QED
  BY <1>1, <1>2, <1>3, <1>4, <1>5, <1>6, <1>7, <1>8, <1>9, <1>10 DEF SystemNext

\* The call after it was sent.
LEMMA CallSent ==
  ASSUME NEW c \in Call
  PROVE  [c EXCEPT !.sent = TRUE] = [event |-> c.event, price |-> c.price, sent |-> TRUE]
<1> DEFINE d == [c EXCEPT !.sent = TRUE]
<1>1. d \in Call
  BY DEF Call
<1>2. d.event = c.event /\ d.price = c.price /\ d.sent = TRUE
  BY DEF Call
<1> HIDE DEF d
<1>3. d = [event |-> d.event, price |-> d.price, sent |-> d.sent]
  BY <1>1 DEF Call
<1>4. d = [event |-> c.event, price |-> c.price, sent |-> TRUE]
  BY <1>2, <1>3
<1> QED
  BY <1>4 DEF d

\* One clause of CallsOK.
CallOK(w) ==
  pc[w] \in ReservePC =>
    /\ call[w] \in Call
    /\ call[w].event \in 1..Len(events)
    /\ call[w].sent => Matches(w)
    /\ pc[w] \in Recorded => call[w].sent /\ events[call[w].event].booked

\* Worker w's request names the same offer as before, for the same user.
SameCall(w) ==
  /\ call'[w] = call[w]
  /\ pc'[w] \in ReservePC => /\ req'[w].user = req[w].user
                             /\ pc'[w] = pc[w] \/ pc[w] \in Recorded

\* A worker whose request still names its offer still agrees with the log.
LEMMA SameCallOK ==
  ASSUME NEW w \in Workers, CallOK(w), SameCall(w), OffersGrow, Prc!TypeOK, Prc!TypeOK'
  PROVE  CallOK(w)'
<1> SUFFICES ASSUME pc'[w] \in ReservePC PROVE CallOK(w)'
  BY DEF CallOK
<1>1. /\ call'[w] = call[w] /\ req'[w].user = req[w].user
      /\ pc[w] \in ReservePC /\ (pc'[w] \in Recorded => pc[w] \in Recorded)
  BY DEF SameCall, Recorded
<1>2. /\ call[w] \in Call
      /\ call[w].event \in 1..Len(events)
      /\ call[w].sent => Matches(w)
      /\ pc[w] \in Recorded => call[w].sent /\ events[call[w].event].booked
  BY <1>1 DEF CallOK
<1> DEFINE e == call[w].event
<1>3. /\ e \in 1..Len(events')
      /\ events'[e].user = events[e].user /\ events'[e].price = events[e].price
      /\ events[e].booked => events'[e].booked
  <2>1. Len(events) \in Nat /\ Len(events') \in Nat
    BY DEF Prc!TypeOK
  <2> QED
    BY <1>2, <2>1 DEF OffersGrow
<1>4. call'[w].sent => Matches(w)'
  BY <1>1, <1>2, <1>3 DEF Matches
<1> QED
  BY <1>1, <1>2, <1>3, <1>4 DEF CallOK

\* A step of reserve_spot after the pricing outcome: the worker goes on with its
\* request or answers it.
LEMMA WorkerStep ==
  ASSUME TypeOK, NEW w \in Workers,
         CheckSpot(w) \/ FindUser(w) \/ CheckOverlap(w) \/ Refresh(w) \/ CommitReservation(w)
  PROVE  /\ pc[w] \in Recorded
         /\ pc'[w] \in Recorded \cup {"idle"}
         /\ pc'[w] \in Recorded => /\ req'[w].user = req[w].user
                                   /\ req'[w].window = req[w].window
         /\ pc'[w] = "refresh" => CommitReservation(w)
         /\ \A o \in Workers \ {w} : pc'[o] = pc[o] /\ req'[o] = req[o]
<1> USE DEF TypeOK, Recorded, ReservePC, Advance, Reply
<1>1. CASE CheckSpot(w)
  BY <1>1 DEF CheckSpot
<1>2. CASE FindUser(w)
  <2>1. req[w] \in ReserveRequest
    BY <1>2 DEF FindUser, RequestOK
  <2> QED
    BY <1>2, <2>1 DEF FindUser, ReserveRequest
<1>3. CASE CheckOverlap(w)
  BY <1>3 DEF CheckOverlap
<1>4. CASE Refresh(w)
  BY <1>4 DEF Refresh
<1>5. CASE CommitReservation(w)
  BY <1>5 DEF CommitReservation
<1> QED
  BY <1>1, <1>2, <1>3, <1>4, <1>5

\* Every step keeps the requests in agreement with the log of offers.
LEMMA CallsStep ==
  ASSUME TypeOK, LinkInv, [SystemNext]_systemVars, Prc!TypeOK', OffersGrow
  PROVE  CallsOK'
<1> USE DEF LinkInv
<1>0. /\ call \in [Workers -> {NoCall} \cup Call]
      /\ \A w \in Workers : CallOK(w)
      /\ pc \in [Workers -> {"idle", "cancel"} \cup ReservePC]
  BY DEF CallsOK, CallOK, TypeOK
<1>1. SUFFICES /\ call' \in [Workers -> {NoCall} \cup Call]
               /\ \A w \in Workers : CallOK(w)'
  BY DEF CallsOK, CallOK
<1>2. ASSUME UNCHANGED <<pc, req, call>>
      PROVE  /\ call' \in [Workers -> {NoCall} \cup Call]
             /\ \A w \in Workers : CallOK(w)'
  BY <1>0, <1>2, SameCallOK DEF SameCall
<1>3. ASSUME NEW w \in Workers, Forget(w), pc'[w] = "idle",
             \A o \in Workers \ {w} : pc'[o] = pc[o] /\ req'[o] = req[o]
      PROVE  /\ call' \in [Workers -> {NoCall} \cup Call]
             /\ \A o \in Workers : CallOK(o)'
  <2>1. CallOK(w)'
    BY <1>3 DEF CallOK, ReservePC
  <2>2. ASSUME NEW o \in Workers \ {w} PROVE CallOK(o)'
    <3>1. SameCall(o)
      BY <1>0, <1>3 DEF SameCall, Forget
    <3> QED
      BY <1>0, <3>1, SameCallOK
  <2> QED
    BY <1>0, <1>3, <2>1, <2>2 DEF Forget
<1>4. ASSUME NEW w \in Workers, PricingOutcome(w), pc'[w] = "idle"
      PROVE  \A o \in Workers \ {w} : pc'[o] = pc[o] /\ req'[o] = req[o]
  BY <1>0, <1>4 DEF PricingOutcome, Advance, Reply, TypeOK
<1>5. ASSUME NEW u \in Users, Search(u)
      PROVE  UNCHANGED <<pc, req, call>>
  BY <1>5 DEF Search, vars, links
<1>6. ASSUME NEW w \in Workers, NEW u \in Users, NEW e \in 1..Len(events),
             NEW p \in Prices, NEW win \in Windows, Book(w, u, e, p, win)
      PROVE  /\ call' \in [Workers -> {NoCall} \cup Call]
             /\ \A o \in Workers : CallOK(o)'
  <2> DEFINE c == [event |-> e, price |-> p, sent |-> FALSE]
  <2>1. c \in Call /\ c.event = e /\ c.sent = FALSE
    <3>1. PICK i \in 1..Len(events) : p = events[i].price
      BY DEF Prices
    <3>2. events[i] \in Prc!Event
      BY DEF Prc!TypeOK
    <3>3. p \in Nat /\ e \in Nat
      BY <3>1, <3>2 DEF Prc!Event, Prc!TypeOK
    <3> QED
      BY <3>3 DEF Call
  <2>2. events' = events
    BY <1>6 DEF Book, pricing
  <2>3. CASE pc' = [pc EXCEPT ![w] = "pricing"]
    <3>1. call' = [call EXCEPT ![w] = c]
      BY <1>0, <1>6, <2>3 DEF Book
    <3>2. \A o \in Workers \ {w} : pc'[o] = pc[o] /\ req'[o] = req[o]
      BY <1>0, <1>6, <2>3 DEF Book, ReserveSpot, TypeOK
    <3> HIDE DEF c
    <3>3. CallOK(w)'
      BY <1>0, <2>1, <2>2, <2>3, <3>1 DEF CallOK, Recorded
    <3>4. ASSUME NEW o \in Workers \ {w} PROVE CallOK(o)'
      <4>1. SameCall(o)
        BY <1>0, <3>1, <3>2 DEF SameCall
      <4> QED
        BY <1>0, <4>1, SameCallOK
    <3> QED
      BY <1>0, <2>1, <3>1, <3>3, <3>4
  <2>4. CASE UNCHANGED <<pc, req>>
    <3>1. pc'[w] = "idle"
      BY <1>6, <2>4 DEF Book, ReserveSpot, Receive
    <3> QED
      BY <1>2, <1>6, <2>4, <3>1 DEF Book
  <2> QED
    BY <1>6, <2>3, <2>4 DEF Book, ReserveSpot
<1>7. ASSUME NEW w \in Workers, NEW u \in Users, NEW i, Cancel(w, u, i)
      PROVE  \A o \in Workers : SameCall(o)
  BY <1>0, <1>7 DEF Cancel, CancelReservation, SameCall, links, TypeOK, ReservePC
<1>8. ASSUME NEW v \in PricingWorkers, NEW u \in Users, NEW e, NEW p, Decline(v, u, e, p)
      PROVE  UNCHANGED <<pc, req, call>>
  BY <1>8 DEF Decline, vars, links
<1>9. ASSUME NEW w \in Workers, NEW v \in PricingWorkers, CallPricing(w, v)
      PROVE  /\ call' \in [Workers -> {NoCall} \cup Call]
             /\ \A o \in Workers : CallOK(o)'
  <2> DEFINE c == [event |-> call[w].event, price |-> call[w].price, sent |-> TRUE]
  <2>1. /\ pc[w] = "pricing" /\ call[w] \in Call
        /\ call[w].event \in 1..Len(events)
        /\ Prc!Acceptable(call[w].event, req[w].user, call[w].price)
    BY <1>0, <1>9 DEF CallPricing, CallOK, ReservePC, Prc!Validate
  <2>2. /\ c \in Call /\ c.event = call[w].event /\ c.price = call[w].price
        /\ call' = [call EXCEPT ![w] = c]
    <3>1. c = [call[w] EXCEPT !.sent = TRUE]
      BY <2>1, CallSent
    <3>2. call' = [call EXCEPT ![w] = [call[w] EXCEPT !.sent = TRUE]]
      BY <1>9 DEF CallPricing
    <3>3. c \in Call
      BY <2>1 DEF Call
    <3> QED
      BY <3>1, <3>2, <3>3
  <2>3. pc' = pc /\ req' = req /\ events' = events
    BY <1>9 DEF CallPricing, vars, Prc!Validate
  <2> HIDE DEF c
  <2>4. CallOK(w)'
    BY <1>0, <2>1, <2>2, <2>3 DEF CallOK, Matches, Prc!Acceptable, Recorded
  <2>5. ASSUME NEW o \in Workers \ {w} PROVE CallOK(o)'
    <3>1. SameCall(o)
      BY <1>0, <2>2, <2>3 DEF SameCall
    <3> QED
      BY <1>0, <3>1, SameCallOK
  <2> QED
    BY <1>0, <2>2, <2>4, <2>5
<1>10. ASSUME NEW w \in Workers, NEW v \in PricingWorkers, PricingRefuses(w, v)
       PROVE  /\ call' \in [Workers -> {NoCall} \cup Call]
              /\ \A o \in Workers : CallOK(o)'
  BY <1>3, <1>4, <1>10 DEF PricingRefuses
<1>11. ASSUME NEW v \in PricingWorkers, PricingRecords(v)
       PROVE  /\ call' \in [Workers -> {NoCall} \cup Call]
              /\ \A o \in Workers : CallOK(o)'
  <2>1. CASE caller[v] = NoCaller
    BY <1>2, <1>11, <2>1 DEF PricingRecords, vars
  <2>2. CASE caller[v] # NoCaller
    <3>0. PICK w \in Workers : w = caller[v]
      BY <2>2 DEF CallersOK, CallersTyped
    <3> DEFINE e == call[w].event
    <3>1. /\ w \in Workers /\ pc[w] = "pricing" /\ call[w].sent
          /\ preq[v].event = e
      <4>1. Waiting(w, v)
        BY <2>2, <3>0 DEF CallersOK
      <4> QED
        BY <4>1 DEF Waiting
    <3>2. /\ call' = call /\ req' = req /\ pc' = [pc EXCEPT ![w] = "spot"]
      BY <1>0, <1>11, <2>2, <3>0, <3>1 DEF PricingRecords, PricingOutcome, Advance, Reply
    <3>3. events'[e].booked
      BY <1>11, <3>1, BookingLogged DEF PricingRecords
    <3>4. /\ call[w] \in Call /\ e \in 1..Len(events) /\ Matches(w)
      BY <1>0, <3>1 DEF CallOK, ReservePC
    <3>5. /\ e \in 1..Len(events')
          /\ events'[e].user = events[e].user /\ events'[e].price = events[e].price
      <4>1. Len(events) \in Nat /\ Len(events') \in Nat
        BY DEF Prc!TypeOK
      <4> QED
        BY <3>4, <4>1 DEF OffersGrow
    <3>6. Matches(w)'
      BY <3>2, <3>4, <3>5 DEF Matches
    <3>7. CallOK(w)'
      BY <3>1, <3>2, <3>3, <3>4, <3>5, <3>6 DEF CallOK
    <3>8. ASSUME NEW o \in Workers \ {w} PROVE CallOK(o)'
      <4>1. SameCall(o)
        BY <1>0, <3>2 DEF SameCall
      <4> QED
        BY <1>0, <4>1, SameCallOK
    <3> QED
      BY <1>0, <3>2, <3>7, <3>8
  <2> QED
    BY <2>1, <2>2
<1>12. ASSUME NEW v \in PricingWorkers, PricingRecordsDecline(v)
       PROVE  UNCHANGED <<pc, req, call>>
  BY <1>12 DEF PricingRecordsDecline, vars, links
<1>13. ASSUME NEW v \in PricingWorkers, PricingFails(v)
       PROVE  /\ call' \in [Workers -> {NoCall} \cup Call]
              /\ \A o \in Workers : CallOK(o)'
  <2>1. CASE caller[v] = NoCaller
    BY <1>2, <1>13, <2>1 DEF PricingFails, vars
  <2>2. CASE caller[v] # NoCaller
    <3>1. caller[v] \in Workers
      BY <2>2 DEF CallersOK, CallersTyped
    <3> QED
      BY <1>3, <1>4, <1>13, <2>2, <3>1 DEF PricingFails
  <2> QED
    BY <2>1, <2>2
<1>14. ASSUME NEW w \in Workers, ReserveStep(w) \/ Reserve(w)
       PROVE  /\ call' \in [Workers -> {NoCall} \cup Call]
              /\ \A o \in Workers : CallOK(o)'
  <2>1. /\ pc[w] \in Recorded
        /\ pc'[w] \in Recorded \cup {"idle"}
        /\ pc'[w] \in Recorded => req'[w].user = req[w].user
        /\ \A o \in Workers \ {w} : pc'[o] = pc[o] /\ req'[o] = req[o]
    BY <1>14, WorkerStep DEF ReserveStep, Reserve
  <2>2. CASE pc'[w] = "idle"
    BY <1>3, <1>14, <2>1, <2>2 DEF ReserveStep, Reserve
  <2>3. CASE pc'[w] # "idle"
    <3>1. call' = call
      BY <1>14, <2>3 DEF ReserveStep, Reserve
    <3>2. \A o \in Workers : SameCall(o)
      BY <2>1, <2>3, <3>1 DEF SameCall
    <3> QED
      BY <1>0, <3>1, <3>2, SameCallOK
  <2> QED
    BY <2>2, <2>3
<1>15. ASSUME NEW w \in Workers, CancelStep(w)
       PROVE  call' = call /\ \A o \in Workers : SameCall(o)
  BY <1>0, <1>15 DEF CancelStep, CommitCancel, Reply, SameCall, links, TypeOK, ReservePC
<1>16. ASSUME NEW w \in Workers, InventoryFails(w)
       PROVE  /\ call' \in [Workers -> {NoCall} \cup Call]
              /\ \A o \in Workers : CallOK(o)'
  <2>1. pc'[w] = "idle" /\ \A o \in Workers \ {w} : pc'[o] = pc[o] /\ req'[o] = req[o]
    BY <1>0, <1>16 DEF InventoryFails, Abort, Reply, TypeOK
  <2> QED
    BY <1>3, <1>16, <2>1 DEF InventoryFails
<1>17. ASSUME Environment PROVE UNCHANGED <<pc, req, call>>
  BY <1>17 DEF Environment, SensorRead, SensorCommit, SensorAbort, Tick, links, vars
<1>18. CASE UNCHANGED systemVars
  BY <1>2, <1>18 DEF systemVars, vars, links
<1>19. ASSUME NEW w \in Workers, NEW u \in Users, NEW i, Cancel(w, u, i)
       PROVE  call' = call
  BY <1>19 DEF Cancel, links
<1> QED
  BY <1>0, <1>2, <1>5, <1>6, <1>7, <1>8, <1>9, <1>10, <1>11, <1>12, <1>13, <1>14,
     <1>15, <1>16, <1>17, <1>18, <1>19, SameCallOK DEF SystemNext

\* Nobody who waits, nor the thread that works for them, is disturbed.
LEMMA CallersUndisturbed ==
  ASSUME CallersOK, call' = call, caller' = caller,
         \A w \in Workers : pc'[w] = "pricing" <=> pc[w] = "pricing",
         \A v \in PricingWorkers : caller[v] # NoCaller => ppc'[v] = ppc[v] /\ preq'[v] = preq[v]
  PROVE  CallersOK'
<1>1. CallersTyped'
  BY DEF CallersOK, CallersTyped
<1>2. ASSUME NEW v \in PricingWorkers, caller'[v] # NoCaller PROVE Waiting(caller[v], v)'
  <2>1. caller[v] \in Workers /\ Waiting(caller[v], v)
    BY <1>2 DEF CallersOK, CallersTyped
  <2> QED
    BY <1>2, <2>1 DEF Waiting
<1>3. \A w \in Workers :
        pc'[w] = "pricing" /\ call'[w].sent => \E v \in PricingWorkers : caller'[v] = w
  BY DEF CallersOK
<1>4. \A v1, v2 \in PricingWorkers :
        caller'[v1] # NoCaller /\ caller'[v1] = caller'[v2] => v1 = v2
  BY DEF CallersOK
<1> QED
  BY <1>1, <1>2, <1>3, <1>4 DEF CallersOK

\* Worker w does not wait (any more), and no thread answers it.
LEMMA CallerLeaves ==
  ASSUME CallersOK, CallersTyped', NEW w \in Workers,
         ~(pc'[w] = "pricing" /\ call'[w].sent),
         \A o \in Workers \ {w} : pc'[o] = pc[o] /\ call'[o] = call[o],
         \A v \in PricingWorkers : caller'[v] = IF caller[v] = w THEN NoCaller ELSE caller[v],
         \A v \in PricingWorkers : caller'[v] # NoCaller => ppc'[v] = ppc[v] /\ preq'[v] = preq[v]
  PROVE  CallersOK'
<1>2. ASSUME NEW v \in PricingWorkers, caller'[v] # NoCaller PROVE Waiting(caller[v], v)'
  <2>1. /\ caller[v] = caller'[v]
        /\ caller[v] \in Workers \ {w} /\ Waiting(caller[v], v)
    BY <1>2 DEF CallersOK, CallersTyped
  <2> QED
    BY <1>2, <2>1 DEF Waiting
<1>3. ASSUME NEW o \in Workers, pc'[o] = "pricing", call'[o].sent
      PROVE  \E v \in PricingWorkers : caller'[v] = o
  <2>1. o # w /\ pc[o] = "pricing" /\ call[o].sent
    BY <1>3
  <2> QED
    BY <2>1 DEF CallersOK
<1>4. \A v1, v2 \in PricingWorkers :
        caller'[v1] # NoCaller /\ caller'[v1] = caller'[v2] => v1 = v2
  BY DEF CallersOK
<1> QED
  BY <1>2, <1>3, <1>4 DEF CallersOK

\* Every step keeps exactly one pricing thread at work for each report sent.
LEMMA CallersStep ==
  ASSUME TypeOK, LinkInv, [SystemNext]_systemVars, CallersTyped'
  PROVE  CallersOK'
<1> USE DEF LinkInv
<1>0. /\ pc \in [Workers -> {"idle", "cancel"} \cup ReservePC]
      /\ call \in [Workers -> {NoCall} \cup Call]
      /\ caller \in [PricingWorkers -> {NoCaller} \cup Workers]
      /\ ppc \in [PricingWorkers -> {"idle", "record"}]
  BY DEF CallsOK, CallersOK, CallersTyped, TypeOK, Prc!TypeOK
\* Whoever is answered waits, and the thread that answers is at work.
<1>1. \A v \in PricingWorkers : caller[v] # NoCaller =>
        /\ caller[v] \in Workers /\ pc[caller[v]] = "pricing" /\ call[caller[v]].sent
        /\ ppc[v] = "record" /\ preq[v].booked = TRUE
  <2> SUFFICES ASSUME NEW v \in PricingWorkers, caller[v] # NoCaller
               PROVE  /\ caller[v] \in Workers /\ pc[caller[v]] = "pricing"
                      /\ call[caller[v]].sent
                      /\ ppc[v] = "record" /\ preq[v].booked = TRUE
    OBVIOUS
  <2>1. caller[v] \in Workers /\ Waiting(caller[v], v)
    BY DEF CallersOK, CallersTyped
  <2> QED
    BY <2>1 DEF Waiting
<1>2. ASSUME NEW u \in Users, Search(u) PROVE CallersOK'
  <2>1. pc' = pc /\ call' = call /\ caller' = caller /\ ppc' = ppc /\ preq' = preq
    BY <1>2 DEF Search, vars, links, Prc!GetPrice, Prc!SelectPrice
  <2> QED
    BY <2>1, CallersUndisturbed
<1>3. ASSUME NEW w \in Workers, NEW u \in Users, NEW e, NEW p, NEW win, Book(w, u, e, p, win)
      PROVE  CallersOK'
  <2>1. /\ pc[w] = "idle" /\ caller' = caller /\ ppc' = ppc /\ preq' = preq
        /\ \A o \in Workers \ {w} : pc'[o] = pc[o] /\ call'[o] = call[o]
    BY <1>0, <1>3 DEF Book, ReserveSpot, Receive, pricing
  <2>2. ~(pc'[w] = "pricing" /\ call'[w].sent)
    <3>1. SUFFICES ASSUME pc'[w] = "pricing" PROVE ~call'[w].sent
      OBVIOUS
    <3>2. call'[w] = [event |-> e, price |-> p, sent |-> FALSE]
      BY <1>0, <1>3, <3>1 DEF Book
    <3> QED
      BY <3>2
  <2>3. \A v \in PricingWorkers : caller[v] # w
    BY <1>1, <2>1, NoCallerAssumption
  <2> QED
    BY <2>1, <2>2, <2>3, CallerLeaves
<1>4. ASSUME NEW w \in Workers, NEW u \in Users, NEW i, Cancel(w, u, i)
      PROVE  CallersOK'
  <2>1. /\ call' = call /\ caller' = caller /\ ppc' = ppc /\ preq' = preq
        /\ \A o \in Workers : pc'[o] = "pricing" <=> pc[o] = "pricing"
    BY <1>0, <1>4 DEF Cancel, CancelReservation, Receive, pricing, links
  <2> QED
    BY <2>1, CallersUndisturbed
<1>5. ASSUME NEW v \in PricingWorkers, NEW u \in Users, NEW e, NEW p, Decline(v, u, e, p)
      PROVE  CallersOK'
  <2>1. /\ pc' = pc /\ call' = call /\ caller' = caller /\ ppc[v] = "idle"
        /\ \A x \in PricingWorkers \ {v} : ppc'[x] = ppc[x] /\ preq'[x] = preq[x]
    BY <1>0, <1>5 DEF Decline, vars, links, Prc!Validate, Prc!TypeOK
  <2> QED
    BY <1>1, <2>1, CallersUndisturbed
<1>6. ASSUME NEW w \in Workers, NEW v \in PricingWorkers, CallPricing(w, v)
      PROVE  CallersOK'
  <2>1. /\ pc[w] = "pricing" /\ ~call[w].sent /\ ppc[v] = "idle"
        /\ pc' = pc /\ caller' = [caller EXCEPT ![v] = w]
        /\ ppc' = [ppc EXCEPT ![v] = "record"]
        /\ preq' = [preq EXCEPT ![v] = [event |-> call[w].event, booked |-> TRUE]]
    BY <1>6 DEF CallPricing, vars, Prc!Validate
  <2>2. caller[v] = NoCaller /\ \A x \in PricingWorkers : caller[x] # w
    BY <1>1, <2>1, NoCallerAssumption
  <2>3. /\ call'[w].event = call[w].event /\ call'[w].sent = TRUE
        /\ \A o \in Workers \ {w} : call'[o] = call[o]
    <3>1. call[w] \in Call
      BY <2>1 DEF CallsOK, ReservePC
    <3>2. call'[w] = [call[w] EXCEPT !.sent = TRUE]
      BY <1>0, <1>6 DEF CallPricing
    <3>3. call'[w] = [event |-> call[w].event, price |-> call[w].price, sent |-> TRUE]
      BY <3>1, <3>2, CallSent
    <3>4. \A o \in Workers \ {w} : call'[o] = call[o]
      BY <1>0, <1>6 DEF CallPricing
    <3> QED
      BY <3>3, <3>4
  <2>4. Waiting(w, v)'
    BY <1>0, <2>1, <2>3 DEF Waiting, Prc!TypeOK
  <2>5. ASSUME NEW x \in PricingWorkers, caller'[x] # NoCaller PROVE Waiting(caller[x], x)'
    <3>1. CASE x = v
      BY <1>0, <2>1, <2>4, <3>1
    <3>2. CASE x # v
      <4>1. caller'[x] = caller[x] /\ caller[x] \in Workers \ {w} /\ Waiting(caller[x], x)
        BY <1>0, <1>1, <2>1, <2>2, <2>5, <3>2 DEF CallersOK
      <4>2. ppc'[x] = ppc[x] /\ preq'[x] = preq[x]
        BY <1>0, <2>1, <3>2 DEF Prc!TypeOK
      <4> QED
        BY <2>1, <2>3, <4>1, <4>2 DEF Waiting
    <3> QED
      BY <3>1, <3>2
  <2>6. ASSUME NEW o \in Workers, pc'[o] = "pricing", call'[o].sent
        PROVE  \E x \in PricingWorkers : caller'[x] = o
    <3>1. CASE o = w
      BY <1>0, <2>1, <3>1
    <3>2. CASE o # w
      <4>1. PICK x \in PricingWorkers : caller[x] = o
        BY <2>1, <2>3, <2>6, <3>2 DEF CallersOK
      <4>2. x # v
        BY <2>2, <4>1, NoCallerAssumption
      <4> QED
        BY <1>0, <2>1, <4>1, <4>2
    <3> QED
      BY <3>1, <3>2
  <2>7. \A v1, v2 \in PricingWorkers :
          caller'[v1] # NoCaller /\ caller'[v1] = caller'[v2] => v1 = v2
    BY <1>0, <2>1, <2>2 DEF CallersOK
  <2> QED
    BY <2>5, <2>6, <2>7 DEF CallersOK
<1>7. ASSUME NEW w \in Workers, Forget(w), pc'[w] = "idle",
             \A o \in Workers \ {w} : pc'[o] = pc[o],
             \A v \in PricingWorkers :
               caller[v] \notin {NoCaller, w} => ppc'[v] = ppc[v] /\ preq'[v] = preq[v]
      PROVE  CallersOK'
  <2>1. /\ \A o \in Workers \ {w} : call'[o] = call[o]
        /\ \A v \in PricingWorkers : caller'[v] = IF caller[v] = w THEN NoCaller ELSE caller[v]
    BY <1>0, <1>7 DEF Forget
  <2>2. \A v \in PricingWorkers : caller'[v] # NoCaller => ppc'[v] = ppc[v] /\ preq'[v] = preq[v]
    BY <1>7, <2>1
  <2> QED
    BY <1>7, <2>1, <2>2, CallerLeaves
<1>8. ASSUME NEW w \in Workers, NEW v \in PricingWorkers, PricingRefuses(w, v)
      PROVE  CallersOK'
  <2>1. /\ pc'[w] = "idle" /\ Forget(w) /\ ppc' = ppc /\ preq' = preq
        /\ \A o \in Workers \ {w} : pc'[o] = pc[o]
    BY <1>0, <1>8 DEF PricingRefuses, PricingOutcome, Advance, Reply, pricing
  <2> QED
    BY <1>7, <2>1
<1>9. ASSUME NEW v \in PricingWorkers, PricingRecords(v) PROVE CallersOK'
  <2>1. /\ \A x \in PricingWorkers \ {v} : ppc'[x] = ppc[x] /\ preq'[x] = preq[x]
        /\ call' = call /\ caller' = [caller EXCEPT ![v] = NoCaller]
    BY <1>9 DEF PricingRecords, Prc!RecordBooking, Prc!Reply, Prc!TypeOK
  <2>2. CASE caller[v] = NoCaller
    <3>1. pc' = pc /\ caller' = caller
      BY <1>0, <1>9, <2>1, <2>2 DEF PricingRecords, vars
    <3> QED
      BY <2>1, <2>2, <3>1, CallersUndisturbed
  <2>3. CASE caller[v] # NoCaller
    <3>0. PICK w \in Workers : w = caller[v]
      BY <1>1, <2>3
    <3>1. pc' = [pc EXCEPT ![w] = "spot"]
      BY <1>0, <1>9, <2>3, <3>0 DEF PricingRecords, PricingOutcome, Advance, Reply
    <3>2. \A x \in PricingWorkers : caller'[x] = IF caller[x] = w THEN NoCaller ELSE caller[x]
      BY <1>0, <2>1, <2>3, <3>0 DEF CallersOK
    <3>3. \A x \in PricingWorkers : caller'[x] # NoCaller => x # v
      BY <1>0, <2>1
    <3>4. /\ pc'[w] # "pricing"
          /\ \A o \in Workers \ {w} : pc'[o] = pc[o] /\ call'[o] = call[o]
      BY <1>0, <2>1, <3>1
    <3> QED
      BY <2>1, <3>2, <3>3, <3>4, CallerLeaves
  <2> QED
    BY <2>2, <2>3
<1>10. ASSUME NEW v \in PricingWorkers, PricingRecordsDecline(v) PROVE CallersOK'
  <2>1. /\ pc' = pc /\ call' = call /\ caller' = caller /\ ~preq[v].booked
        /\ \A x \in PricingWorkers \ {v} : ppc'[x] = ppc[x] /\ preq'[x] = preq[x]
    BY <1>10 DEF PricingRecordsDecline, vars, links, Prc!RecordNoBooking, Prc!Reply, Prc!TypeOK
  <2> QED
    BY <1>1, <2>1, CallersUndisturbed
<1>11. ASSUME NEW v \in PricingWorkers, PricingFails(v) PROVE CallersOK'
  <2>1. \A x \in PricingWorkers \ {v} : ppc'[x] = ppc[x] /\ preq'[x] = preq[x]
    BY <1>11 DEF PricingFails, Prc!RecordAbort, Prc!Reply, Prc!TypeOK
  <2>2. CASE caller[v] = NoCaller
    <3>1. pc' = pc /\ call' = call /\ caller' = caller
      BY <1>11, <2>2 DEF PricingFails, vars
    <3> QED
      BY <2>1, <2>2, <3>1, CallersUndisturbed
  <2>3. CASE caller[v] # NoCaller
    <3>0. PICK w \in Workers : w = caller[v]
      BY <1>1, <2>3
    <3>1. /\ pc'[w] = "idle" /\ Forget(w)
          /\ \A o \in Workers \ {w} : pc'[o] = pc[o]
      BY <1>0, <1>11, <2>3, <3>0 DEF PricingFails, PricingOutcome, Advance, Reply
    <3> QED
      BY <1>7, <2>1, <3>0, <3>1
  <2> QED
    BY <2>2, <2>3
<1>12. ASSUME NEW w \in Workers, ReserveStep(w) \/ Reserve(w) PROVE CallersOK'
  <2>1. /\ pc[w] \in Recorded
        /\ pc'[w] \in Recorded \cup {"idle"}
        /\ \A o \in Workers \ {w} : pc'[o] = pc[o]
    BY <1>12, WorkerStep DEF ReserveStep, Reserve
  <2>2. ppc' = ppc /\ preq' = preq
    BY <1>12 DEF ReserveStep, Reserve, pricing
  <2>3. CASE pc'[w] = "idle"
    BY <1>7, <1>12, <2>1, <2>2, <2>3 DEF ReserveStep, Reserve
  <2>4. CASE pc'[w] # "idle"
    <3>1. call' = call /\ caller' = caller
      BY <1>12, <2>4 DEF ReserveStep, Reserve
    <3>2. \A o \in Workers : pc'[o] = "pricing" <=> pc[o] = "pricing"
      BY <2>1, <2>4 DEF Recorded
    <3> QED
      BY <2>2, <3>1, <3>2, CallersUndisturbed
  <2> QED
    BY <2>3, <2>4
<1>13. ASSUME NEW w \in Workers, CancelStep(w) PROVE CallersOK'
  <2>1. /\ call' = call /\ caller' = caller /\ ppc' = ppc /\ preq' = preq
        /\ \A o \in Workers : pc'[o] = "pricing" <=> pc[o] = "pricing"
    BY <1>0, <1>13 DEF CancelStep, CommitCancel, Reply, pricing, links
  <2> QED
    BY <2>1, CallersUndisturbed
<1>14. ASSUME NEW w \in Workers, InventoryFails(w) PROVE CallersOK'
  <2>1. /\ pc'[w] = "idle" /\ Forget(w) /\ ppc' = ppc /\ preq' = preq
        /\ \A o \in Workers \ {w} : pc'[o] = pc[o]
    BY <1>0, <1>14 DEF InventoryFails, Abort, Reply, pricing
  <2> QED
    BY <1>7, <2>1
<1>15. ASSUME Environment PROVE CallersOK'
  <2>1. pc' = pc /\ call' = call /\ caller' = caller /\ ppc' = ppc /\ preq' = preq
    BY <1>15 DEF Environment, SensorRead, SensorCommit, SensorAbort, Tick, links, vars,
                 pricing, Prc!SetBasePrice
  <2> QED
    BY <2>1, CallersUndisturbed
<1>16. CASE UNCHANGED systemVars
  <2>1. pc' = pc /\ call' = call /\ caller' = caller /\ ppc' = ppc /\ preq' = preq
    BY <1>16 DEF systemVars, vars, pricing, links
  <2> QED
    BY <2>1, CallersUndisturbed
<1> QED
  BY <1>2, <1>3, <1>4, <1>5, <1>6, <1>8, <1>9, <1>10, <1>11, <1>12, <1>13, <1>14,
     <1>15, <1>16 DEF SystemNext

\* Row i was made for an offer of its user at its price, now booked.
Aligned(i) ==
  LET e == bookings[i].event IN
    /\ e \in 1..Len(events)
    /\ events[e].booked
    /\ events[e].user = reservations[i].user
    /\ events[e].price = bookings[i].price

\* A row stays aligned while the log grows.
LEMMA AlignedKept ==
  ASSUME Prc!TypeOK, Prc!TypeOK', OffersGrow, NEW i, Aligned(i),
         bookings'[i] = bookings[i], reservations'[i].user = reservations[i].user
  PROVE  Aligned(i)'
<1>1. Len(events) \in Nat /\ Len(events') \in Nat
  BY DEF Prc!TypeOK
<1> DEFINE e == bookings[i].event
<1>2. /\ e \in 1..Len(events) /\ e \in 1..Len(events')
      /\ events[e].booked /\ events'[e].booked
      /\ events'[e].user = events[e].user
      /\ events'[e].price = events[e].price
      /\ events[e].user = reservations[i].user
      /\ events[e].price = bookings[i].price
  BY <1>1 DEF Aligned, OffersGrow
<1> QED
  BY <1>2 DEF Aligned

\* The commit that inserts a row.
LEMMA RowInserted ==
  ASSUME TypeOK, NEW w \in Workers, Reserve(w), pc'[w] # "idle"
  PROVE  /\ pc[w] = "commit" /\ pc' = [pc EXCEPT ![w] = "refresh"]
         /\ bookings' = Append(bookings, [event |-> call[w].event, price |-> call[w].price])
         /\ Len(reservations') = Len(reservations) + 1
         /\ reservations'[Len(reservations) + 1].user = req[w].user
         /\ reservations'[Len(reservations) + 1].window = req[w].window
         /\ \A i \in 1..Len(reservations) : reservations'[i] = reservations[i]
         /\ call' = call /\ caller' = caller /\ UNCHANGED pricing
<1>1. CommitReservation(w) /\ pc[w] = "commit"
  BY DEF Reserve, CommitReservation
<1>2. req[w] \in ReserveRequest /\ reservations \in Seq(Reservation)
  BY <1>1 DEF TypeOK, RequestOK, ReservePC
<1> DEFINE r == [spot |-> req[w].spot, user |-> req[w].user,
                 window |-> req[w].window, status |-> "confirmed"]
<1>3. /\ pc' = [pc EXCEPT ![w] = "refresh"]
      /\ reservations' = Append(reservations, r)
  <2>1. CASE KeyFree(reservations, req[w].spot, req[w].window)
    BY <1>1, <2>1 DEF CommitReservation, Advance
  <2>2. CASE ~KeyFree(reservations, req[w].spot, req[w].window)
    BY <1>1, <2>2 DEF CommitReservation, Reply, TypeOK
  <2> QED
    BY <2>1, <2>2
<1>4. r \in Reservation /\ r.user = req[w].user /\ r.window = req[w].window
  BY <1>2 DEF ReserveRequest, Reservation, ReservationStatus
<1> HIDE DEF r
<1>5. /\ Len(reservations') = Len(reservations) + 1
      /\ reservations'[Len(reservations) + 1] = r
      /\ \A i \in 1..Len(reservations) : reservations'[i] = reservations[i]
  BY <1>2, <1>3, <1>4, AppendRow
<1>6. /\ bookings' = Append(bookings, [event |-> call[w].event, price |-> call[w].price])
      /\ call' = call /\ caller' = caller /\ UNCHANGED pricing
  BY DEF Reserve
<1> QED
  BY <1>1, <1>3, <1>4, <1>5, <1>6

\* Only the commits of a reservation and of a cancellation write rows.
LEMMA RowsUntouched ==
  ASSUME TypeOK, CallersTyped, [SystemNext]_systemVars,
         \A w \in Workers : ~CancelStep(w) /\ ~(Reserve(w) /\ pc'[w] # "idle")
  PROVE  bookings' = bookings /\ reservations' = reservations
<1>1. ASSUME NEW w \in Workers, Reserve(w), pc'[w] = "idle"
      PROVE  bookings' = bookings /\ reservations' = reservations
  BY <1>1 DEF Reserve, CommitReservation, Advance, TypeOK
<1>2. ASSUME NEW w \in Workers, ReserveStep(w) \/ InventoryFails(w)
      PROVE  bookings' = bookings /\ reservations' = reservations
  BY <1>2 DEF ReserveStep, InventoryFails, CheckSpot, FindUser, CheckOverlap, Refresh, Abort
<1>3. ASSUME NEW u \in Users, Search(u)
      PROVE  bookings' = bookings /\ reservations' = reservations
  BY <1>3 DEF Search, vars, links
<1>4. ASSUME NEW w \in Workers, NEW u \in Users, NEW e, NEW p, NEW win, Book(w, u, e, p, win)
      PROVE  bookings' = bookings /\ reservations' = reservations
  BY <1>4 DEF Book, ReserveSpot
<1>5. ASSUME NEW w \in Workers, NEW u \in Users, NEW i, Cancel(w, u, i)
      PROVE  bookings' = bookings /\ reservations' = reservations
  BY <1>5 DEF Cancel, CancelReservation, links
<1>6. ASSUME NEW v \in PricingWorkers, NEW u \in Users, NEW e, NEW p, Decline(v, u, e, p)
      PROVE  bookings' = bookings /\ reservations' = reservations
  BY <1>6 DEF Decline, vars, links
<1>7. ASSUME NEW w \in Workers, NEW v \in PricingWorkers,
             CallPricing(w, v) \/ PricingRefuses(w, v)
      PROVE  bookings' = bookings /\ reservations' = reservations
  BY <1>7 DEF CallPricing, PricingRefuses, PricingOutcome, vars
<1>8. ASSUME NEW v \in PricingWorkers,
             PricingRecords(v) \/ PricingRecordsDecline(v) \/ PricingFails(v)
      PROVE  bookings' = bookings /\ reservations' = reservations
  BY <1>8 DEF PricingRecords, PricingRecordsDecline, PricingFails, PricingOutcome, vars, links
<1>9. ASSUME Environment PROVE bookings' = bookings /\ reservations' = reservations
  BY <1>9 DEF Environment, SensorRead, SensorCommit, SensorAbort, Tick, links, vars
<1>10. CASE UNCHANGED systemVars
  BY <1>10 DEF systemVars, vars, links
<1> QED
  BY <1>1, <1>2, <1>3, <1>4, <1>5, <1>6, <1>7, <1>8, <1>9, <1>10 DEF SystemNext

\* Every step but the commit of a reservation keeps the rows and their offers;
\* a cancellation does not touch a row's user and window.
LEMMA RowsKept ==
  ASSUME TypeOK, CallersTyped, [SystemNext]_systemVars,
         \A w \in Workers : ~(Reserve(w) /\ pc'[w] # "idle")
  PROVE  /\ bookings' = bookings
         /\ Len(reservations') = Len(reservations)
         /\ \A i \in 1..Len(reservations) :
              /\ reservations'[i].user = reservations[i].user
              /\ reservations'[i].window = reservations[i].window
<1>1. ASSUME NEW w \in Workers, CancelStep(w)
      PROVE  /\ bookings' = bookings
             /\ Len(reservations') = Len(reservations)
             /\ \A i \in 1..Len(reservations) :
                  /\ reservations'[i].user = reservations[i].user
                  /\ reservations'[i].window = reservations[i].window
  <2> DEFINE i == req[w].target
  <2>1. /\ reservations \in Seq(Reservation) /\ i \in 1..Len(reservations)
        /\ reservations' = [reservations EXCEPT ![i].status = "cancelled"]
        /\ bookings' = bookings
    BY <1>1 DEF TypeOK, RequestOK, CancelStep, CommitCancel, ReservePC, links
  <2>2. /\ Len(reservations') = Len(reservations)
        /\ reservations'[i] = [spot |-> reservations[i].spot, user |-> reservations[i].user,
                               window |-> reservations[i].window, status |-> "cancelled"]
        /\ \A j \in 1..Len(reservations) : j # i => reservations'[j] = reservations[j]
    BY <2>1, CancelRow
  <2>3. /\ reservations'[i].user = reservations[i].user
        /\ reservations'[i].window = reservations[i].window
    BY <2>2
  <2> HIDE DEF i
  <2> QED
    BY <2>1, <2>2, <2>3
<1> QED
  BY <1>1, RowsUntouched

\* Every step keeps the rows aligned with their offers.
LEMMA BookingsStep ==
  ASSUME TypeOK, LinkInv, [SystemNext]_systemVars, Prc!TypeOK', OffersGrow
  PROVE  BookingsTyped' /\ OffersAlign'
<1> USE DEF LinkInv
<1>0. /\ bookings \in Seq([event: Nat, price: Nat])
      /\ Len(bookings) = Len(reservations) /\ Len(reservations) \in Nat
      /\ \A i \in 1..Len(bookings) : Aligned(i)
  BY DEF BookingsTyped, OffersAlign, Aligned, TypeOK
<1>1. SUFFICES /\ BookingsTyped'
               /\ \A i \in 1..Len(bookings') : Aligned(i)'
  BY DEF OffersAlign, Aligned
<1>2. CASE \A w \in Workers : ~(Reserve(w) /\ pc'[w] # "idle")
  <2>1. /\ bookings' = bookings
        /\ Len(reservations') = Len(reservations)
        /\ \A i \in 1..Len(reservations) : reservations'[i].user = reservations[i].user
    BY <1>2, RowsKept DEF CallersOK
  <2> QED
    BY <1>0, <2>1, AlignedKept DEF BookingsTyped
<1>3. ASSUME NEW w \in Workers, Reserve(w), pc'[w] # "idle"
      PROVE  /\ BookingsTyped'
             /\ \A i \in 1..Len(bookings') : Aligned(i)'
  <2> DEFINE b == [event |-> call[w].event, price |-> call[w].price]
  <2>0. PICK n \in Nat : n = Len(reservations)
    BY <1>0
  <2>1. /\ pc[w] = "commit" /\ bookings' = Append(bookings, b)
        /\ Len(reservations') = n + 1
        /\ reservations'[n + 1].user = req[w].user
        /\ \A i \in 1..n : reservations'[i] = reservations[i]
        /\ events' = events
    BY <1>3, <2>0, RowInserted DEF pricing
  <2>2. /\ call[w] \in Call /\ call[w].event \in 1..Len(events)
        /\ Matches(w) /\ events[call[w].event].booked
    BY <2>1 DEF CallsOK, Recorded, ReservePC
  <2>3. /\ b \in [event: Nat, price: Nat]
        /\ b.event = call[w].event /\ b.price = call[w].price
    BY <2>2 DEF Call
  <2> HIDE DEF b
  <2>4. /\ bookings' \in Seq([event: Nat, price: Nat])
        /\ Len(bookings') = n + 1 /\ bookings'[n + 1] = b
        /\ \A i \in 1..n : bookings'[i] = bookings[i]
    BY <1>0, <2>0, <2>1, <2>3
  <2>5. ASSUME NEW i \in 1..n PROVE Aligned(i)'
    BY <1>0, <2>0, <2>1, <2>4, AlignedKept
  <2>6. Aligned(n + 1)'
    BY <2>1, <2>2, <2>3, <2>4 DEF Aligned, Matches
  <2> QED
    BY <2>0, <2>1, <2>4, <2>5, <2>6 DEF BookingsTyped
<1> QED
  BY <1>2, <1>3

-----------------------------------------------------------------------------
(* Theorems about both services *)

\* The initial state is as the services' links require.
LEMMA LinksInit ==
  ASSUME SystemInit
  PROVE  TypeOK /\ LinkInv
<1>1. Prc!TypeOK
  BY PricingServiceAssumption
  DEF SystemInit, Prc!Init, Prc!TypeOK, Prc!RequestOK, Prc!Arm
<1>2. CallsOK /\ BookingsTyped /\ OffersAlign
  BY DEF SystemInit, Init, CallsOK, BookingsTyped, OffersAlign, ReservePC
<1>3. CallersOK
  BY DEF SystemInit, Init, CallersOK, CallersTyped
<1>4. TypeOK
  BY SlotsAssumption, MaxRequestsAssumption
  DEF SystemInit, Init, TypeOK, RequestOK, SpotStatus, ReservePC
<1> QED
  BY <1>1, <1>2, <1>3, <1>4 DEF LinkInv

\* No step of the system breaks its links.
LEMMA LinksStep ==
  ASSUME TypeOK, LinkInv, [SystemNext]_systemVars
  PROVE  TypeOK' /\ LinkInv' /\ OffersGrow
<1>1. CallersTyped
  BY DEF LinkInv, CallersOK
<1>2. TypeOK' /\ CallersTyped'
  BY <1>1, InventoryStep, TypeStep, CallersTypedStep
<1>3. Prc!TypeOK' /\ OffersGrow
  BY PricingStep, PricingTyped DEF LinkInv
<1> QED
  BY <1>2, <1>3, CallsStep, CallersStep, BookingsStep DEF LinkInv

\* The inductive invariant, with the type invariant it rests on.
LEMMA Links == SystemSpec => [](TypeOK /\ LinkInv)
<1>1. SystemInit => TypeOK /\ LinkInv
  BY LinksInit
<1>2. TypeOK /\ LinkInv /\ [SystemNext]_systemVars => (TypeOK /\ LinkInv)'
  BY LinksStep
<1> QED
  BY <1>1, <1>2, PTL DEF SystemSpec

\* Both services and what links their requests are well typed; a worker that
\* waits for the pricing service has a thread there that works for it.
THEOREM SystemTypeCorrect == SystemSpec => []SystemTypeOK
<1>1. TypeOK /\ LinkInv => SystemTypeOK
  BY DEF LinkInv, CallsOK, CallersOK, CallersTyped, BookingsTyped, SystemTypeOK
<1> QED
  BY <1>1, Links, PTL

\* Price, offer and user of every reservation align, whichever requests race,
\* repeat or fail between the two services.
THEOREM OffersAreAligned == SystemSpec => []OffersAlign
  BY Links, PTL DEF LinkInv

\* The inventory service and the gateway make the pricing service do nothing
\* that it could not do alone.
THEOREM PricingInside == SystemSpec => Prc!Spec
<1>1. SystemInit => Prc!Init
  BY DEF SystemInit
<1>2. TypeOK /\ LinkInv /\ [SystemNext]_systemVars => [Prc!Next]_Prc!vars
  BY PricingStep DEF pricing, Prc!vars
<1> QED
  BY <1>1, <1>2, Links, PTL DEF SystemSpec, Prc!Spec

-----------------------------------------------------------------------------
(* No reservation without its own credit *)

\* The steps of a request that has a credit and no row yet.
Credited == {"spot", "user", "overlap", "commit"}

\* Finitely many workers reserve at a time.
LEMMA ReservingFinite ==
  ASSUME NEW e
  PROVE  IsFiniteSet(Reserving(e)) /\ Cardinality(Reserving(e)) \in Nat
<1>1. IsFiniteSet(Reserving(e))
  BY WorkersAssumption, FS_Subset DEF Reserving
<1> QED
  BY <1>1, FS_CardinalityType

\* Finitely many rows are of one offer.
LEMMA ReservedFinite ==
  ASSUME Len(bookings) \in Nat, NEW e
  PROVE  IsFiniteSet(Reserved(e)) /\ Cardinality(Reserved(e)) \in Nat
<1>1. IsFiniteSet(1..Len(bookings))
  BY FS_Interval
<1>2. Reserved(e) \subseteq 1..Len(bookings)
  BY DEF Reserved
<1> QED
  BY <1>1, <1>2, FS_Subset, FS_CardinalityType

\* Only an answer of the pricing service lets a worker go on to reserve.
LEMMA ReservingShrinks ==
  ASSUME TypeOK, LinkInv, [SystemNext]_systemVars,
         \A v \in PricingWorkers : ~PricingRecords(v),
         NEW o \in Workers, pc'[o] \in Credited
  PROVE  pc[o] \in Credited /\ call'[o] = call[o]
<1> USE DEF LinkInv, Credited
<1>0. /\ pc \in [Workers -> {"idle", "cancel"} \cup ReservePC]
      /\ call \in [Workers -> {NoCall} \cup Call]
  BY DEF CallsOK, TypeOK
<1>1. ASSUME NEW u \in Users, Search(u) PROVE pc[o] \in Credited /\ call'[o] = call[o]
  BY <1>1 DEF Search, vars, links
<1>2. ASSUME NEW w \in Workers, NEW u \in Users, NEW e, NEW p, NEW win, Book(w, u, e, p, win)
      PROVE  pc[o] \in Credited /\ call'[o] = call[o]
  <2>1. o # w
    BY <1>0, <1>2 DEF Book, ReserveSpot, Receive
  <2> QED
    BY <1>0, <1>2, <2>1 DEF Book, ReserveSpot
<1>3. ASSUME NEW w \in Workers, NEW u \in Users, NEW i, Cancel(w, u, i)
      PROVE  pc[o] \in Credited /\ call'[o] = call[o]
  BY <1>0, <1>3 DEF Cancel, CancelReservation, links
<1>4. ASSUME NEW v \in PricingWorkers, NEW u \in Users, NEW e, NEW p, Decline(v, u, e, p)
      PROVE  pc[o] \in Credited /\ call'[o] = call[o]
  BY <1>4 DEF Decline, vars, links
<1>5. ASSUME NEW w \in Workers, NEW v \in PricingWorkers, CallPricing(w, v)
      PROVE  pc[o] \in Credited /\ call'[o] = call[o]
  <2>1. pc' = pc /\ pc[w] = "pricing"
    BY <1>5 DEF CallPricing, vars
  <2> QED
    BY <1>0, <1>5, <2>1 DEF CallPricing
<1>6. ASSUME NEW w \in Workers, pc'[w] = "idle", Forget(w),
             \A x \in Workers \ {w} : pc'[x] = pc[x]
      PROVE  pc[o] \in Credited /\ call'[o] = call[o]
  BY <1>0, <1>6 DEF Forget
<1>7. ASSUME NEW w \in Workers, NEW v \in PricingWorkers, PricingRefuses(w, v)
      PROVE  pc[o] \in Credited /\ call'[o] = call[o]
  <2>1. pc'[w] = "idle" /\ Forget(w) /\ \A x \in Workers \ {w} : pc'[x] = pc[x]
    BY <1>0, <1>7 DEF PricingRefuses, PricingOutcome, Advance, Reply
  <2> QED
    BY <1>6, <2>1
<1>8. ASSUME NEW v \in PricingWorkers, PricingRecordsDecline(v)
      PROVE  pc[o] \in Credited /\ call'[o] = call[o]
  BY <1>8 DEF PricingRecordsDecline, vars, links
<1>9. ASSUME NEW v \in PricingWorkers, PricingFails(v)
      PROVE  pc[o] \in Credited /\ call'[o] = call[o]
  <2>1. CASE caller[v] = NoCaller
    BY <1>9, <2>1 DEF PricingFails, vars
  <2>2. CASE caller[v] # NoCaller
    <3>0. PICK w \in Workers : w = caller[v]
      BY <2>2 DEF CallersOK, CallersTyped
    <3>1. pc'[w] = "idle" /\ Forget(w) /\ \A x \in Workers \ {w} : pc'[x] = pc[x]
      BY <1>0, <1>9, <2>2, <3>0 DEF PricingFails, PricingOutcome, Advance, Reply
    <3> QED
      BY <1>6, <3>1
  <2> QED
    BY <2>1, <2>2
<1>10. ASSUME NEW w \in Workers, ReserveStep(w) \/ Reserve(w)
       PROVE  pc[o] \in Credited /\ call'[o] = call[o]
  <2>1. /\ pc[w] \in Recorded /\ pc'[w] \in Recorded \cup {"idle"}
        /\ \A x \in Workers \ {w} : pc'[x] = pc[x]
    BY <1>10, WorkerStep DEF ReserveStep, Reserve
  <2>2. CASE pc'[w] = "idle"
    BY <1>6, <1>10, <2>1, <2>2 DEF ReserveStep, Reserve
  <2>3. CASE pc'[w] # "idle"
    <3>1. call' = call
      BY <1>10, <2>3 DEF ReserveStep, Reserve
    <3>2. pc[w] # "refresh"
      BY <1>0, <1>10, <2>3
      DEF ReserveStep, Reserve, CheckSpot, FindUser, CheckOverlap, Refresh,
          CommitReservation, Reply
    <3> QED
      BY <2>1, <3>1, <3>2 DEF Recorded, ReservePC
  <2> QED
    BY <2>2, <2>3
<1>11. ASSUME NEW w \in Workers, CancelStep(w)
       PROVE  pc[o] \in Credited /\ call'[o] = call[o]
  BY <1>0, <1>11 DEF CancelStep, CommitCancel, Reply, links
<1>12. ASSUME NEW w \in Workers, InventoryFails(w)
       PROVE  pc[o] \in Credited /\ call'[o] = call[o]
  <2>1. pc'[w] = "idle" /\ Forget(w) /\ \A x \in Workers \ {w} : pc'[x] = pc[x]
    BY <1>0, <1>12 DEF InventoryFails, Abort, Reply
  <2> QED
    BY <1>6, <2>1
<1>13. ASSUME Environment PROVE pc[o] \in Credited /\ call'[o] = call[o]
  BY <1>13 DEF Environment, SensorRead, SensorCommit, SensorAbort, Tick, links, vars
<1>14. CASE UNCHANGED systemVars
  BY <1>14 DEF systemVars, vars, links
<1> QED
  BY <1>1, <1>2, <1>3, <1>4, <1>5, <1>7, <1>8, <1>9, <1>10, <1>11, <1>12, <1>13, <1>14
  DEF SystemNext

\* One clause of EveryBookingPaid.
Paid(e) == Cardinality(Reserved(e)) + Cardinality(Reserving(e)) <= events[e].credits

\* No row and no worker is of an offer that was not made.
LEMMA Unoffered ==
  ASSUME LinkInv, NEW e, e \notin 1..Len(events)
  PROVE  Reserved(e) = {} /\ Reserving(e) = {}
  BY DEF LinkInv, OffersAlign, CallsOK, Reserved, Reserving, ReservePC

\* Every step keeps the rows and workers of an offer within its credits: a
\* recorded booking adds one credit and at most one worker, and a commit turns
\* a worker into a row.
LEMMA PaidStep ==
  ASSUME TypeOK, LinkInv, LinkInv', OffersGrow, EveryBookingPaid,
         [SystemNext]_systemVars, NEW e \in 1..Len(events')
  PROVE  Paid(e)'
<1>0. /\ bookings \in Seq([event: Nat, price: Nat]) /\ Len(bookings) \in Nat
      /\ Len(bookings) = Len(reservations)
      /\ Len(bookings') \in Nat
      /\ Len(events) \in Nat
  BY DEF LinkInv, BookingsTyped, Prc!TypeOK
<1>1. IsFiniteSet(Reserving(e)) /\ Cardinality(Reserving(e)) \in Nat
  BY ReservingFinite
<1>2. IsFiniteSet(Reserved(e)) /\ Cardinality(Reserved(e)) \in Nat
  BY <1>0, ReservedFinite
<1>3. events'[e].credits \in Nat /\ (e \in 1..Len(events) => events[e].credits \in Nat)
  <2>1. ASSUME e \in 1..Len(events) PROVE events[e].credits \in Nat
    <3>1. events[e] \in Prc!Event
      BY <2>1 DEF LinkInv, Prc!TypeOK
    <3> QED
      BY <3>1 DEF Prc!Event
  <2>2. events'[e] \in Prc!Event
    <3>1. events' \in Seq(Prc!Event)
      BY DEF LinkInv, Prc!TypeOK
    <3> QED
      BY <3>1
  <2> QED
    BY <2>1, <2>2 DEF Prc!Event
<1>4. /\ e \in 1..Len(events) => Cardinality(Reserved(e)) + Cardinality(Reserving(e)) <= events[e].credits
      /\ e \notin 1..Len(events) => Cardinality(Reserved(e)) = 0 /\ Cardinality(Reserving(e)) = 0
  BY Unoffered, FS_EmptySet DEF EveryBookingPaid
<1>5. e \in 1..Len(events) => events[e].credits <= events'[e].credits
  BY DEF OffersGrow
<1>6. CASE /\ \A w \in Workers : ~(Reserve(w) /\ pc'[w] # "idle")
           /\ \A v \in PricingWorkers : ~PricingRecords(v)
  <2>1. bookings' = bookings
    BY <1>6, RowsKept DEF LinkInv, CallersOK
  <2>2. Reserved(e)' = Reserved(e)
    BY <2>1 DEF Reserved
  <2>3. Reserving(e)' \subseteq Reserving(e)
    BY <1>6, ReservingShrinks DEF Reserving, Credited
  <2>4. /\ Cardinality(Reserving(e)') \in Nat
        /\ Cardinality(Reserving(e)') <= Cardinality(Reserving(e))
    BY <1>1, <2>3, FS_Subset, FS_CardinalityType
  <2> QED
    BY <1>1, <1>2, <1>3, <1>4, <1>5, <2>2, <2>4 DEF Paid
<1>7. ASSUME NEW w \in Workers, Reserve(w), pc'[w] # "idle" PROVE Paid(e)'
  <2> DEFINE b == [event |-> call[w].event, price |-> call[w].price]
             n == Len(bookings)
  <2>1. /\ pc[w] = "commit" /\ pc' = [pc EXCEPT ![w] = "refresh"]
        /\ bookings' = Append(bookings, b)
        /\ call' = call /\ events' = events
    BY <1>7, RowInserted DEF pricing
  <2>2. b \in [event: Nat, price: Nat] /\ b.event = call[w].event
    <3>1. call[w] \in Call
      BY <2>1 DEF LinkInv, CallsOK, ReservePC
    <3> QED
      BY <3>1 DEF Call
  <2> HIDE DEF b
  <2>3. /\ Len(bookings') = n + 1 /\ bookings'[n + 1] = b
        /\ \A i \in 1..n : bookings'[i] = bookings[i]
    BY <1>0, <2>1, <2>2
  <2>4. e \in 1..Len(events)
    BY <2>1
  <2>5. pc \in [Workers -> {"idle", "cancel"} \cup ReservePC]
    BY DEF TypeOK
  <2>6. CASE call[w].event = e
    <3>1. Reserved(e)' = Reserved(e) \cup {n + 1} /\ n + 1 \notin Reserved(e)
      BY <1>0, <2>2, <2>3, <2>6 DEF Reserved
    <3>2. Reserving(e)' = Reserving(e) \ {w} /\ w \in Reserving(e)
      BY <2>1, <2>5, <2>6 DEF Reserving
    <3>3. Cardinality(Reserved(e)') = Cardinality(Reserved(e)) + 1
      BY <1>2, <3>1, FS_AddElement
    <3>4. Cardinality(Reserving(e)') = Cardinality(Reserving(e)) - 1
      BY <1>1, <3>2, FS_RemoveElement
    <3> QED
      BY <1>1, <1>2, <1>3, <1>4, <2>1, <2>4, <3>3, <3>4 DEF Paid
  <2>7. CASE call[w].event # e
    <3>1. Reserved(e)' = Reserved(e)
      BY <1>0, <2>2, <2>3, <2>7 DEF Reserved
    <3>2. Reserving(e)' = Reserving(e)
      BY <2>1, <2>5, <2>7 DEF Reserving
    <3> QED
      BY <1>4, <2>1, <2>4, <3>1, <3>2 DEF Paid
  <2> QED
    BY <2>6, <2>7
<1>8. ASSUME NEW v \in PricingWorkers, PricingRecords(v) PROVE Paid(e)'
  <2>1. /\ bookings' = bookings /\ call' = call
        /\ Prc!RecordBooking(v)
    BY <1>8 DEF PricingRecords
  <2>2. Reserved(e)' = Reserved(e)
    BY <2>1 DEF Reserved
  <2>3. e \in 1..Len(events)
    BY <2>1, BookingLogged DEF LinkInv
  <2>4. CASE caller[v] = NoCaller
    <3>1. Reserving(e)' = Reserving(e)
      BY <1>8, <2>1, <2>4 DEF PricingRecords, vars, Reserving
    <3> QED
      BY <1>1, <1>2, <1>3, <1>4, <1>5, <2>2, <2>3, <3>1 DEF Paid
  <2>5. CASE caller[v] # NoCaller
    <3>0. PICK w \in Workers : w = caller[v]
      BY <2>5 DEF LinkInv, CallersOK, CallersTyped
    <3>1. pc[w] = "pricing" /\ preq[v].event = call[w].event
      <4>1. Waiting(w, v)
        BY <2>5, <3>0 DEF LinkInv, CallersOK
      <4> QED
        BY <4>1 DEF Waiting
    <3>2. pc' = [pc EXCEPT ![w] = "spot"] /\ pc \in [Workers -> {"idle", "cancel"} \cup ReservePC]
      BY <1>8, <2>5, <3>0, <3>1 DEF PricingRecords, PricingOutcome, Advance, Reply, TypeOK
    <3>3. CASE call[w].event = e
      <4>1. Reserving(e)' = Reserving(e) \cup {w} /\ w \notin Reserving(e)
        BY <2>1, <3>1, <3>2, <3>3 DEF Reserving
      <4>2. Cardinality(Reserving(e)') = Cardinality(Reserving(e)) + 1
        BY <1>1, <4>1, FS_AddElement
      <4>3. events'[e].credits = events[e].credits + 1
        BY <2>1, <3>1, <3>3, BookingLogged DEF LinkInv
      <4> QED
        BY <1>1, <1>2, <1>3, <1>4, <2>2, <2>3, <4>2, <4>3 DEF Paid
    <3>4. CASE call[w].event # e
      <4>1. Reserving(e)' = Reserving(e)
        BY <2>1, <3>1, <3>2, <3>4 DEF Reserving
      <4> QED
        BY <1>1, <1>2, <1>3, <1>4, <1>5, <2>2, <2>3, <4>1 DEF Paid
    <3> QED
      BY <3>3, <3>4
  <2> QED
    BY <2>4, <2>5
<1> QED
  BY <1>6, <1>7, <1>8

\* The reservations of an offer, and the workers about to make one, are never
\* more than its recorded bookings, for pools and offers of any size.
THEOREM BookingsArePaid == SystemSpec => []EveryBookingPaid
<1>1. SystemInit => EveryBookingPaid
  BY DEF SystemInit, Prc!Init, EveryBookingPaid
<1>2. /\ TypeOK /\ LinkInv /\ LinkInv' /\ EveryBookingPaid /\ [SystemNext]_systemVars
      => EveryBookingPaid'
  <2> SUFFICES ASSUME TypeOK, LinkInv, LinkInv', EveryBookingPaid, [SystemNext]_systemVars
               PROVE  EveryBookingPaid'
    OBVIOUS
  <2>1. OffersGrow
    BY PricingStep, PricingTyped DEF LinkInv
  <2>2. \A e \in 1..Len(events') : Paid(e)'
    BY <2>1, PaidStep
  <2> QED
    BY <2>2 DEF EveryBookingPaid, Paid
<1> QED
  BY <1>1, <1>2, Links, PTL DEF SystemSpec

-----------------------------------------------------------------------------
(* The threads of the pricing service *)

\* CreditMargin of Pricing, for the pricing service inside the system: before
\* the first commit nothing is credited, and from then on only the threads that
\* had already passed the check can credit.
CreditInv ==
  \A i \in 1..Len(events) :
    /\ events[i].credits + Cardinality(Prc!Booking(i)) <= Cardinality(PricingWorkers)
    /\ events[i].booked <=> events[i].credits > 0

\* The workers about to record a booking are finitely many.
LEMMA BookingFinite ==
  ASSUME NEW i
  PROVE  /\ IsFiniteSet(Prc!Booking(i)) /\ Cardinality(Prc!Booking(i)) \in Nat
         /\ Cardinality(Prc!Booking(i)) <= Cardinality(PricingWorkers)
         /\ Cardinality(PricingWorkers) \in Nat
<1>1. Prc!Booking(i) \in SUBSET PricingWorkers
  BY DEF Prc!Booking
<1> QED
  BY <1>1, PricingServiceAssumption, FS_Subset, FS_CardinalityType

\* No step breaks CreditInv.
LEMMA CreditInvStep ==
  ASSUME Prc!TypeOK, Prc!TypeOK', CreditInv, Prc!Next \/ UNCHANGED pricing
  PROVE  CreditInv'
<1>0. /\ events \in Seq(Prc!Event) /\ Len(events) \in Nat
      /\ \A i \in 1..Len(events) : events[i].credits \in Nat /\ events[i].booked \in BOOLEAN
  <2>1. events \in Seq(Prc!Event)
    BY DEF Prc!TypeOK
  <2>2. \A i \in 1..Len(events) : events[i] \in Prc!Event
    BY <2>1
  <2> QED
    BY <2>1, <2>2 DEF Prc!Event
<1>1. ASSUME NEW u \in Users, Prc!GetPrice(u) PROVE CreditInv'
  <2>1. PICK e \in Prc!Event : /\ ~e.booked /\ e.credits = 0
                               /\ events' = Append(events, e)
    BY <1>1, SearchLogs
  <2>2. /\ Len(events') = Len(events) + 1 /\ events'[Len(events) + 1] = e
        /\ \A i \in 1..Len(events) : events'[i] = events[i]
    BY <1>0, <2>1
  <2>3. \A i : Prc!Booking(i)' = Prc!Booking(i)
    BY <1>1 DEF Prc!GetPrice, Prc!SelectPrice, Prc!Booking
  <2>4. \A i \in 1..Len(events') : i \in 1..Len(events) \/ i = Len(events) + 1
    BY <1>0, <2>2
  <2> SUFFICES ASSUME NEW i \in 1..Len(events')
               PROVE  /\ events'[i].credits + Cardinality(Prc!Booking(i)') <= Cardinality(PricingWorkers)
                      /\ events'[i].booked <=> events'[i].credits > 0
    BY DEF CreditInv
  <2>5. CASE i \in 1..Len(events)
    BY <2>2, <2>3, <2>5 DEF CreditInv
  <2>6. CASE i = Len(events) + 1
    <3>1. events'[i].credits = 0 /\ ~events'[i].booked
      BY <2>1, <2>2, <2>6
    <3>2. Cardinality(Prc!Booking(i)') \in Nat /\ Cardinality(Prc!Booking(i)') <= Cardinality(PricingWorkers)
      BY <2>3, BookingFinite
    <3> QED
      BY <3>1, <3>2
  <2> QED
    BY <2>4, <2>5, <2>6
<1>2. ASSUME NEW w \in PricingWorkers, NEW e \in 1..Len(events), NEW u \in Users,
             NEW p, NEW booked \in BOOLEAN, Prc!Validate(w, e, u, p, booked)
      PROVE  CreditInv'
  <2>1. /\ ~events[e].booked /\ events' = events
        /\ ppc' = [ppc EXCEPT ![w] = "record"]
        /\ preq' = [preq EXCEPT ![w] = [event |-> e, booked |-> booked]]
    BY <1>2 DEF Prc!Validate, Prc!Acceptable
  <2> SUFFICES ASSUME NEW i \in 1..Len(events)
               PROVE  /\ events[i].credits + Cardinality(Prc!Booking(i)') <= Cardinality(PricingWorkers)
                      /\ events[i].booked <=> events[i].credits > 0
    BY <2>1 DEF CreditInv
  <2>2. CASE i = e
    <3>1. events[i].credits = 0
      BY <1>0, <2>1, <2>2 DEF CreditInv
    <3>2. Prc!Booking(i)' \in SUBSET PricingWorkers
      BY DEF Prc!Booking
    <3>3. Cardinality(Prc!Booking(i)') \in Nat /\ Cardinality(Prc!Booking(i)') <= Cardinality(PricingWorkers)
      BY <3>2, PricingServiceAssumption, FS_Subset, FS_CardinalityType
    <3> QED
      BY <2>1, <2>2, <3>1, <3>3
  <2>3. CASE i # e
    <3>1. Prc!Booking(i)' \in SUBSET Prc!Booking(i)
      BY <2>1, <2>3 DEF Prc!Booking, Prc!TypeOK
    <3>2. Cardinality(Prc!Booking(i)') \in Nat /\ Cardinality(Prc!Booking(i)') <= Cardinality(Prc!Booking(i))
      BY <3>1, BookingFinite, FS_Subset, FS_CardinalityType
    <3> QED
      BY <1>0, <3>2, BookingFinite DEF CreditInv
  <2> QED
    BY <2>2, <2>3
<1>3. ASSUME NEW w \in PricingWorkers, Prc!RecordBooking(w) PROVE CreditInv'
  <2> DEFINE k == preq[w].event
  <2>0. k = preq[w].event
    OBVIOUS
  <2> HIDE DEF k
  <2>1. /\ k \in 1..Len(events) /\ Len(events') = Len(events)
        /\ events'[k].booked /\ events'[k].credits = events[k].credits + 1
        /\ \A j \in 1..Len(events) : j # k => events'[j] = events[j]
    BY <1>3, <2>0, BookingLogged
  <2>2. /\ w \in Prc!Booking(k)
        /\ \A i : Prc!Booking(i)' \subseteq Prc!Booking(i) \ {w}
    BY <1>3, <2>0 DEF Prc!RecordBooking, Prc!Reply, Prc!Booking, Prc!TypeOK
  <2> SUFFICES ASSUME NEW i \in 1..Len(events)
               PROVE  /\ events'[i].credits + Cardinality(Prc!Booking(i)') <= Cardinality(PricingWorkers)
                      /\ events'[i].booked <=> events'[i].credits > 0
    BY <2>1 DEF CreditInv
  <2>3. CASE i = k
    <3> DEFINE B == Prc!Booking(i)
    <3>1. /\ IsFiniteSet(B) /\ Cardinality(B) \in Nat /\ w \in B
          /\ events[i].credits \in Nat
          /\ events[i].credits + Cardinality(B) <= Cardinality(PricingWorkers)
          /\ Cardinality(PricingWorkers) \in Nat
      BY <1>0, <2>2, <2>3, BookingFinite DEF CreditInv
    <3>2. Prc!Booking(i)' \in SUBSET (B \ {w})
      BY <2>2
    <3> HIDE DEF B
    <3>3. IsFiniteSet(B \ {w}) /\ Cardinality(B \ {w}) = Cardinality(B) - 1
      BY <3>1, FS_RemoveElement
    <3>4. Cardinality(Prc!Booking(i)') \in Nat /\ Cardinality(Prc!Booking(i)') <= Cardinality(B) - 1
      BY <3>2, <3>3, FS_Subset, FS_CardinalityType
    <3> QED
      BY <2>1, <2>3, <3>1, <3>4
  <2>4. CASE i # k
    <3>1. Prc!Booking(i)' \in SUBSET Prc!Booking(i)
      BY <2>2
    <3>2. Cardinality(Prc!Booking(i)') \in Nat /\ Cardinality(Prc!Booking(i)') <= Cardinality(Prc!Booking(i))
      BY <3>1, BookingFinite, FS_Subset, FS_CardinalityType
    <3> QED
      BY <1>0, <2>1, <2>4, <3>2, BookingFinite DEF CreditInv
  <2> QED
    BY <2>3, <2>4
<1>4. ASSUME events' = events, \A i : Prc!Booking(i)' \subseteq Prc!Booking(i)
      PROVE  CreditInv'
  <2> SUFFICES ASSUME NEW i \in 1..Len(events)
               PROVE  /\ events[i].credits + Cardinality(Prc!Booking(i)') <= Cardinality(PricingWorkers)
                      /\ events[i].booked <=> events[i].credits > 0
    BY <1>4 DEF CreditInv
  <2>1. Prc!Booking(i)' \in SUBSET Prc!Booking(i)
    BY <1>4
  <2>2. Cardinality(Prc!Booking(i)') \in Nat /\ Cardinality(Prc!Booking(i)') <= Cardinality(Prc!Booking(i))
    BY <2>1, BookingFinite, FS_Subset, FS_CardinalityType
  <2> QED
    BY <1>0, <2>2, BookingFinite DEF CreditInv
<1>5. ASSUME NEW w \in PricingWorkers, Prc!RecordNoBooking(w) \/ Prc!RecordAbort(w) PROVE CreditInv'
  <2>1. events' = events /\ \A i : Prc!Booking(i)' \subseteq Prc!Booking(i)
    BY <1>5 DEF Prc!RecordNoBooking, Prc!RecordAbort, Prc!Reply, Prc!Booking, Prc!TypeOK
  <2> QED
    BY <1>4, <2>1
<1>6. ASSUME \/ \E b \in BasePrices : Prc!SetBasePrice(b)
             \/ UNCHANGED pricing
      PROVE  CreditInv'
  <2>1. events' = events /\ \A i : Prc!Booking(i)' \subseteq Prc!Booking(i)
    BY <1>6 DEF Prc!SetBasePrice, pricing, Prc!Booking
  <2> QED
    BY <1>4, <2>1
<1> QED
  BY <1>1, <1>2, <1>3, <1>5, <1>6 DEF Prc!Next

\* The credits of the system's offers have the margin of the pricing service.
LEMMA Credits == SystemSpec => []CreditInv
<1>1. SystemInit => CreditInv
  BY DEF SystemInit, Prc!Init, CreditInv
<1>2. /\ TypeOK /\ LinkInv /\ LinkInv' /\ CreditInv /\ [SystemNext]_systemVars
      => CreditInv'
  <2> SUFFICES ASSUME TypeOK, LinkInv, LinkInv', CreditInv, [SystemNext]_systemVars
               PROVE  CreditInv'
    OBVIOUS
  <2>1. Prc!Next \/ UNCHANGED pricing
    BY PricingStep
  <2> QED
    BY <2>1, CreditInvStep DEF LinkInv
<1> QED
  BY <1>1, <1>2, Links, PTL DEF SystemSpec

\* An offer yields at most one reservation per thread of the pricing service.
ReservationsBounded ==
  \A e \in 1..Len(events) : Cardinality(Reserved(e)) <= Cardinality(PricingWorkers)

\* Whatever the number of inventory workers, clients and retries, an offer is
\* sold at most as often as the pricing service has threads that can race.
THEOREM OffersReserveBounded == SystemSpec => []ReservationsBounded
<1>1. LinkInv /\ CreditInv /\ EveryBookingPaid => ReservationsBounded
  <2> SUFFICES ASSUME LinkInv, CreditInv, EveryBookingPaid, NEW e \in 1..Len(events)
               PROVE  Cardinality(Reserved(e)) <= Cardinality(PricingWorkers)
    BY DEF ReservationsBounded
  <2>1. Cardinality(Reserved(e)) \in Nat /\ Cardinality(Reserving(e)) \in Nat
    <3>1. Len(bookings) \in Nat
      BY DEF LinkInv, BookingsTyped
    <3> QED
      BY <3>1, ReservedFinite, ReservingFinite
  <2>2. events[e].credits \in Nat
    <3>1. events[e] \in Prc!Event
      BY DEF LinkInv, Prc!TypeOK
    <3> QED
      BY <3>1 DEF Prc!Event
  <2>3. /\ events[e].credits + Cardinality(Prc!Booking(e)) <= Cardinality(PricingWorkers)
        /\ Cardinality(Prc!Booking(e)) \in Nat /\ Cardinality(PricingWorkers) \in Nat
    BY BookingFinite DEF CreditInv
  <2>4. Cardinality(Reserved(e)) + Cardinality(Reserving(e)) <= events[e].credits
    BY DEF EveryBookingPaid
  <2> QED
    BY <2>1, <2>2, <2>3, <2>4
<1> QED
  BY <1>1, Links, Credits, BookingsArePaid, PTL

-----------------------------------------------------------------------------
(* Both services together keep the contract *)

\* Counting is the same in the contract as in the system.
LEMMA ContractCardinality ==
  ASSUME NEW S
  PROVE  Contract!Cardinality(S) = Cardinality(S)
BY DEF Cardinality, Contract!Cardinality

\* What the contract sees of a log of offers.
OffersIn(log) ==
  [i \in 1..Len(log) |->
     [user |-> log[i].user, price |-> log[i].price, recorded |-> log[i].credits]]

ContractOffer == [user: Users, price: Nat, recorded: Nat]

LEMMA OffersTyped ==
  ASSUME NEW log \in Seq(Prc!Event)
  PROVE  /\ OffersIn(log) \in Seq(ContractOffer)
         /\ Len(OffersIn(log)) = Len(log) /\ Len(log) \in Nat
         /\ \A i \in 1..Len(log) :
              /\ OffersIn(log)[i] = [user |-> log[i].user, price |-> log[i].price,
                                     recorded |-> log[i].credits]
              /\ OffersIn(log)[i] \in ContractOffer
              /\ OffersIn(log)[i].user = log[i].user
              /\ OffersIn(log)[i].price = log[i].price
              /\ OffersIn(log)[i].recorded = log[i].credits
              /\ log[i].price \in Nat /\ log[i].credits \in Nat
<1> DEFINE O(i) == [user |-> log[i].user, price |-> log[i].price,
                    recorded |-> log[i].credits]
<1>1. \A i \in 1..Len(log) : /\ O(i) \in ContractOffer
                             /\ log[i].price \in Nat /\ log[i].credits \in Nat
  <2> SUFFICES ASSUME NEW i \in 1..Len(log)
               PROVE  O(i) \in ContractOffer /\ log[i].price \in Nat /\ log[i].credits \in Nat
    OBVIOUS
  <2>1. log[i] \in Prc!Event
    OBVIOUS
  <2> QED
    BY <2>1 DEF Prc!Event, ContractOffer
<1>2. OffersIn(log) = [i \in 1..Len(log) |-> O(i)] /\ Len(log) \in Nat
  BY DEF OffersIn
<1> HIDE DEF O
<1>3. OffersIn(log) \in Seq(ContractOffer) /\ Len(OffersIn(log)) = Len(log)
  BY <1>1, <1>2
<1>4. \A i \in 1..Len(log) : OffersIn(log)[i] = O(i)
  BY <1>2
<1>5. \A i \in 1..Len(log) : /\ O(i).user = log[i].user
                             /\ O(i).price = log[i].price
                             /\ O(i).recorded = log[i].credits
  BY DEF O
<1> QED
  BY <1>1, <1>2, <1>3, <1>4, <1>5 DEF O

\* A search makes an offer.
LEMMA SearchOffers ==
  ASSUME Prc!TypeOK, Prc!TypeOK', NEW u \in Users, Search(u)
  PROVE  Contract!Offer(u)
<1>1. PICK e \in Prc!Event : /\ e.credits = 0 /\ e.user = u
                             /\ events' = Append(events, e)
  BY SearchLogs DEF Search
<1> DEFINE n == Len(events)
           o == [user |-> u, price |-> e.price, recorded |-> 0]
           old == OffersIn(events)
           new == OffersIn(events')
<1>2. /\ n \in Nat /\ Len(events') = n + 1 /\ events'[n + 1] = e
      /\ \A i \in 1..n : events'[i] = events[i]
      /\ events \in Seq(Prc!Event) /\ events' \in Seq(Prc!Event)
  BY <1>1 DEF Prc!TypeOK
<1>3. o \in ContractOffer /\ o.price = e.price /\ e.price \in Nat
  BY DEF Prc!Event, ContractOffer
<1>4. /\ old \in Seq(ContractOffer) /\ Len(old) = n
      /\ new \in Seq(ContractOffer) /\ Len(new) = n + 1
      /\ \A i \in 1..n : new[i] = old[i]
      /\ new[n + 1] = o
  <2>1. /\ old \in Seq(ContractOffer) /\ Len(old) = n
        /\ new \in Seq(ContractOffer) /\ Len(new) = n + 1
        /\ \A i \in 1..n :
             old[i] = [user |-> events[i].user, price |-> events[i].price,
                       recorded |-> events[i].credits]
        /\ \A i \in 1..n + 1 :
             new[i] = [user |-> events'[i].user, price |-> events'[i].price,
                       recorded |-> events'[i].credits]
    BY <1>2, OffersTyped
  <2> HIDE DEF old, new, n
  <2>2. \A i \in 1..n : new[i] = old[i]
    <3>1. \A i \in 1..n : i \in 1..n + 1
      BY <1>2
    <3> QED
      BY <1>2, <2>1, <3>1
  <2>3. new[n + 1] = o
    BY <1>1, <1>2, <2>1
  <2> QED
    BY <2>1, <2>2, <2>3
<1>5. UNCHANGED <<bookings, reservations>>
  BY DEF Search, vars, links
<1> HIDE DEF n, o
<1>6. old = OffersIn(events) /\ new = OffersIn(events')
  OBVIOUS
<1> HIDE DEF old, new
<1>7. new = Append(old, o) /\ new[Len(new)].price = o.price /\ Len(new) > Len(old)
  BY <1>2, <1>3, <1>4
<1> QED
  BY <1>3, <1>5, <1>6, <1>7 DEF Contract!Offer, OffersIn, o

\* The offer after one more record.
LEMMA OfferRecorded ==
  ASSUME NEW o \in ContractOffer
  PROVE  [o EXCEPT !.recorded = @ + 1]
           = [user |-> o.user, price |-> o.price, recorded |-> o.recorded + 1]
<1> DEFINE d == [o EXCEPT !.recorded = @ + 1]
<1>1. d \in ContractOffer
  BY DEF ContractOffer
<1>2. d.user = o.user /\ d.price = o.price /\ d.recorded = o.recorded + 1
  BY DEF ContractOffer
<1> HIDE DEF d
<1>3. d = [user |-> d.user, price |-> d.price, recorded |-> d.recorded]
  BY <1>1 DEF ContractOffer
<1>4. d = [user |-> o.user, price |-> o.price, recorded |-> o.recorded + 1]
  BY <1>2, <1>3
<1> QED
  BY <1>4 DEF d

\* A recorded booking is recorded in the contract, with a thread left for it.
LEMMA BookingRecords ==
  ASSUME Prc!TypeOK, Prc!TypeOK', CreditInv, NEW v \in PricingWorkers, PricingRecords(v)
  PROVE  \E e \in 1..Len(events) : Contract!Record(e)
<1>0. Prc!RecordBooking(v)
  BY DEF PricingRecords
<1>1. PICK k \in 1..Len(events) : k = preq[v].event
  BY <1>0, BookingLogged
<1>2. /\ Len(events') = Len(events)
      /\ events'[k].user = events[k].user /\ events'[k].price = events[k].price
      /\ events'[k].credits = events[k].credits + 1
      /\ \A j \in 1..Len(events) : j # k => events'[j] = events[j]
      /\ events \in Seq(Prc!Event) /\ events' \in Seq(Prc!Event)
  BY <1>0, <1>1, BookingLogged DEF Prc!TypeOK
<1>3. events[k].credits < Cardinality(PricingWorkers)
  <2>1. v \in Prc!Booking(k)
    BY <1>0, <1>1 DEF Prc!RecordBooking, Prc!Booking
  <2>2. /\ Cardinality(Prc!Booking(k)) \in Nat /\ Cardinality(Prc!Booking(k)) # 0
        /\ Cardinality(PricingWorkers) \in Nat
    BY <2>1, BookingFinite, FS_EmptySet
  <2>3. /\ events[k].credits + Cardinality(Prc!Booking(k)) <= Cardinality(PricingWorkers)
        /\ events[k].credits \in Nat
    BY <1>2, OffersTyped DEF CreditInv
  <2> QED
    BY <2>2, <2>3
<1> DEFINE old == OffersIn(events)
           new == OffersIn(events')
<1>4. /\ old \in Seq(ContractOffer) /\ Len(old) = Len(events)
      /\ new \in Seq(ContractOffer) /\ Len(new) = Len(events)
      /\ \A j \in 1..Len(events) :
           /\ old[j] = [user |-> events[j].user, price |-> events[j].price,
                        recorded |-> events[j].credits]
           /\ new[j] = [user |-> events'[j].user, price |-> events'[j].price,
                        recorded |-> events'[j].credits]
           /\ old[j] \in ContractOffer
           /\ old[j].user = events[j].user /\ old[j].price = events[j].price
           /\ old[j].recorded = events[j].credits
  BY <1>2, OffersTyped
<1>5. old = OffersIn(events) /\ new = OffersIn(events') /\ Len(events) \in Nat
  BY <1>2
<1> HIDE DEF old, new
<1>6. /\ old[k].user = events[k].user /\ old[k].price = events[k].price
      /\ old[k].recorded = events[k].credits
  BY <1>4
<1>7. new[k] = [old[k] EXCEPT !.recorded = @ + 1]
  <2>1. new[k] = [user |-> old[k].user, price |-> old[k].price,
                  recorded |-> old[k].recorded + 1]
    BY <1>2, <1>4, <1>6
  <2> QED
    BY <1>4, <2>1, OfferRecorded
<1>8. new = [old EXCEPT ![k].recorded = @ + 1]
  <2> DEFINE o == [old[k] EXCEPT !.recorded = @ + 1]
  <2>0. new[k] = o
    BY <1>7
  <2> HIDE DEF o
  <2>1. /\ new[k] = o
        /\ \A j \in 1..Len(events) : j # k => new[j] = old[j]
    BY <1>2, <1>4, <2>0
  <2>2. new = [old EXCEPT ![k] = o]
    BY <1>4, <2>1
  <2> QED
    BY <2>2 DEF o
<1>9. UNCHANGED <<bookings, reservations>>
  BY DEF PricingRecords, PricingOutcome, vars
<1>10. Contract!Record(k)
  BY <1>3, <1>4, <1>5, <1>6, <1>8, <1>9 DEF Contract!Record, OffersIn
<1> QED
  BY <1>10

\* Only a search and a recorded booking write the log of offers.
LEMMA LogUntouched ==
  ASSUME [SystemNext]_systemVars,
         \A u \in Users : ~Search(u),
         \A v \in PricingWorkers : ~PricingRecords(v)
  PROVE  events' = events
<1>1. ASSUME NEW w \in Workers, NEW u \in Users, NEW e, NEW p, NEW win, Book(w, u, e, p, win)
      PROVE  events' = events
  BY <1>1 DEF Book, pricing
<1>2. ASSUME NEW w \in Workers, NEW u \in Users, NEW i, Cancel(w, u, i)
      PROVE  events' = events
  BY <1>2 DEF Cancel, pricing
<1>3. ASSUME NEW v \in PricingWorkers, NEW u \in Users, NEW e, NEW p, Decline(v, u, e, p)
      PROVE  events' = events
  BY <1>3 DEF Decline, Prc!Validate
<1>4. ASSUME NEW v \in PricingWorkers, NEW w \in Workers,
             CallPricing(w, v) \/ PricingRefuses(w, v)
      PROVE  events' = events
  BY <1>4 DEF CallPricing, PricingRefuses, Prc!Validate, pricing
<1>5. ASSUME NEW v \in PricingWorkers, PricingRecordsDecline(v) \/ PricingFails(v)
      PROVE  events' = events
  BY <1>5 DEF PricingRecordsDecline, PricingFails, Prc!RecordNoBooking, Prc!RecordAbort
<1>6. ASSUME NEW w \in Workers,
             ReserveStep(w) \/ Reserve(w) \/ CancelStep(w) \/ InventoryFails(w)
      PROVE  events' = events
  BY <1>6 DEF ReserveStep, Reserve, CancelStep, InventoryFails, pricing
<1>7. CASE Environment
  BY <1>7 DEF Environment, Prc!SetBasePrice, pricing
<1>8. CASE UNCHANGED systemVars
  BY <1>8 DEF systemVars, pricing
<1> QED
  BY <1>1, <1>2, <1>3, <1>4, <1>5, <1>6, <1>7, <1>8 DEF SystemNext

\* A committed row is a sale: of an offer to its user and at its price, on
\* account of a record that no other row uses.
LEMMA RowSells ==
  ASSUME TypeOK, LinkInv, OverbookingMargin, RowInv, EveryBookingPaid,
         NEW w \in Workers, Reserve(w), pc'[w] # "idle"
  PROVE  \E e \in 1..Len(events), s \in Spots, win \in Windows : Contract!Sell(e, s, win)
<1>1. /\ pc[w] = "commit" /\ CommitReservation(w)
      /\ bookings' = Append(bookings, [event |-> call[w].event, price |-> call[w].price])
      /\ events' = events
  BY RowInserted DEF Reserve, pricing
<1>2. PICK e \in 1..Len(events) : e = call[w].event
  BY <1>1 DEF LinkInv, CallsOK, ReservePC
<1>3. PICK s \in Spots, u \in Users, win \in Windows :
        s = req[w].spot /\ u = req[w].user /\ win = req[w].window
  BY <1>1 DEF TypeOK, RequestOK, ReserveRequest, ReservePC
<1>4. KeyFree(reservations, s, win)
  BY <1>1, <1>3 DEF CommitReservation, Reply, TypeOK
<1>5. events[e].user = u /\ events[e].price = call[w].price
  BY <1>1, <1>2, <1>3 DEF LinkInv, CallsOK, Matches, Recorded, ReservePC
<1>6. events \in Seq(Prc!Event) /\ Len(bookings) \in Nat
  BY DEF LinkInv, Prc!TypeOK, BookingsTyped
<1> DEFINE old == OffersIn(events)
<1>7. /\ Len(old) = Len(events)
      /\ old[e].user = u /\ old[e].price = call[w].price
      /\ old[e].recorded = events[e].credits /\ events[e].credits \in Nat
  BY <1>5, <1>6, OffersTyped
<1>8. Cardinality(Reserved(e)) < events[e].credits
  <2>1. w \in Reserving(e)
    BY <1>1, <1>2 DEF Reserving
  <2>2. /\ Cardinality(Reserving(e)) \in Nat /\ Cardinality(Reserving(e)) # 0
        /\ Cardinality(Reserved(e)) \in Nat
    BY <1>6, <2>1, ReservingFinite, ReservedFinite, FS_EmptySet
  <2>3. Cardinality(Reserved(e)) + Cardinality(Reserving(e)) <= events[e].credits
    BY DEF EveryBookingPaid
  <2> QED
    BY <1>7, <2>2, <2>3
<1>9. Contract!Cardinality(Contract!Sold(e)) < old[e].recorded
  <2>1. Contract!Sold(e) = Reserved(e)
    BY DEF Contract!Sold, Reserved
  <2> HIDE DEF old
  <2> QED
    BY <1>7, <1>8, <2>1, ContractCardinality
<1>10. ValidWindow(win)
  BY <1>1, <1>3 DEF RowInv, WindowsValid
<1>11. ASSUME NEW t \in Slots, Covers(win, t)
       PROVE  Cardinality(ConfirmedAt(reservations, s, t)) < Cardinality(Workers)
  <2> DEFINE A == ConfirmedAt(reservations, s, t)
             B == Committing(s, t)
  <2>1. w \in B
    BY <1>1, <1>3, <1>11 DEF Committing
  <2>2. /\ IsFiniteSet(B) /\ Cardinality(A) \in Nat /\ Cardinality(B) \in Nat
        /\ Cardinality(Workers) \in Nat
        /\ Cardinality(A) + Cardinality(B) <= Cardinality(Workers)
    BY CountedSetsFinite DEF TypeOK, OverbookingMargin
  <2> HIDE DEF A, B
  <2>3. Cardinality(B) # 0
    BY <2>1, <2>2, FS_EmptySet
  <2>4. Cardinality(A) < Cardinality(Workers)
    BY <2>2, <2>3
  <2> QED
    BY <2>4 DEF A
<1>12. \A t \in Slots : Contract!Covers(win, t) =>
         Contract!Cardinality(Contract!ConfirmedAt(reservations, s, t)) < Cardinality(Workers)
  <2>1. \A t \in Slots : /\ Contract!Covers(win, t) <=> Covers(win, t)
                         /\ Contract!ConfirmedAt(reservations, s, t)
                              = ConfirmedAt(reservations, s, t)
    BY DEF Covers, ConfirmedAt, Contract!Covers, Contract!ConfirmedAt
  <2> QED
    BY <1>11, <2>1, ContractCardinality
<1>13. Contract!ValidWindow(win) /\ Contract!KeyFree(reservations, s, win)
  BY <1>4, <1>10 DEF ValidWindow, KeyFree, Contract!ValidWindow, Contract!KeyFree
<1>14. reservations' = Append(reservations, [spot |-> s, user |-> u, window |-> win,
                                            status |-> "confirmed"])
  BY <1>1, <1>3, <1>4 DEF CommitReservation
<1>15. /\ bookings' = Append(bookings, [event |-> e, price |-> old[e].price])
       /\ OffersIn(events)' = OffersIn(events)
  BY <1>1, <1>2, <1>7 DEF OffersIn
<1>16. Contract!Book(s, old[e].user, win)
  <2> HIDE DEF old
  <2> QED
    BY <1>7, <1>12, <1>13, <1>14 DEF Contract!Book
<1>17. Contract!Sell(e, s, win)
  BY <1>9, <1>15, <1>16 DEF Contract!Sell, OffersIn
<1> QED
  BY <1>17

\* The services together implement the contract, whatever the number of users,
\* spots, offers and threads and whichever request fails half way: every step
\* of the system is an offer, a record, a sale, a cancellation or none of them.
THEOREM ContractKept == SystemSpec => RefinesContract
<1>1. SystemInit => Contract!ContractInit
  <2> SUFFICES ASSUME SystemInit PROVE Contract!ContractInit
    OBVIOUS
  <2>1. events = << >> /\ bookings = << >> /\ reservations = << >>
    BY DEF SystemInit, Init, Prc!Init
  <2>2. OffersIn(events) = << >>
    BY <2>1 DEF OffersIn
  <2> QED
    BY <2>1, <2>2 DEF Contract!ContractInit, Contract!LedgerInit, OffersIn
<1>2. ASSUME TypeOK, LinkInv, LinkInv', CreditInv, OverbookingMargin, RowInv, EveryBookingPaid,
             [SystemNext]_systemVars
      PROVE  [Contract!ContractNext]_Contract!contract
  <2>0. Len(OffersIn(events)) = Len(events)
    BY <1>2, OffersTyped DEF LinkInv, Prc!TypeOK
  <2>1. ASSUME NEW u \in Users, Search(u) PROVE Contract!ContractNext
    <3>1. Contract!Offer(u)
      BY <1>2, <2>1, SearchOffers DEF LinkInv
    <3> QED
      BY <3>1 DEF Contract!ContractNext
  <2>2. ASSUME NEW v \in PricingWorkers, PricingRecords(v) PROVE Contract!ContractNext
    <3>1. PICK e \in 1..Len(events) : Contract!Record(e)
      BY <1>2, <2>2, BookingRecords DEF LinkInv
    <3> QED
      BY <2>0, <3>1 DEF Contract!ContractNext, OffersIn
  <2>3. ASSUME NEW w \in Workers, Reserve(w), pc'[w] # "idle" PROVE Contract!ContractNext
    <3>1. PICK e \in 1..Len(events), s \in Spots, win \in Windows : Contract!Sell(e, s, win)
      BY <1>2, <2>3, RowSells
    <3> QED
      BY <2>0, <3>1 DEF Contract!ContractNext, OffersIn
  <2>4. ASSUME NEW w \in Workers, CancelStep(w) PROVE Contract!ContractNext
    <3>1. PICK i \in 1..Len(reservations) : i = req[w].target
      BY <1>2, <2>4 DEF CancelStep, CommitCancel, TypeOK, RequestOK, ReservePC
    <3>2. /\ reservations' = [reservations EXCEPT ![i].status = "cancelled"]
          /\ events' = events /\ bookings' = bookings
      BY <2>4, <3>1 DEF CancelStep, CommitCancel, pricing, links
    <3>3. Contract!Revoke(i)
      BY <3>2 DEF Contract!Revoke, Contract!Cancel
    <3> QED
      BY <3>3 DEF Contract!ContractNext
  <2>5. ASSUME \A u \in Users : ~Search(u),
               \A v \in PricingWorkers : ~PricingRecords(v),
               \A w \in Workers : ~CancelStep(w) /\ ~(Reserve(w) /\ pc'[w] # "idle")
        PROVE  UNCHANGED Contract!contract
    <3>1. bookings' = bookings /\ reservations' = reservations
      BY <1>2, <2>5, RowsUntouched DEF LinkInv, CallersOK
    <3>2. events' = events
      BY <1>2, <2>5, LogUntouched
    <3> QED
      BY <3>1, <3>2 DEF Contract!contract
  <2> QED
    BY <2>1, <2>2, <2>3, <2>4, <2>5
<1>3. SystemSpec => [](OverbookingMargin /\ RowInv)
  BY InventoryInside, Margin, Rows, PTL
<1> QED
  BY <1>1, <1>2, <1>3, Links, Credits, BookingsArePaid, PTL
  DEF SystemSpec, RefinesContract, Contract!ContractSpec

-----------------------------------------------------------------------------
(* Rewards under a base price that never changes: as in PricingProofs, of  *)
(* the pricing service inside the system                                   *)

\* An offer that does not exceed the ceiling has a reward in [0, 1].
LEMMA RewardBound ==
  ASSUME NEW price \in Nat, basePrice \in Nat, basePrice # 0,
         100 * price <= basePrice * MaxMultiplier
  PROVE  Prc!Reward(price) \in 0..Scale
<1> DEFINE y == basePrice * MaxMultiplier
           c == 100 * price
           x == Scale * price * 100
<1>1. /\ Scale \in Nat /\ basePrice > 0
      /\ MaxMultiplier \in Nat /\ MaxMultiplier > 0
  BY PricingServiceAssumption
<1>2. y \in Nat /\ y > 0 /\ c \in Nat /\ x \in Nat /\ x = Scale * c
  BY <1>1
<1>3. c <= y
  OBVIOUS
<1> HIDE DEF x, y, c
<1>4. Scale * c <= Scale * y
  BY <1>1, <1>2, <1>3
<1>5. x \div y \in 0..Scale
  <2> DEFINE q == x \div y
  <2>1. q \in Int /\ y * q <= x /\ x < y * q + y
    BY <1>2
  <2> HIDE DEF q
  <2>2. q >= 0
    <3>1. ASSUME q <= -1 PROVE FALSE
      <4>1. y * q <= y * (-1)
        BY <1>2, <2>1, <3>1
      <4> QED
        BY <1>2, <2>1, <4>1
    <3> QED
      BY <2>1, <3>1
  <2>3. q <= Scale
    <3>1. ASSUME q >= Scale + 1 PROVE FALSE
      <4>1. y * q >= y * (Scale + 1)
        BY <1>1, <1>2, <2>1, <3>1
      <4>2. y * (Scale + 1) = Scale * y + y
        BY <1>1, <1>2
      <4>3. Scale * y \in Nat /\ y * q \in Int
        BY <1>1, <1>2, <2>1
      <4> QED
        BY <1>2, <1>4, <2>1, <4>1, <4>2, <4>3
    <3> QED
      BY <1>1, <2>1, <3>1
  <2> QED
    BY <1>1, <2>1, <2>2, <2>3 DEF q
<1> QED
  BY <1>5 DEF Prc!Reward, x, y

\* No offer exceeds the ceiling, every reward is in [0, 1], and no parameter
\* falls below its initial value.
FixedInv ==
  /\ \A i \in 1..Len(events) :
       /\ 100 * events[i].price <= basePrice * MaxMultiplier
       /\ events[i].reward \in 0..Scale
  /\ \A m \in Multipliers : arms[m].alpha >= Scale /\ arms[m].beta >= Scale

\* The steps of the pricing service keep it that way.
LEMMA FixedStep ==
  ASSUME NEW b \in Nat \ {0}, BasePrices = {b},
         \A m \in Multipliers : \A p \in Prc!Rounded(b, m) :
           100 * p <= b * MaxMultiplier,
         Prc!TypeOK, Prc!TypeOK', FixedInv, Prc!Next \/ UNCHANGED pricing
  PROVE  FixedInv'
<1>0. /\ basePrice = b /\ basePrice' = b
      /\ events \in Seq(Prc!Event) /\ Len(events) \in Nat /\ Scale \in Nat
      /\ arms \in [Multipliers -> Prc!Arm]
      /\ \A n \in Multipliers :
           /\ arms[n].alpha \in Int /\ arms[n].beta \in Int
           /\ arms[n].alpha >= Scale /\ arms[n].beta >= Scale
  <2>1. arms \in [Multipliers -> Prc!Arm]
    BY DEF Prc!TypeOK
  <2>2. \A n \in Multipliers : arms[n].alpha \in Int /\ arms[n].beta \in Int
    BY <2>1 DEF Prc!Arm
  <2>3. basePrice = b /\ basePrice' = b
    BY DEF Prc!TypeOK
  <2>4. events \in Seq(Prc!Event) /\ Len(events) \in Nat
    BY DEF Prc!TypeOK
  <2>5. \A n \in Multipliers : arms[n].alpha >= Scale /\ arms[n].beta >= Scale
    BY DEF FixedInv
  <2> QED
    BY <2>1, <2>2, <2>3, <2>4, <2>5, PricingServiceAssumption
<1>1. ASSUME NEW u \in Users, Prc!GetPrice(u) PROVE FixedInv'
  <2>1. PICK e \in Prc!Event : /\ e.reward = 0 /\ e.price \in Prc!Rounded(basePrice, e.arm)
                               /\ events' = Append(events, e)
    BY <1>1, SearchLogs
  <2>2. 100 * e.price <= b * MaxMultiplier
    BY <1>0, <2>1 DEF Prc!Event
  <2>3. /\ Len(events') = Len(events) + 1 /\ events'[Len(events) + 1] = e
        /\ \A i \in 1..Len(events) : events'[i] = events[i]
        /\ \A i \in 1..Len(events') : i \in 1..Len(events) \/ i = Len(events) + 1
    BY <1>0, <2>1
  <2>4. arms' = arms
    BY <1>1 DEF Prc!GetPrice, Prc!SelectPrice
  <2> QED
    BY <1>0, <2>1, <2>2, <2>3, <2>4 DEF FixedInv
<1>2. ASSUME NEW v \in PricingWorkers, Prc!RecordBooking(v) PROVE FixedInv'
  <2> DEFINE k == preq[v].event
             m == events[k].arm
             r == Prc!Reward(events[k].price)
  <2>0. k = preq[v].event
    OBVIOUS
  <2> HIDE DEF k
  <2>1. /\ k \in 1..Len(events) /\ Len(events') = Len(events)
        /\ events'[k].price = events[k].price /\ events'[k].reward = r
        /\ \A j \in 1..Len(events) : j # k => events'[j] = events[j]
        /\ arms' = Prc!Credit(m, r, events[k].price)
    BY <1>2, <2>0, BookingLogged
  <2>2. events[k].price \in Nat
    <3>1. events[k] \in Prc!Event
      BY <1>0, <2>1
    <3> QED
      BY <3>1 DEF Prc!Event
  <2>3. r \in 0..Scale
    BY <1>0, <2>1, <2>2, RewardBound DEF FixedInv
  <2> HIDE DEF m, r
  <2>4. \A n \in Multipliers : arms'[n].alpha >= Scale /\ arms'[n].beta >= Scale
    <3> SUFFICES ASSUME NEW n \in Multipliers
                 PROVE  arms'[n].alpha >= Scale /\ arms'[n].beta >= Scale
      OBVIOUS
    <3>1. CASE n = m
      <4>1. /\ arms'[n].alpha = arms[n].alpha + r
            /\ arms'[n].beta = arms[n].beta + (Scale - r)
        BY <1>0, <2>1, <3>1 DEF Prc!Credit
      <4> QED
        BY <1>0, <2>3, <4>1
    <3>2. CASE n # m
      <4>1. arms'[n] = arms[n]
        BY <1>0, <2>1, <3>2 DEF Prc!Credit
      <4> QED
        BY <1>0, <4>1
    <3> QED
      BY <3>1, <3>2
  <2> QED
    BY <1>0, <2>1, <2>3, <2>4 DEF FixedInv
<1>3. ASSUME NEW v \in PricingWorkers, Prc!RecordNoBooking(v) PROVE FixedInv'
  <2> DEFINE m == events[preq[v].event].arm
  <2>1. /\ arms' = [arms EXCEPT ![m] = [alpha |-> arms[m].alpha,
                                        beta |-> arms[m].beta + Scale,
                                        pulls |-> arms[m].pulls + 1,
                                        revenue |-> arms[m].revenue]]
        /\ events' = events
    BY <1>3 DEF Prc!RecordNoBooking
  <2> HIDE DEF m
  <2>2. \A n \in Multipliers : arms'[n].alpha >= Scale /\ arms'[n].beta >= Scale
    <3> SUFFICES ASSUME NEW n \in Multipliers
                 PROVE  arms'[n].alpha >= Scale /\ arms'[n].beta >= Scale
      OBVIOUS
    <3>1. CASE n = m
      <4>1. arms'[n].alpha = arms[n].alpha /\ arms'[n].beta = arms[n].beta + Scale
        BY <1>0, <2>1, <3>1
      <4> QED
        BY <1>0, <4>1
    <3>2. CASE n # m
      <4>1. arms'[n] = arms[n]
        BY <1>0, <2>1, <3>2
      <4> QED
        BY <1>0, <4>1
    <3> QED
      BY <3>1, <3>2
  <2> QED
    BY <1>0, <2>1, <2>2 DEF FixedInv
<1>4. ASSUME events' = events, arms' = arms PROVE FixedInv'
  BY <1>0, <1>4 DEF FixedInv
<1> QED
  BY <1>1, <1>2, <1>3, <1>4
     DEF Prc!Next, Prc!SetBasePrice, Prc!Validate, Prc!RecordAbort, pricing

\* In the whole system, while the base price is never changed and no offer is
\* rounded above the ceiling, every reward is in [0, 1], whichever service fails.
THEOREM SystemRewards ==
  ASSUME NEW b \in Nat \ {0}, BasePrices = {b},
         \A m \in Multipliers : \A p \in Prc!Rounded(b, m) :
           100 * p <= b * MaxMultiplier
  PROVE  SystemSpec => [](RewardInUnitInterval /\ ArmsSamplable)
<1>1. SystemInit => FixedInv
  BY PricingServiceAssumption DEF SystemInit, Prc!Init, FixedInv
<1>2. /\ TypeOK /\ LinkInv /\ (TypeOK /\ LinkInv)' /\ FixedInv
      /\ [SystemNext]_systemVars
      => FixedInv'
  <2> SUFFICES ASSUME TypeOK, LinkInv, LinkInv', FixedInv, [SystemNext]_systemVars
               PROVE  FixedInv'
    OBVIOUS
  <2>1. Prc!Next \/ UNCHANGED pricing
    BY PricingStep
  <2>2. Prc!TypeOK /\ Prc!TypeOK'
    BY DEF LinkInv
  <2> QED
    BY <2>1, <2>2, FixedStep
<1>3. LinkInv /\ FixedInv => RewardInUnitInterval /\ ArmsSamplable
  <2> SUFFICES ASSUME LinkInv, FixedInv PROVE RewardInUnitInterval /\ ArmsSamplable
    OBVIOUS
  <2>1. RewardInUnitInterval
    BY DEF FixedInv, RewardInUnitInterval, Prc!RewardInUnitInterval
  <2>2. ASSUME NEW m \in Multipliers PROVE arms[m].alpha > 0 /\ arms[m].beta > 0
    <3>1. arms[m] \in Prc!Arm
      BY DEF LinkInv, Prc!TypeOK
    <3> QED
      BY <3>1, PricingServiceAssumption DEF FixedInv, Prc!Arm
  <2> QED
    BY <2>1, <2>2 DEF ArmsSamplable, Prc!ArmsSamplable, Prc!Samplable
<1> QED
  BY <1>1, <1>2, <1>3, Links, PTL DEF SystemSpec

\* Under the same conditions no search of the system fails because an arm
\* cannot be sampled.
COROLLARY SystemArms ==
  ASSUME NEW b \in Nat \ {0}, BasePrices = {b},
         \A m \in Multipliers : \A p \in Prc!Rounded(b, m) :
           100 * p <= b * MaxMultiplier
  PROVE  SystemSpec => []ArmsSamplable
BY SystemRewards, PTL
=============================================================================
