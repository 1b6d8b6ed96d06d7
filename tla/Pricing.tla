------------------------------ MODULE Pricing ------------------------------
(***************************************************************************)
(* The pricing service for one lot and one context key: the log of offers  *)
(* (pricing_events), the arms of the bandit, the lot's base price, and the *)
(* worker threads that record outcomes.  An outcome is validated and       *)
(* recorded by two statements of one transaction, and nothing locks the    *)
(* event between them.                                                     *)
(* Money is in cents, multipliers in hundredths, and the parameters of the *)
(* Beta distributions in units of 1/Scale.  An arm is named by its         *)
(* multiplier, unique within a lot and a context.                          *)
(***************************************************************************)
EXTENDS Integers, Sequences, FiniteSets

CONSTANTS
  Workers,        \* threads of the gRPC server's executor
  Users,
  Multipliers,    \* multipliers of the arms
  MaxMultiplier,  \* max(DEFAULT_MULTIPLIERS), for the price ceiling
  BasePrices,     \* base prices the lot is ever configured with
  Scale,          \* 1.0 of alpha, beta and reward
  MaxEvents,      \* bound: offers made
  MaxPulls        \* bound: outcomes recorded for one arm

VARIABLES
  basePrice,  \* lot_pricing_config.base_price
  events,     \* pricing_events, row i has event_id i
  arms,       \* bandit_arms
  pc, req     \* what each worker does next, with which validated outcome

vars == <<basePrice, events, arms, pc, req>>

ASSUME PricingAssumption ==
  /\ IsFiniteSet(Workers)
  /\ Multipliers \subseteq Nat
  /\ MaxMultiplier \in Nat \ {0}
  /\ \A m \in Multipliers : m <= MaxMultiplier
  /\ BasePrices \subseteq Nat
  /\ Scale \in Nat \ {0}
  /\ MaxEvents \in Nat /\ MaxPulls \in Nat

-----------------------------------------------------------------------------
(* State *)

\* "credits" is a history variable: how often the booking of the event was
\* credited to its arm.  No step reads it.
Event == [user: Users, arm: Multipliers, price: Nat, booked: BOOLEAN,
          reward: Int, credits: Nat]

Arm == [alpha: Int, beta: Int, pulls: Nat, revenue: Nat]

Outcome == [event: Nat, booked: BOOLEAN]
NoOutcome == [kind |-> "none"]

RequestOK(w) ==
  \/ pc[w] = "idle" /\ req[w] = NoOutcome
  \/ pc[w] = "record" /\ req[w] \in Outcome /\ req[w].event \in 1..Len(events)

TypeOK ==
  /\ basePrice \in BasePrices
  /\ events \in Seq(Event)
  /\ arms \in [Multipliers -> Arm]
  /\ pc \in [Workers -> {"idle", "record"}]
  /\ req \in [Workers -> {NoOutcome} \cup Outcome]
  /\ \A w \in Workers : RequestOK(w)

\* seed_lot ran: every arm starts at Beta(1, 1).
Init ==
  /\ basePrice \in BasePrices
  /\ events = << >>
  /\ arms = [m \in Multipliers |-> [alpha |-> Scale, beta |-> Scale,
                                    pulls |-> 0, revenue |-> 0]]
  /\ pc = [w \in Workers |-> "idle"]
  /\ req = [w \in Workers |-> NoOutcome]

-----------------------------------------------------------------------------
(* Offers *)

\* round(x, 2) of base * multiplier: a nearest number of cents, either one at
\* a tie (the binary fraction decides).
Rounded(base, m) ==
  {p \in {(base * m) \div 100, (base * m) \div 100 + 1} :
     2 * (100 * p - base * m) \in -100..100}

\* np.random.beta refuses parameters that are not positive.
Samplable(m) == arms[m].alpha > 0 /\ arms[m].beta > 0

\* Every arm of the context is sampled, and any can win; its offer is logged.
SelectPrice(u) ==
  /\ \A m \in Multipliers : Samplable(m)
  /\ \E m \in Multipliers : \E p \in Rounded(basePrice, m) :
       events' = Append(events, [user |-> u, arm |-> m, price |-> p,
                                 booked |-> FALSE, reward |-> 0, credits |-> 0])

\* The transaction of an offer; one that fails is rolled back and logs nothing.
GetPrice(u) ==
  /\ Len(events) < MaxEvents
  /\ SelectPrice(u)
  /\ UNCHANGED <<basePrice, arms, pc, req>>

\* seed_lot for a lot that has its arms: only the base price changes.
SetBasePrice(b) ==
  /\ basePrice' = b
  /\ UNCHANGED <<events, arms, pc, req>>

-----------------------------------------------------------------------------
(* Outcomes *)

\* Mutants of Acceptable: the price is not compared; a booked event is accepted
\* again.
AcceptableAnyPrice(e, u, p) == ~events[e].booked /\ events[e].user = u
AcceptableAgain(e, u, p) == events[e].user = u /\ events[e].price = p

\* The validations of an outcome reported by user u for price p.
Acceptable(e, u, p) ==
  /\ ~events[e].booked
  /\ events[e].user = u
  /\ events[e].price = p

\* The event is read and the report validated; a report that is refused, or of
\* an unknown event, changes nothing.
Validate(w, e, u, p, booked) ==
  /\ pc[w] = "idle"
  /\ Acceptable(e, u, p)
  /\ pc' = [pc EXCEPT ![w] = "record"]
  /\ req' = [req EXCEPT ![w] = [event |-> e, booked |-> booked]]
  /\ UNCHANGED <<basePrice, events, arms>>

\* Mutant of Reply: the worker keeps the outcome it has recorded.
ReplyOnly(w) == pc' = [pc EXCEPT ![w] = "idle"] /\ UNCHANGED req

\* The worker answers and is free for another report.
Reply(w) ==
  /\ pc' = [pc EXCEPT ![w] = "idle"]
  /\ req' = [req EXCEPT ![w] = NoOutcome]

\* Mutant of Reward: the multiplier of the ceiling is left out.
RewardOfBase(price) == (Scale * price) \div basePrice

\* price / ceiling, with the base price of now, not of the offer.
Reward(price) == (Scale * price * 100) \div (basePrice * MaxMultiplier)

\* Mutant of Credit: beta gets a full failure on a booking too.
CreditOnly(m, r, price) ==
  [arms EXCEPT ![m] = [alpha |-> @.alpha + r, beta |-> @.beta + Scale,
                       pulls |-> @.pulls + 1, revenue |-> @.revenue + price]]

\* Mutant of Credit: the reward is taken from beta as it stands, not from 1.
CreditTakes(m, r, price) ==
  [arms EXCEPT ![m] = [alpha |-> @.alpha + r, beta |-> @.beta - r,
                       pulls |-> @.pulls + 1, revenue |-> @.revenue + price]]

\* The increment of the arm by a booking with reward r.
Credit(m, r, price) ==
  [arms EXCEPT ![m] = [alpha |-> @.alpha + r, beta |-> @.beta + (Scale - r),
                       pulls |-> @.pulls + 1, revenue |-> @.revenue + price]]

\* The event row after its booking was recorded with reward r.
Booked(e, r) ==
  [user |-> e.user, arm |-> e.arm, price |-> e.price,
   booked |-> TRUE, reward |-> r, credits |-> e.credits + 1]

\* The event row is written and its arm credited; a base price of 0 raises.
RecordBooking(w) ==
  /\ pc[w] = "record" /\ req[w].booked
  /\ LET i == req[w].event
         e == events[i]
         r == Reward(e.price) IN
       /\ basePrice # 0
       /\ arms[e.arm].pulls < MaxPulls
       /\ events' = [events EXCEPT ![i] = Booked(e, r)]
       /\ arms' = Credit(e.arm, r, e.price)
  /\ Reply(w)
  /\ UNCHANGED basePrice

\* Mutant of RecordNoBooking: the assignment booked = False reaches the row.
RecordNoBookingWrites(w) ==
  /\ pc[w] = "record" /\ ~req[w].booked
  /\ events' = [events EXCEPT ![req[w].event].booked = FALSE]
  /\ Reply(w)
  /\ UNCHANGED <<basePrice, arms>>

\* Only the arm is written: booked = False and reward = 0 equal the values the
\* session loaded, so the event row is not part of the UPDATEs.
RecordNoBooking(w) ==
  /\ pc[w] = "record" /\ ~req[w].booked
  /\ LET m == events[req[w].event].arm IN
       /\ arms[m].pulls < MaxPulls
       /\ arms' = [arms EXCEPT ![m] = [alpha |-> @.alpha, beta |-> @.beta + Scale,
                                       pulls |-> @.pulls + 1,
                                       revenue |-> @.revenue]]
  /\ Reply(w)
  /\ UNCHANGED <<basePrice, events>>

\* An exception rolls the transaction back; so does the death of the process.
RecordAbort(w) ==
  /\ pc[w] = "record"
  /\ Reply(w)
  /\ UNCHANGED <<basePrice, events, arms>>

Next ==
  \/ \E u \in Users : GetPrice(u)
  \/ \E b \in BasePrices : SetBasePrice(b)
  \/ \E w \in Workers :
       \/ \E e \in 1..Len(events), u \in Users, booked \in BOOLEAN :
            \E p \in {events[i].price : i \in 1..Len(events)} :
              Validate(w, e, u, p, booked)
       \/ RecordBooking(w)
       \/ RecordNoBooking(w)
       \/ RecordAbort(w)

Spec == Init /\ [][Next]_vars

-----------------------------------------------------------------------------
(* Properties *)

\* Every recorded outcome adds exactly one unit to alpha + beta, whatever its
\* reward ("every observation adds exactly 1 to (alpha + beta)",
\* pricing-service/DESIGN.md:187), also under racing outcomes and price changes.
EvidenceConserved ==
  \A m \in Multipliers :
    arms[m].alpha + arms[m].beta = 2 * Scale + Scale * arms[m].pulls

\* The workers about to record a booking of event i.
Booking(i) ==
  {w \in Workers : pc[w] = "record" /\ req[w].event = i /\ req[w].booked}

\* A booking is credited to its arm at most once per worker thread: the check
\* of event.booked holds back every report that starts after the first commit.
CreditsBounded ==
  \A i \in 1..Len(events) : events[i].credits <= Cardinality(Workers)

\* Why: before the first commit nothing is credited, and from then on only the
\* workers that had already passed the check can credit.
CreditMargin ==
  \A i \in 1..Len(events) :
    /\ events[i].credits + Cardinality(Booking(i)) <= Cardinality(Workers)
    /\ events[i].booked <=> events[i].credits > 0

\* A booked offer stays booked, whatever declines were validated before it was
\* booked and recorded after, and the offer itself is never rewritten.
BookedSticks ==
  [][\A i \in 1..Len(events) :
       /\ events[i].booked => events'[i].booked
       /\ events'[i].price = events[i].price
       /\ events'[i].user = events[i].user]_vars

\* Rewards lie in [0, 1] ("This keeps r in [0, 1], which is required for valid
\* Beta-distribution updates", pricing-service/DESIGN.md:169).
RewardInUnitInterval ==
  \A i \in 1..Len(events) : events[i].reward \in 0..Scale

\* No arm's parameters stop being positive: an arm that cannot be sampled makes
\* every later offer of the context fail.
ArmsSamplable == \A m \in Multipliers : Samplable(m)
=============================================================================
