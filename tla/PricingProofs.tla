--------------------------- MODULE PricingProofs ---------------------------
(***************************************************************************)
(* Theorems about Pricing, for every set of users, workers, multipliers    *)
(* and base prices.                                                        *)
(***************************************************************************)
EXTENDS Pricing, FiniteSetTheorems, TLAPS

\* A reward is an integer whenever it is computed.
LEMMA RewardType ==
  ASSUME NEW price \in Nat, basePrice \in BasePrices, basePrice # 0
  PROVE  Reward(price) \in Int
<1> DEFINE x == Scale * price * 100
           y == basePrice * MaxMultiplier
<1>1. basePrice \in Nat /\ basePrice > 0 /\ MaxMultiplier \in Nat /\ MaxMultiplier > 0
  BY PricingAssumption
<1>2. x \in Int /\ y \in Int /\ y > 0
  BY <1>1, PricingAssumption
<1> HIDE DEF x, y
<1>3. x \div y \in Int
  BY <1>2
<1> QED
  BY <1>3 DEF Reward, x, y

\* What GetPrice logs.
LEMMA Offered ==
  ASSUME TypeOK, NEW u \in Users, GetPrice(u)
  PROVE  \E e \in Event : /\ ~e.booked /\ e.reward = 0 /\ e.credits = 0
                          /\ e.price \in Rounded(basePrice, e.arm)
                          /\ events' = Append(events, e)
<1>0. PICK m \in Multipliers : \E p \in Rounded(basePrice, m) :
        events' = Append(events, [user |-> u, arm |-> m, price |-> p,
                                  booked |-> FALSE, reward |-> 0, credits |-> 0])
  BY DEF GetPrice, SelectPrice
<1>1. PICK p \in Rounded(basePrice, m) :
        events' = Append(events, [user |-> u, arm |-> m, price |-> p,
                                  booked |-> FALSE, reward |-> 0, credits |-> 0])
  BY <1>0
<1> DEFINE e == [user |-> u, arm |-> m, price |-> p,
                 booked |-> FALSE, reward |-> 0, credits |-> 0]
<1>2. p \in Nat
  <2>1. basePrice \in Nat /\ m \in Nat
    BY PricingAssumption DEF TypeOK
  <2>2. basePrice * m \in Nat
    BY <2>1
  <2>3. (basePrice * m) \div 100 \in Nat
    BY <2>2
  <2> QED
    BY <2>3 DEF Rounded
<1>3. e \in Event
  BY <1>2 DEF Event
<1>4. /\ e.booked = FALSE /\ e.reward = 0 /\ e.credits = 0
      /\ e.price = p /\ e.arm = m
  OBVIOUS
<1>5. events' = Append(events, e)
  BY <1>1
<1> HIDE DEF e
<1> QED
  BY <1>1, <1>3, <1>4, <1>5

\* What RecordBooking does to the log and to the arms.
LEMMA Recorded ==
  ASSUME TypeOK, NEW w \in Workers, RecordBooking(w),
         NEW i, i = req[w].event
  PROVE  /\ i \in 1..Len(events)
         /\ Reward(events[i].price) \in Int
         /\ events' \in Seq(Event) /\ Len(events') = Len(events)
         /\ events'[i].user = events[i].user
         /\ events'[i].arm = events[i].arm
         /\ events'[i].price = events[i].price
         /\ events'[i].booked
         /\ events'[i].reward = Reward(events[i].price)
         /\ events'[i].credits = events[i].credits + 1
         /\ \A j \in 1..Len(events) : j # i => events'[j] = events[j]
         /\ arms' = Credit(events[i].arm, Reward(events[i].price), events[i].price)
<1>1. i \in 1..Len(events) /\ events \in Seq(Event)
  BY DEF TypeOK, RequestOK, RecordBooking
<1>2. events[i] \in Event /\ events[i].price \in Nat
  <2>1. events[i] \in Event
    BY <1>1
  <2> QED
    BY <2>1 DEF Event
<1>3. Reward(events[i].price) \in Int
  BY <1>2, RewardType DEF TypeOK, RecordBooking
<1> DEFINE e == events[i]
           r == Reward(e.price)
           b == Booked(e, r)
<1>4. /\ b.user = e.user /\ b.arm = e.arm /\ b.price = e.price
      /\ b.booked /\ b.reward = r /\ b.credits = e.credits + 1
      /\ b \in Event
  BY <1>2, <1>3 DEF Booked, Event
<1>5. events' = [events EXCEPT ![i] = b] /\ arms' = Credit(e.arm, r, e.price)
  BY DEF RecordBooking
<1>6. b \in Event
  BY <1>4
<1> HIDE DEF b
<1>7. /\ events' \in Seq(Event) /\ Len(events') = Len(events)
      /\ events'[i] = b
      /\ \A j \in 1..Len(events) : j # i => events'[j] = events[j]
  BY <1>1, <1>5, <1>6
<1> QED
  BY <1>1, <1>3, <1>4, <1>5, <1>7

-----------------------------------------------------------------------------
(* Type correctness and conserved evidence *)

\* Every state of the service has the types its columns and workers should have.
THEOREM TypeCorrect == Spec => []TypeOK
<1>1. Init => TypeOK
  BY PricingAssumption DEF Init, TypeOK, RequestOK, Arm
<1>2. TypeOK /\ [Next]_vars => TypeOK'
  <2> SUFFICES ASSUME TypeOK, [Next]_vars PROVE TypeOK'
    OBVIOUS
  <2>1. ASSUME NEW u \in Users, GetPrice(u) PROVE TypeOK'
    <3>1. PICK e \in Event : events' = Append(events, e)
      BY <2>1, Offered
    <3>2. /\ events \in Seq(Event)
          /\ events' \in Seq(Event) /\ Len(events') = Len(events) + 1
      BY <3>1 DEF TypeOK
    <3>3. basePrice' = basePrice /\ arms' = arms /\ pc' = pc /\ req' = req
      BY <2>1 DEF GetPrice, SelectPrice
    <3>4. \A w \in Workers : RequestOK(w)'
      BY <3>2, <3>3 DEF TypeOK, RequestOK
    <3> QED
      BY <3>2, <3>3, <3>4 DEF TypeOK
  <2>2. ASSUME NEW b \in BasePrices, SetBasePrice(b) PROVE TypeOK'
    BY <2>2 DEF TypeOK, SetBasePrice, RequestOK
  <2>3. ASSUME NEW w \in Workers, NEW e \in 1..Len(events), NEW u \in Users,
               NEW p, NEW booked \in BOOLEAN, Validate(w, e, u, p, booked)
        PROVE  TypeOK'
    <3> DEFINE o == [event |-> e, booked |-> booked]
    <3>1. o \in Outcome /\ o.event = e
      BY DEF Outcome, TypeOK
    <3>2. /\ pc' = [pc EXCEPT ![w] = "record"] /\ req' = [req EXCEPT ![w] = o]
          /\ basePrice' = basePrice /\ events' = events /\ arms' = arms
      BY <2>3 DEF Validate
    <3> HIDE DEF o
    <3> QED
      BY <3>1, <3>2 DEF TypeOK, RequestOK
  <2>4. ASSUME NEW w \in Workers, RecordBooking(w) PROVE TypeOK'
    <3> DEFINE i == req[w].event
               m == events[i].arm
    <3>1. /\ i \in 1..Len(events) /\ events \in Seq(Event)
          /\ Reward(events[i].price) \in Int
          /\ events' \in Seq(Event) /\ Len(events') = Len(events)
          /\ arms' = Credit(m, Reward(events[i].price), events[i].price)
      BY <2>4, Recorded DEF TypeOK
    <3>2. m \in Multipliers /\ events[i].price \in Nat
      <4>1. events[i] \in Event
        BY <3>1
      <4> QED
        BY <4>1 DEF Event
    <3>3. arms' \in [Multipliers -> Arm]
      <4> DEFINE r == Reward(events[i].price)
                 c == events[i].price
                 new == [alpha |-> arms[m].alpha + r,
                         beta |-> arms[m].beta + (Scale - r),
                         pulls |-> arms[m].pulls + 1,
                         revenue |-> arms[m].revenue + c]
      <4>1. arms[m] \in Arm /\ r \in Int /\ c \in Nat
        BY <3>1, <3>2 DEF TypeOK
      <4>2. arms' = [arms EXCEPT ![m] = new]
        BY <3>1 DEF Credit
      <4> HIDE DEF m, r, c
      <4>3. new \in Arm
        BY <4>1, PricingAssumption DEF Arm
      <4> QED
        BY <3>2, <4>2, <4>3 DEF TypeOK
    <3>4. /\ basePrice' = basePrice
          /\ pc' = [pc EXCEPT ![w] = "idle"] /\ req' = [req EXCEPT ![w] = NoOutcome]
      BY <2>4 DEF RecordBooking, Reply
    <3>5. \A v \in Workers : RequestOK(v)'
      BY <3>1, <3>4 DEF TypeOK, RequestOK
    <3> QED
      BY <3>1, <3>3, <3>4, <3>5 DEF TypeOK
  <2>5. ASSUME NEW w \in Workers, RecordNoBooking(w) PROVE TypeOK'
    <3> DEFINE m == events[req[w].event].arm
    <3>1. m \in Multipliers
      <4>1. events[req[w].event] \in Event
        BY <2>5 DEF TypeOK, RequestOK, RecordNoBooking
      <4> QED
        BY <4>1 DEF Event
    <3>2. arms' = [arms EXCEPT ![m] = [alpha |-> arms[m].alpha,
                                       beta |-> arms[m].beta + Scale,
                                       pulls |-> arms[m].pulls + 1,
                                       revenue |-> arms[m].revenue]]
      BY <2>5 DEF RecordNoBooking
    <3> HIDE DEF m
    <3>3. arms' \in [Multipliers -> Arm]
      <4>1. arms[m] \in Arm
        BY <3>1 DEF TypeOK
      <4> QED
        BY <3>1, <3>2, <4>1, PricingAssumption DEF TypeOK, Arm
    <3> QED
      BY <2>5, <3>3 DEF TypeOK, RequestOK, RecordNoBooking, Reply
  <2>6. ASSUME NEW w \in Workers, RecordAbort(w) PROVE TypeOK'
    BY <2>6 DEF TypeOK, RequestOK, RecordAbort, Reply
  <2>7. CASE UNCHANGED vars
    BY <2>7 DEF TypeOK, RequestOK, vars
  <2> QED
    BY <2>1, <2>2, <2>3, <2>4, <2>5, <2>6, <2>7 DEF Next
<1> QED
  BY <1>1, <1>2, PTL DEF Spec

\* The arithmetic of one outcome.
LEMMA OneMoreUnit ==
  ASSUME NEW a \in Int, NEW b \in Int, NEW s \in Int, NEW x \in Int,
         NEW da \in Int, NEW db \in Int, a + b = 2 * s + x, da + db = s
  PROVE  (a + da) + (b + db) = 2 * s + (x + s)
OBVIOUS

\* Every recorded outcome adds exactly one unit to its arm's alpha + beta,
\* whatever its reward and however outcomes and price changes interleave.
THEOREM EvidenceIsConserved == Spec => []EvidenceConserved
<1>1. Init => EvidenceConserved
  BY PricingAssumption DEF Init, EvidenceConserved
<1>2. TypeOK /\ EvidenceConserved /\ [Next]_vars => EvidenceConserved'
  <2> SUFFICES ASSUME TypeOK, EvidenceConserved, [Next]_vars, NEW n \in Multipliers
               PROVE  arms'[n].alpha + arms'[n].beta = 2 * Scale + Scale * arms'[n].pulls
    BY DEF EvidenceConserved
  <2>0. /\ arms[n].alpha \in Int /\ arms[n].beta \in Int /\ arms[n].pulls \in Nat
        /\ arms[n].alpha + arms[n].beta = 2 * Scale + Scale * arms[n].pulls
        /\ Scale \in Nat
    <3>1. arms[n] \in Arm
      BY DEF TypeOK
    <3> QED
      BY <3>1, PricingAssumption DEF Arm, EvidenceConserved
  <2>1. ASSUME NEW da \in Int, NEW db \in Int, da + db = Scale,
               arms'[n].alpha = arms[n].alpha + da,
               arms'[n].beta = arms[n].beta + db,
               arms'[n].pulls = arms[n].pulls + 1
        PROVE  arms'[n].alpha + arms'[n].beta = 2 * Scale + Scale * arms'[n].pulls
    <3> DEFINE a == arms[n].alpha
               b == arms[n].beta
               x == Scale * arms[n].pulls
    <3>1. Scale * arms'[n].pulls = x + Scale
      BY <2>0, <2>1
    <3>2. x \in Int
      BY <2>0
    <3>3. a \in Int /\ b \in Int /\ Scale \in Int /\ a + b = 2 * Scale + x
      BY <2>0
    <3>4. arms'[n].alpha + arms'[n].beta = (a + da) + (b + db)
      BY <2>1
    <3> HIDE DEF a, b, x
    <3>5. (a + da) + (b + db) = 2 * Scale + (x + Scale)
      <4>1. da \in Int /\ db \in Int /\ da + db = Scale
        BY <2>1
      <4> QED
        BY <3>2, <3>3, <4>1, OneMoreUnit
    <3> QED
      BY <3>1, <3>4, <3>5
  <2>2. ASSUME NEW w \in Workers, RecordBooking(w)
        PROVE  arms'[n].alpha + arms'[n].beta = 2 * Scale + Scale * arms'[n].pulls
    <3> DEFINE i == req[w].event
               m == events[i].arm
               r == Reward(events[i].price)
    <3>1. r \in Int /\ arms' = Credit(m, r, events[i].price)
      BY <2>2, Recorded
    <3> HIDE DEF m, r
    <3>2. CASE n = m
      <4>1. /\ arms'[n].alpha = arms[n].alpha + r
            /\ arms'[n].beta = arms[n].beta + (Scale - r)
            /\ arms'[n].pulls = arms[n].pulls + 1
        BY <3>1, <3>2 DEF Credit, TypeOK
      <4>2. r \in Int /\ Scale - r \in Int /\ r + (Scale - r) = Scale
        BY <2>0, <3>1
      <4> QED
        BY <2>1, <4>1, <4>2
    <3>3. CASE n # m
      <4>1. arms'[n] = arms[n]
        BY <3>1, <3>3 DEF Credit, TypeOK
      <4> QED
        BY <2>0, <4>1
    <3> QED
      BY <3>2, <3>3
  <2>3. ASSUME NEW w \in Workers, RecordNoBooking(w)
        PROVE  arms'[n].alpha + arms'[n].beta = 2 * Scale + Scale * arms'[n].pulls
    <3> DEFINE m == events[req[w].event].arm
    <3>1. arms' = [arms EXCEPT ![m] = [alpha |-> arms[m].alpha,
                                       beta |-> arms[m].beta + Scale,
                                       pulls |-> arms[m].pulls + 1,
                                       revenue |-> arms[m].revenue]]
      BY <2>3 DEF RecordNoBooking
    <3> HIDE DEF m
    <3>2. CASE n = m
      <4>1. /\ arms'[n].alpha = arms[n].alpha
            /\ arms'[n].beta = arms[n].beta + Scale
            /\ arms'[n].pulls = arms[n].pulls + 1
        BY <3>1, <3>2 DEF TypeOK
      <4>2. arms[n].alpha = arms[n].alpha + 0
        BY <2>0
      <4> QED
        BY <2>0, <2>1, <4>1, <4>2
    <3>3. CASE n # m
      <4>1. arms'[n] = arms[n]
        BY <3>1, <3>3 DEF TypeOK
      <4> QED
        BY <2>0, <4>1
    <3> QED
      BY <3>2, <3>3
  <2>4. ASSUME arms' = arms
        PROVE  arms'[n].alpha + arms'[n].beta = 2 * Scale + Scale * arms'[n].pulls
    BY <2>0, <2>4
  <2> QED
    BY <2>2, <2>3, <2>4 DEF Next, GetPrice, SelectPrice, SetBasePrice, Validate, RecordAbort, vars
<1> QED
  BY <1>1, <1>2, TypeCorrect, PTL DEF Spec

-----------------------------------------------------------------------------
(* Credits *)

\* The workers about to record a booking are finitely many.
LEMMA BookingFinite ==
  ASSUME NEW i
  PROVE  /\ IsFiniteSet(Booking(i)) /\ Cardinality(Booking(i)) \in Nat
         /\ Cardinality(Booking(i)) <= Cardinality(Workers)
         /\ Cardinality(Workers) \in Nat
<1>1. Booking(i) \in SUBSET Workers
  BY DEF Booking
<1> QED
  BY <1>1, PricingAssumption, FS_Subset, FS_CardinalityType

\* No step breaks CreditMargin.
LEMMA CreditStep ==
  ASSUME TypeOK, TypeOK', CreditMargin, [Next]_vars
  PROVE  CreditMargin'
<1>0. /\ events \in Seq(Event) /\ Len(events) \in Nat
      /\ \A i \in 1..Len(events) : events[i].credits \in Nat /\ events[i].booked \in BOOLEAN
  <2>1. events \in Seq(Event)
    BY DEF TypeOK
  <2>2. \A i \in 1..Len(events) : events[i] \in Event
    BY <2>1
  <2> QED
    BY <2>1, <2>2 DEF Event
<1>1. ASSUME NEW u \in Users, GetPrice(u) PROVE CreditMargin'
  <2>1. PICK e \in Event : /\ ~e.booked /\ e.credits = 0
                           /\ events' = Append(events, e)
    BY <1>1, Offered
  <2>2. /\ Len(events') = Len(events) + 1 /\ events'[Len(events) + 1] = e
        /\ \A i \in 1..Len(events) : events'[i] = events[i]
    BY <1>0, <2>1
  <2>3. \A i : Booking(i)' = Booking(i)
    BY <1>1 DEF GetPrice, SelectPrice, Booking
  <2>4. \A i \in 1..Len(events') : i \in 1..Len(events) \/ i = Len(events) + 1
    BY <1>0, <2>2
  <2> SUFFICES ASSUME NEW i \in 1..Len(events')
               PROVE  /\ events'[i].credits + Cardinality(Booking(i)') <= Cardinality(Workers)
                      /\ events'[i].booked <=> events'[i].credits > 0
    BY DEF CreditMargin
  <2>5. CASE i \in 1..Len(events)
    BY <2>2, <2>3, <2>5 DEF CreditMargin
  <2>6. CASE i = Len(events) + 1
    <3>1. events'[i].credits = 0 /\ ~events'[i].booked
      BY <2>1, <2>2, <2>6
    <3>2. Cardinality(Booking(i)') \in Nat /\ Cardinality(Booking(i)') <= Cardinality(Workers)
      BY <2>3, BookingFinite
    <3> QED
      BY <3>1, <3>2
  <2> QED
    BY <2>4, <2>5, <2>6
<1>2. ASSUME NEW w \in Workers, NEW e \in 1..Len(events), NEW u \in Users,
             NEW p, NEW booked \in BOOLEAN, Validate(w, e, u, p, booked)
      PROVE  CreditMargin'
  <2>1. /\ ~events[e].booked /\ events' = events
        /\ pc' = [pc EXCEPT ![w] = "record"]
        /\ req' = [req EXCEPT ![w] = [event |-> e, booked |-> booked]]
    BY <1>2 DEF Validate, Acceptable
  <2> SUFFICES ASSUME NEW i \in 1..Len(events)
               PROVE  /\ events[i].credits + Cardinality(Booking(i)') <= Cardinality(Workers)
                      /\ events[i].booked <=> events[i].credits > 0
    BY <2>1 DEF CreditMargin
  <2>2. CASE i = e
    <3>1. events[i].credits = 0
      BY <1>0, <2>1, <2>2 DEF CreditMargin
    <3>2. Booking(i)' \in SUBSET Workers
      BY DEF Booking
    <3>3. Cardinality(Booking(i)') \in Nat /\ Cardinality(Booking(i)') <= Cardinality(Workers)
      BY <3>2, PricingAssumption, FS_Subset, FS_CardinalityType
    <3> QED
      BY <2>1, <2>2, <3>1, <3>3
  <2>3. CASE i # e
    <3>1. Booking(i)' \in SUBSET Booking(i)
      BY <2>1, <2>3 DEF Booking, TypeOK
    <3>2. Cardinality(Booking(i)') \in Nat /\ Cardinality(Booking(i)') <= Cardinality(Booking(i))
      BY <3>1, BookingFinite, FS_Subset, FS_CardinalityType
    <3> QED
      BY <1>0, <3>2, BookingFinite DEF CreditMargin
  <2> QED
    BY <2>2, <2>3
<1>3. ASSUME NEW w \in Workers, RecordBooking(w) PROVE CreditMargin'
  <2> DEFINE k == req[w].event
  <2>0. k = req[w].event
    OBVIOUS
  <2> HIDE DEF k
  <2>1. /\ k \in 1..Len(events) /\ Len(events') = Len(events)
        /\ events'[k].booked /\ events'[k].credits = events[k].credits + 1
        /\ \A j \in 1..Len(events) : j # k => events'[j] = events[j]
    BY <1>3, <2>0, Recorded
  <2>2. /\ w \in Booking(k)
        /\ \A i : Booking(i)' \subseteq Booking(i) \ {w}
    BY <1>3, <2>0 DEF RecordBooking, Reply, Booking, TypeOK
  <2> SUFFICES ASSUME NEW i \in 1..Len(events)
               PROVE  /\ events'[i].credits + Cardinality(Booking(i)') <= Cardinality(Workers)
                      /\ events'[i].booked <=> events'[i].credits > 0
    BY <2>1 DEF CreditMargin
  <2>3. CASE i = k
    <3> DEFINE B == Booking(i)
    <3>1. /\ IsFiniteSet(B) /\ Cardinality(B) \in Nat /\ w \in B
          /\ events[i].credits \in Nat
          /\ events[i].credits + Cardinality(B) <= Cardinality(Workers)
          /\ Cardinality(Workers) \in Nat
      BY <1>0, <2>2, <2>3, BookingFinite DEF CreditMargin
    <3>2. Booking(i)' \in SUBSET (B \ {w})
      BY <2>2
    <3> HIDE DEF B
    <3>3. IsFiniteSet(B \ {w}) /\ Cardinality(B \ {w}) = Cardinality(B) - 1
      BY <3>1, FS_RemoveElement
    <3>4. Cardinality(Booking(i)') \in Nat /\ Cardinality(Booking(i)') <= Cardinality(B) - 1
      BY <3>2, <3>3, FS_Subset, FS_CardinalityType
    <3> QED
      BY <2>1, <2>3, <3>1, <3>4
  <2>4. CASE i # k
    <3>1. Booking(i)' \in SUBSET Booking(i)
      BY <2>2
    <3>2. Cardinality(Booking(i)') \in Nat /\ Cardinality(Booking(i)') <= Cardinality(Booking(i))
      BY <3>1, BookingFinite, FS_Subset, FS_CardinalityType
    <3> QED
      BY <1>0, <2>1, <2>4, <3>2, BookingFinite DEF CreditMargin
  <2> QED
    BY <2>3, <2>4
<1>4. ASSUME events' = events, \A i : Booking(i)' \subseteq Booking(i)
      PROVE  CreditMargin'
  <2> SUFFICES ASSUME NEW i \in 1..Len(events)
               PROVE  /\ events[i].credits + Cardinality(Booking(i)') <= Cardinality(Workers)
                      /\ events[i].booked <=> events[i].credits > 0
    BY <1>4 DEF CreditMargin
  <2>1. Booking(i)' \in SUBSET Booking(i)
    BY <1>4
  <2>2. Cardinality(Booking(i)') \in Nat /\ Cardinality(Booking(i)') <= Cardinality(Booking(i))
    BY <2>1, BookingFinite, FS_Subset, FS_CardinalityType
  <2> QED
    BY <1>0, <2>2, BookingFinite DEF CreditMargin
<1>5. ASSUME NEW w \in Workers, RecordNoBooking(w) \/ RecordAbort(w) PROVE CreditMargin'
  <2>1. events' = events /\ \A i : Booking(i)' \subseteq Booking(i)
    BY <1>5 DEF RecordNoBooking, RecordAbort, Reply, Booking, TypeOK
  <2> QED
    BY <1>4, <2>1
<1>6. ASSUME \/ \E b \in BasePrices : SetBasePrice(b)
             \/ UNCHANGED vars
      PROVE  CreditMargin'
  <2>1. events' = events /\ \A i : Booking(i)' \subseteq Booking(i)
    BY <1>6 DEF SetBasePrice, vars, Booking
  <2> QED
    BY <1>4, <2>1
<1> QED
  BY <1>1, <1>2, <1>3, <1>5, <1>6 DEF Next

\* CreditMargin is an invariant.
THEOREM CreditsHaveMargin == Spec => [](TypeOK /\ CreditMargin)
<1>1. Init => CreditMargin
  BY DEF Init, CreditMargin
<1> QED
  BY <1>1, CreditStep, TypeCorrect, PTL DEF Spec

\* However many workers race on one event, its booking is credited at most once
\* per worker.
THEOREM CreditsAreBounded == Spec => []CreditsBounded
<1>1. TypeOK /\ CreditMargin => CreditsBounded
  <2> SUFFICES ASSUME TypeOK, CreditMargin, NEW i \in 1..Len(events)
               PROVE  events[i].credits <= Cardinality(Workers)
    BY DEF CreditsBounded
  <2>1. events[i].credits \in Nat
    <3>1. events[i] \in Event
      BY DEF TypeOK
    <3> QED
      BY <3>1 DEF Event
  <2> QED
    BY <2>1, BookingFinite DEF CreditMargin
<1> QED
  BY <1>1, CreditsHaveMargin, PTL

\* A booked offer stays booked and is never rewritten, whatever declines were
\* validated before it was booked.
THEOREM BookingsStick == Spec => BookedSticks
<1>1. ASSUME TypeOK, [Next]_vars
      PROVE  [\A i \in 1..Len(events) :
                /\ events[i].booked => events'[i].booked
                /\ events'[i].price = events[i].price
                /\ events'[i].user = events[i].user]_vars
  <2> SUFFICES ASSUME NEW i \in 1..Len(events)
               PROVE  /\ events[i].booked => events'[i].booked
                      /\ events'[i].price = events[i].price
                      /\ events'[i].user = events[i].user
    OBVIOUS
  <2>1. ASSUME NEW u \in Users, GetPrice(u) PROVE events'[i] = events[i]
    <3>1. PICK e \in Event : events' = Append(events, e)
      BY <1>1, <2>1, Offered
    <3>2. events \in Seq(Event)
      BY <1>1 DEF TypeOK
    <3> QED
      BY <3>1, <3>2
  <2>2. ASSUME NEW w \in Workers, RecordBooking(w)
        PROVE  /\ events[i].booked => events'[i].booked
               /\ events'[i].price = events[i].price
               /\ events'[i].user = events[i].user
    <3> DEFINE k == req[w].event
    <3>0. k = req[w].event
      OBVIOUS
    <3> HIDE DEF k
    <3>1. /\ events'[k].booked /\ events'[k].price = events[k].price
          /\ events'[k].user = events[k].user
          /\ \A j \in 1..Len(events) : j # k => events'[j] = events[j]
      BY <1>1, <2>2, <3>0, Recorded
    <3> QED
      BY <3>1
  <2>3. ASSUME events' = events
        PROVE  /\ events[i].booked => events'[i].booked
               /\ events'[i].price = events[i].price
               /\ events'[i].user = events[i].user
    BY <2>3
  <2> QED
    BY <1>1, <2>1, <2>2, <2>3
       DEF Next, SetBasePrice, Validate, RecordNoBooking, RecordAbort, vars
<1> QED
  BY <1>1, TypeCorrect, PTL DEF Spec, BookedSticks

-----------------------------------------------------------------------------
(* A base price that never changes *)

\* An offer that does not exceed the ceiling has a reward in [0, 1].
LEMMA RewardBound ==
  ASSUME NEW price \in Nat, basePrice \in Nat, basePrice # 0,
         100 * price <= basePrice * MaxMultiplier
  PROVE  Reward(price) \in 0..Scale
<1> DEFINE y == basePrice * MaxMultiplier
           c == 100 * price
           x == Scale * price * 100
<1>1. /\ Scale \in Nat /\ basePrice > 0
      /\ MaxMultiplier \in Nat /\ MaxMultiplier > 0
  BY PricingAssumption
<1>2. y \in Nat /\ y > 0 /\ c \in Nat /\ x \in Nat /\ x = Scale * c
  BY <1>1
<1>3. c <= y
  OBVIOUS
<1> HIDE DEF x, y, c
<1>4. Scale * c <= Scale * y
  BY <1>1, <1>2, <1>3
<1>5. x \div y \in 0..Scale
  <2> DEFINE q == x \div y
  <2>1. q \in Int /\ y * q <= x /\ x < y * q + y
    BY <1>2
  <2> HIDE DEF q
  <2>2. q >= 0
    <3>1. ASSUME q <= -1 PROVE FALSE
      <4>1. y * q <= y * (-1)
        BY <1>2, <2>1, <3>1
      <4> QED
        BY <1>2, <2>1, <4>1
    <3> QED
      BY <2>1, <3>1
  <2>3. q <= Scale
    <3>1. ASSUME q >= Scale + 1 PROVE FALSE
      <4>1. y * q >= y * (Scale + 1)
        BY <1>1, <1>2, <2>1, <3>1
      <4>2. y * (Scale + 1) = Scale * y + y
        BY <1>1, <1>2
      <4>3. Scale * y \in Nat /\ y * q \in Int
        BY <1>1, <1>2, <2>1
      <4> QED
        BY <1>2, <1>4, <2>1, <4>1, <4>2, <4>3
    <3> QED
      BY <1>1, <2>1, <3>1
  <2> QED
    BY <1>1, <2>1, <2>2, <2>3 DEF q
<1> QED
  BY <1>5 DEF Reward, x, y

\* No offer exceeds the ceiling, every reward is in [0, 1], and no parameter
\* falls below its initial value.
FixedInv ==
  /\ \A i \in 1..Len(events) :
       /\ 100 * events[i].price <= basePrice * MaxMultiplier
       /\ events[i].reward \in 0..Scale
  /\ \A m \in Multipliers : arms[m].alpha >= Scale /\ arms[m].beta >= Scale

\* While the base price is never changed and no offer is rounded above the
\* ceiling, every reward is in [0, 1] and every arm can always be sampled.
THEOREM FixedBaseIsSound ==
  ASSUME NEW b \in Nat \ {0}, BasePrices = {b},
         \A m \in Multipliers : \A p \in Rounded(b, m) :
           100 * p <= b * MaxMultiplier
  PROVE  Spec => [](RewardInUnitInterval /\ ArmsSamplable)
<1>1. Init => FixedInv
  BY PricingAssumption DEF Init, FixedInv
<1>2. ASSUME TypeOK, TypeOK', FixedInv, [Next]_vars PROVE FixedInv'
  <2>0. /\ basePrice = b /\ basePrice' = b /\ events \in Seq(Event)
        /\ Len(events) \in Nat /\ Scale \in Nat
    BY <1>2, PricingAssumption DEF TypeOK
  <2>1. ASSUME NEW u \in Users, GetPrice(u) PROVE FixedInv'
    <3>1. PICK e \in Event : /\ e.reward = 0 /\ e.price \in Rounded(basePrice, e.arm)
                             /\ events' = Append(events, e)
      BY <1>2, <2>1, Offered
    <3>2. 100 * e.price <= b * MaxMultiplier
      BY <2>0, <3>1 DEF Event
    <3>3. /\ Len(events') = Len(events) + 1 /\ events'[Len(events) + 1] = e
          /\ \A i \in 1..Len(events) : events'[i] = events[i]
          /\ \A i \in 1..Len(events') : i \in 1..Len(events) \/ i = Len(events) + 1
      BY <2>0, <3>1
    <3>4. arms' = arms
      BY <2>1 DEF GetPrice, SelectPrice
    <3> QED
      BY <1>2, <2>0, <3>1, <3>2, <3>3, <3>4 DEF FixedInv
  <2>2. ASSUME NEW w \in Workers, RecordBooking(w) PROVE FixedInv'
    <3> DEFINE k == req[w].event
               m == events[k].arm
               r == Reward(events[k].price)
    <3>0. k = req[w].event
      OBVIOUS
    <3> HIDE DEF k
    <3>1. /\ k \in 1..Len(events) /\ Len(events') = Len(events)
          /\ events'[k].price = events[k].price /\ events'[k].reward = r
          /\ \A j \in 1..Len(events) : j # k => events'[j] = events[j]
          /\ arms' = Credit(m, r, events[k].price)
      BY <1>2, <2>2, <3>0, Recorded
    <3>2. events[k].price \in Nat
      <4>1. events[k] \in Event
        BY <2>0, <3>1
      <4> QED
        BY <4>1 DEF Event
    <3>3. r \in 0..Scale
      BY <1>2, <2>0, <3>1, <3>2, RewardBound DEF FixedInv
    <3> HIDE DEF m, r
    <3>4. \A n \in Multipliers : arms'[n].alpha >= Scale /\ arms'[n].beta >= Scale
      <4> SUFFICES ASSUME NEW n \in Multipliers
                   PROVE  arms'[n].alpha >= Scale /\ arms'[n].beta >= Scale
        OBVIOUS
      <4>1. /\ arms[n].alpha \in Int /\ arms[n].beta \in Int
            /\ arms[n].alpha >= Scale /\ arms[n].beta >= Scale
        <5>1. arms[n] \in Arm
          BY <1>2 DEF TypeOK
        <5> QED
          BY <1>2, <5>1 DEF Arm, FixedInv
      <4>2. CASE n = m
        <5>1. /\ arms'[n].alpha = arms[n].alpha + r
              /\ arms'[n].beta = arms[n].beta + (Scale - r)
          BY <1>2, <3>1, <4>2 DEF Credit, TypeOK
        <5> QED
          BY <2>0, <3>3, <4>1, <5>1
      <4>3. CASE n # m
        <5>1. arms'[n] = arms[n]
          BY <1>2, <3>1, <4>3 DEF Credit, TypeOK
        <5> QED
          BY <4>1, <5>1
      <4> QED
        BY <4>2, <4>3
    <3> QED
      BY <1>2, <2>0, <3>1, <3>3, <3>4 DEF FixedInv
  <2>3. ASSUME NEW w \in Workers, RecordNoBooking(w) PROVE FixedInv'
    <3> DEFINE m == events[req[w].event].arm
    <3>1. /\ arms' = [arms EXCEPT ![m] = [alpha |-> arms[m].alpha,
                                          beta |-> arms[m].beta + Scale,
                                          pulls |-> arms[m].pulls + 1,
                                          revenue |-> arms[m].revenue]]
          /\ events' = events
      BY <2>3 DEF RecordNoBooking
    <3> HIDE DEF m
    <3>2. \A n \in Multipliers : arms'[n].alpha >= Scale /\ arms'[n].beta >= Scale
      <4> SUFFICES ASSUME NEW n \in Multipliers
                   PROVE  arms'[n].alpha >= Scale /\ arms'[n].beta >= Scale
        OBVIOUS
      <4>1. /\ arms[n].alpha \in Int /\ arms[n].beta \in Int
            /\ arms[n].alpha >= Scale /\ arms[n].beta >= Scale
        <5>1. arms[n] \in Arm
          BY <1>2 DEF TypeOK
        <5> QED
          BY <1>2, <5>1 DEF Arm, FixedInv
      <4>2. CASE n = m
        <5>1. /\ arms'[n].alpha = arms[n].alpha
              /\ arms'[n].beta = arms[n].beta + Scale
          BY <1>2, <3>1, <4>2 DEF TypeOK
        <5> QED
          BY <2>0, <4>1, <5>1
      <4>3. CASE n # m
        <5>1. arms'[n] = arms[n]
          BY <1>2, <3>1, <4>3 DEF TypeOK
        <5> QED
          BY <4>1, <5>1
      <4> QED
        BY <4>2, <4>3
    <3> QED
      BY <1>2, <2>0, <3>1, <3>2 DEF FixedInv
  <2>4. ASSUME events' = events, arms' = arms PROVE FixedInv'
    BY <1>2, <2>0, <2>4 DEF FixedInv
  <2> QED
    BY <1>2, <2>1, <2>2, <2>3, <2>4
       DEF Next, SetBasePrice, Validate, RecordAbort, vars
<1>3. TypeOK /\ FixedInv => RewardInUnitInterval /\ ArmsSamplable
  <2> SUFFICES ASSUME TypeOK, FixedInv PROVE ArmsSamplable
    BY DEF FixedInv, RewardInUnitInterval
  <2> SUFFICES ASSUME NEW m \in Multipliers
               PROVE  arms[m].alpha > 0 /\ arms[m].beta > 0
    BY DEF ArmsSamplable, Samplable
  <2>1. arms[m] \in Arm
    BY DEF TypeOK
  <2> QED
    BY <2>1, PricingAssumption DEF FixedInv, Arm
<1> QED
  BY <1>1, <1>2, <1>3, TypeCorrect, PTL DEF Spec

\* Under the same conditions no Beta distribution is ever asked for a sample
\* with a parameter of 0 or less: a search never fails for it.
THEOREM FixedBaseSamples ==
  ASSUME NEW b \in Nat \ {0}, BasePrices = {b},
         \A m \in Multipliers : \A p \in Rounded(b, m) :
           100 * p <= b * MaxMultiplier
  PROVE  Spec => []ArmsSamplable
BY FixedBaseIsSound, PTL
=============================================================================
