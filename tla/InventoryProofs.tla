-------------------------- MODULE InventoryProofs --------------------------
(***************************************************************************)
(* Theorems about Inventory, for every set of users, spots, windows and    *)
(* workers and every number of requests.                                   *)
(***************************************************************************)
EXTENDS Inventory, FiniteSetTheorems, TLAPS

-----------------------------------------------------------------------------
(* Rows *)

\* What Append does to a sequence of rows.
LEMMA AppendRow ==
  ASSUME NEW rows \in Seq(Reservation), NEW r \in Reservation
  PROVE  /\ Append(rows, r) \in Seq(Reservation)
         /\ Len(Append(rows, r)) = Len(rows) + 1
         /\ Append(rows, r)[Len(rows) + 1] = r
         /\ \A i \in 1..Len(rows) : Append(rows, r)[i] = rows[i]
  OBVIOUS

\* Cancelling a row changes that row's status and nothing else.
LEMMA CancelRow ==
  ASSUME NEW rows \in Seq(Reservation), NEW i \in 1..Len(rows),
         NEW new, new = [rows EXCEPT ![i].status = "cancelled"]
  PROVE  /\ new \in Seq(Reservation)
         /\ Len(new) = Len(rows)
         /\ new[i] = [spot |-> rows[i].spot, user |-> rows[i].user,
                      window |-> rows[i].window, status |-> "cancelled"]
         /\ \A j \in 1..Len(rows) : j # i => new[j] = rows[j]
<1> DEFINE r == [rows[i] EXCEPT !.status = "cancelled"]
<1>1. rows[i] \in Reservation
  OBVIOUS
<1>2. /\ r \in Reservation
      /\ r = [spot |-> rows[i].spot, user |-> rows[i].user,
              window |-> rows[i].window, status |-> "cancelled"]
  BY <1>1 DEF Reservation, ReservationStatus
<1>3. new = [rows EXCEPT ![i] = r]
  OBVIOUS
<1> HIDE DEF r
<1> QED
  BY <1>2, <1>3

-----------------------------------------------------------------------------
(* Type correctness *)

\* No step breaks the types.
LEMMA TypeStep ==
  ASSUME TypeOK, [Next]_vars
  PROVE  TypeOK'
<1> USE DEF ReservePC, ReserveRequest, CancelRequest, NoRequest, RequestOK,
            Reservation, ReservationStatus, SpotStatus
<1>1. ASSUME NEW w \in Workers, NEW u \in Users, NEW win \in Windows,
             ReserveSpot(w, u, win)
      PROVE  TypeOK'
  <2>1. ASSUME NEW s \in Spots,
               pc' = [pc EXCEPT ![w] = "pricing"],
               req' = [req EXCEPT ![w] = [user |-> u, window |-> win,
                                          spot |-> s, fresh |-> FALSE]]
        PROVE  /\ pc' \in [Workers -> {"idle", "cancel"} \cup ReservePC]
               /\ req' \in [Workers -> {NoRequest} \cup ReserveRequest \cup CancelRequest]
               /\ \A v \in Workers : RequestOK(v)'
    <3> DEFINE r == [user |-> u, window |-> win, spot |-> s, fresh |-> FALSE]
    <3>1. r \in ReserveRequest
      OBVIOUS
    <3>2. req' = [req EXCEPT ![w] = r]
      BY <2>1
    <3> HIDE DEF r
    <3> QED
      BY <1>1, <2>1, <3>1, <3>2 DEF TypeOK, ReserveSpot
  <2> QED
    BY <1>1, <2>1, MaxRequestsAssumption DEF TypeOK, ReserveSpot, Receive
<1>2. ASSUME NEW w \in Workers, NEW u \in Users,
             NEW i \in 1..Len(reservations) + 1, CancelReservation(w, u, i)
      PROVE  TypeOK'
  BY <1>2, MaxRequestsAssumption DEF TypeOK, CancelReservation, Receive
<1>3. ASSUME NEW w \in Workers, PricingOutcome(w) PROVE TypeOK'
  BY <1>3 DEF TypeOK, PricingOutcome, Advance, Reply
<1>4. ASSUME NEW w \in Workers, CheckSpot(w) PROVE TypeOK'
  BY <1>4 DEF TypeOK, CheckSpot, Advance, Reply
<1>5. ASSUME NEW w \in Workers, FindUser(w) PROVE TypeOK'
  BY <1>5 DEF TypeOK, FindUser, UserMissing
<1>6. ASSUME NEW w \in Workers, CheckOverlap(w) PROVE TypeOK'
  BY <1>6 DEF TypeOK, CheckOverlap, Advance, Reply
<1>7. ASSUME NEW w \in Workers, CommitReservation(w) PROVE TypeOK'
  <2> DEFINE r == [spot |-> req[w].spot, user |-> req[w].user,
                   window |-> req[w].window, status |-> "confirmed"]
  <2>1. CASE KeyFree(reservations, req[w].spot, req[w].window)
    <3>1. req[w] \in ReserveRequest /\ reservations \in Seq(Reservation)
      BY <1>7 DEF TypeOK, CommitReservation
    <3>2. r \in Reservation
      BY <3>1
    <3>3. reservations' = Append(reservations, r)
      BY <1>7, <2>1 DEF CommitReservation
    <3> HIDE DEF r
    <3>4. /\ reservations' \in Seq(Reservation)
          /\ Len(reservations') = Len(reservations) + 1
      BY <3>1, <3>2, <3>3, AppendRow
    <3>5. status' \in [Spots -> SpotStatus] /\ users' \subseteq Users
      BY <1>7, <2>1, <3>1 DEF TypeOK, CommitReservation
    <3>6. \A v \in Workers : RequestOK(v)'
      BY <1>7, <2>1, <3>1, <3>4 DEF TypeOK, CommitReservation, Advance
    <3> QED
      BY <1>7, <2>1, <3>4, <3>5, <3>6 DEF TypeOK, CommitReservation, Advance
  <2>2. CASE ~KeyFree(reservations, req[w].spot, req[w].window)
    BY <1>7, <2>2 DEF TypeOK, CommitReservation, Reply
  <2> QED
    BY <2>1, <2>2
<1>8. ASSUME NEW w \in Workers, Refresh(w) PROVE TypeOK'
  BY <1>8 DEF TypeOK, Refresh, Reply
<1>9. ASSUME NEW w \in Workers, CommitCancel(w) PROVE TypeOK'
  <2>1. /\ reservations \in Seq(Reservation)
        /\ req[w].target \in 1..Len(reservations)
    BY <1>9 DEF TypeOK, CommitCancel
  <2>2. /\ reservations' \in Seq(Reservation)
        /\ Len(reservations') = Len(reservations)
    <3> DEFINE i == req[w].target
    <3>1. i \in 1..Len(reservations)
      BY <2>1
    <3>2. reservations' = [reservations EXCEPT ![i].status = "cancelled"]
      BY <1>9 DEF CommitCancel
    <3> HIDE DEF i
    <3> QED
      BY <2>1, <3>1, <3>2, CancelRow
  <2>3. \A v \in Workers : RequestOK(v)'
    BY <1>9, <2>2 DEF TypeOK, CommitCancel, Reply
  <2> QED
    BY <1>9, <2>2, <2>3 DEF TypeOK, CommitCancel, Reply
<1>10. ASSUME NEW w \in Workers, Abort(w) PROVE TypeOK'
  BY <1>10 DEF TypeOK, Abort, Reply
<1>11. ASSUME NEW s \in Spots, NEW new \in SensorStatus, SensorRead(s, new)
       PROVE  TypeOK'
  BY <1>11 DEF TypeOK, SensorRead, SensorEvent
<1>12. CASE SensorCommit
  BY <1>12 DEF TypeOK, SensorCommit, SensorWrite, SensorEvent, SensorStatus,
               NoEvent
<1>13. CASE SensorAbort
  BY <1>13 DEF TypeOK, SensorAbort
<1>14. CASE Tick
  BY <1>14 DEF TypeOK, Tick
<1>15. CASE UNCHANGED vars
  BY <1>15 DEF TypeOK, vars
<1> QED
  BY <1>1, <1>2, <1>3, <1>4, <1>5, <1>6, <1>7, <1>8, <1>9, <1>10, <1>11,
     <1>12, <1>13, <1>14, <1>15 DEF Next, Serve

\* Every state of the service has the types its columns, its workers' program
\* counters and their requests should have.
THEOREM TypeCorrect == Spec => []TypeOK
<1> USE DEF ReservePC, ReserveRequest, CancelRequest, NoRequest, RequestOK,
            Reservation, ReservationStatus, SpotStatus
<1>1. Init => TypeOK
  BY SlotsAssumption, MaxRequestsAssumption DEF Init, TypeOK
<1>2. TypeOK /\ [Next]_vars => TypeOK'
  BY TypeStep
<1> QED
  BY <1>1, <1>2, PTL DEF Spec

-----------------------------------------------------------------------------
(* Rows are kept *)

\* Rows are touched by the commits of reservations and cancellations only.
LEMMA RowSteps ==
  ASSUME TypeOK, [Next]_vars
  PROVE  \/ reservations' = reservations
         \/ \E w \in Workers : /\ CommitReservation(w)
                               /\ KeyFree(reservations, req[w].spot, req[w].window)
         \/ \E w \in Workers : CommitCancel(w)
<1>1. ASSUME NEW w \in Workers,
             \/ \E u \in Users, win \in Windows : ReserveSpot(w, u, win)
             \/ \E u \in Users, k \in 1..Len(reservations) + 1 : CancelReservation(w, u, k)
             \/ PricingOutcome(w) \/ CheckSpot(w) \/ FindUser(w)
             \/ CheckOverlap(w) \/ Refresh(w) \/ Abort(w)
             \/ /\ CommitReservation(w)
                /\ ~KeyFree(reservations, req[w].spot, req[w].window)
      PROVE  reservations' = reservations
  BY <1>1 DEF ReserveSpot, CancelReservation, PricingOutcome, CheckSpot,
              FindUser, CheckOverlap, Refresh, Abort, CommitReservation
<1>2. ASSUME \/ \E s \in Spots, new \in SensorStatus : SensorRead(s, new)
             \/ SensorCommit \/ SensorAbort \/ Tick \/ UNCHANGED vars
      PROVE  reservations' = reservations
  BY <1>2 DEF SensorRead, SensorCommit, SensorAbort, Tick, vars
<1> QED
  BY <1>1, <1>2 DEF Next, Serve

\* A row is there for good, of the same spot, user and window, and once it is
\* cancelled it stays so.
RowsStay ==
  /\ Len(reservations) <= Len(reservations')
  /\ \A i \in 1..Len(reservations) :
       /\ reservations'[i].spot = reservations[i].spot
       /\ reservations'[i].user = reservations[i].user
       /\ reservations'[i].window = reservations[i].window
       /\ reservations[i].status = "cancelled" => reservations'[i].status = "cancelled"

LEMMA RowsStayStep ==
  ASSUME TypeOK, [Next]_vars
  PROVE  RowsStay
<1>0. reservations \in Seq(Reservation) /\ Len(reservations) \in Nat
  BY DEF TypeOK
<1>1. ASSUME NEW w \in Workers, CommitReservation(w),
             KeyFree(reservations, req[w].spot, req[w].window)
      PROVE  RowsStay
  <2> DEFINE r == [spot |-> req[w].spot, user |-> req[w].user,
                   window |-> req[w].window, status |-> "confirmed"]
  <2>1. req[w] \in ReserveRequest /\ reservations' = Append(reservations, r)
    BY <1>1 DEF CommitReservation, TypeOK, RequestOK, ReservePC
  <2>2. r \in Reservation
    BY <2>1 DEF ReserveRequest, Reservation, ReservationStatus
  <2> HIDE DEF r
  <2> QED
    BY <1>0, <2>1, <2>2, AppendRow DEF RowsStay
<1>2. ASSUME NEW w \in Workers, CommitCancel(w) PROVE RowsStay
  <2> DEFINE i == req[w].target
  <2>1. i \in 1..Len(reservations) /\ reservations' = [reservations EXCEPT ![i].status = "cancelled"]
    BY <1>2 DEF CommitCancel, TypeOK, RequestOK, ReservePC
  <2> HIDE DEF i
  <2> QED
    BY <1>0, <2>1, CancelRow DEF RowsStay
<1>3. CASE reservations' = reservations
  BY <1>0, <1>3 DEF RowsStay
<1> QED
  BY <1>1, <1>2, <1>3, RowSteps

-----------------------------------------------------------------------------
(* Bounded overbooking *)

\* The sets that OverbookingMargin counts are finite.
LEMMA CountedSetsFinite ==
  ASSUME NEW rows \in Seq(Reservation), NEW s, NEW t
  PROVE  /\ IsFiniteSet(ConfirmedAt(rows, s, t))
         /\ Cardinality(ConfirmedAt(rows, s, t)) \in Nat
         /\ IsFiniteSet(Committing(s, t))
         /\ Cardinality(Committing(s, t)) \in Nat
         /\ Cardinality(Committing(s, t)) <= Cardinality(Workers)
         /\ Cardinality(Workers) \in Nat
<1>1. IsFiniteSet(1..Len(rows))
  BY FS_Interval
<1>2. ConfirmedAt(rows, s, t) \in SUBSET (1..Len(rows))
  BY DEF ConfirmedAt
<1>3. Committing(s, t) \in SUBSET Workers
  BY DEF Committing
<1> QED
  BY <1>1, <1>2, <1>3, WorkersAssumption, FS_Subset, FS_CardinalityType

\* A step that adds to neither set keeps the margin.
LEMMA MarginShrinks ==
  ASSUME TypeOK, TypeOK', OverbookingMargin,
         \A s \in Spots, t \in Slots :
           /\ ConfirmedAt(reservations', s, t) \subseteq ConfirmedAt(reservations, s, t)
           /\ Committing(s, t)' \subseteq Committing(s, t)
  PROVE  OverbookingMargin'
<1> SUFFICES ASSUME NEW s \in Spots, NEW t \in Slots
             PROVE  Cardinality(ConfirmedAt(reservations', s, t))
                      + Cardinality(Committing(s, t)') <= Cardinality(Workers)
  BY DEF OverbookingMargin
<1> DEFINE A == ConfirmedAt(reservations, s, t)
           B == Committing(s, t)
           C == ConfirmedAt(reservations', s, t)
           D == Committing(s, t)'
<1>1. /\ IsFiniteSet(A) /\ Cardinality(A) \in Nat
      /\ IsFiniteSet(B) /\ Cardinality(B) \in Nat
      /\ Cardinality(Workers) \in Nat
  BY CountedSetsFinite DEF TypeOK
<1>2. C \in SUBSET A /\ D \in SUBSET B
  OBVIOUS
<1>3. Cardinality(A) + Cardinality(B) <= Cardinality(Workers)
  BY DEF OverbookingMargin
<1> HIDE DEF A, B, C, D
<1>4. /\ Cardinality(C) \in Nat /\ Cardinality(C) <= Cardinality(A)
      /\ Cardinality(D) \in Nat /\ Cardinality(D) <= Cardinality(B)
  BY <1>1, <1>2, FS_Subset, FS_CardinalityType
<1>5. Cardinality(C) + Cardinality(D) <= Cardinality(Workers)
  BY <1>1, <1>3, <1>4
<1> QED
  BY <1>5 DEF C, D

\* No step of any worker, of the consumer or of the clock breaks the margin.
LEMMA MarginStep ==
  ASSUME TypeOK, TypeOK', OverbookingMargin, [Next]_vars
  PROVE  OverbookingMargin'
<1>1. ASSUME NEW w \in Workers, CheckOverlap(w), pc'[w] = "commit"
      PROVE  OverbookingMargin'
  <2> SUFFICES ASSUME NEW s \in Spots, NEW t \in Slots
               PROVE  Cardinality(ConfirmedAt(reservations', s, t))
                        + Cardinality(Committing(s, t)') <= Cardinality(Workers)
    BY DEF OverbookingMargin
  <2>1. /\ pc[w] = "overlap" /\ pc' = [pc EXCEPT ![w] = "commit"]
        /\ req' = req /\ reservations' = reservations
        /\ Conflicts(reservations, req[w].spot, req[w].window) = {}
    BY <1>1 DEF CheckOverlap, Advance, Reply, TypeOK
  <2>2. CASE req[w].spot = s /\ Covers(req[w].window, t)
    <3>1. ConfirmedAt(reservations', s, t) = {}
      <4> SUFFICES ASSUME NEW i \in ConfirmedAt(reservations', s, t) PROVE FALSE
        OBVIOUS
      <4>1. /\ i \in 1..Len(reservations) /\ reservations[i].spot = s
            /\ reservations[i].status = "confirmed"
            /\ Covers(reservations[i].window, t)
        BY <2>1 DEF ConfirmedAt
      <4>2. reservations[i] \in Reservation /\ req[w] \in ReserveRequest
        BY <2>1, <4>1 DEF TypeOK, RequestOK
      <4>3. reservations[i].window \in Windows /\ req[w].window \in Windows
        BY <4>2 DEF Reservation, ReserveRequest
      <4>4. Overlaps(reservations[i].window, req[w].window)
        BY <2>2, <4>1, <4>3, WindowsAssumption, SlotsAssumption
           DEF Covers, Overlaps
      <4> QED
        BY <2>1, <2>2, <4>1, <4>4 DEF Conflicts
    <3>2. /\ Cardinality(Committing(s, t)') \in Nat
          /\ Cardinality(Committing(s, t)') <= Cardinality(Workers)
      <4>1. Committing(s, t)' \in SUBSET Workers
        BY DEF Committing
      <4> QED
        BY <4>1, WorkersAssumption, FS_Subset, FS_CardinalityType
    <3>3. Cardinality(Workers) \in Nat
      BY WorkersAssumption, FS_CardinalityType
    <3> QED
      BY <3>1, <3>2, <3>3, FS_EmptySet
  <2>3. CASE ~(req[w].spot = s /\ Covers(req[w].window, t))
    <3>1. Committing(s, t)' = Committing(s, t)
      BY <2>1, <2>3 DEF Committing, TypeOK
    <3> QED
      BY <2>1, <3>1 DEF OverbookingMargin
  <2> QED
    BY <2>2, <2>3
<1>2. ASSUME NEW w \in Workers, CommitReservation(w),
             KeyFree(reservations, req[w].spot, req[w].window)
      PROVE  OverbookingMargin'
  <2> SUFFICES ASSUME NEW s \in Spots, NEW t \in Slots
               PROVE  Cardinality(ConfirmedAt(reservations', s, t))
                        + Cardinality(Committing(s, t)') <= Cardinality(Workers)
    BY DEF OverbookingMargin
  <2> DEFINE r == [spot |-> req[w].spot, user |-> req[w].user,
                   window |-> req[w].window, status |-> "confirmed"]
             n == Len(reservations) + 1
             A == ConfirmedAt(reservations, s, t)
             B == Committing(s, t)
  <2>1. /\ pc[w] = "commit" /\ req[w] \in ReserveRequest
        /\ pc' = [pc EXCEPT ![w] = "refresh"] /\ req' = req
        /\ reservations' = Append(reservations, r)
        /\ reservations \in Seq(Reservation)
    BY <1>2 DEF CommitReservation, Advance, TypeOK, RequestOK
  <2>2. r \in Reservation
    BY <2>1 DEF Reservation, ReservationStatus, ReserveRequest
  <2>3. /\ Len(reservations') = n
        /\ reservations'[n] = r
        /\ \A i \in 1..Len(reservations) : reservations'[i] = reservations[i]
        /\ Len(reservations) \in Nat
    <3> HIDE DEF r
    <3> QED
      BY <2>1, <2>2, AppendRow
  <2>4. /\ IsFiniteSet(A) /\ Cardinality(A) \in Nat
        /\ IsFiniteSet(B) /\ Cardinality(B) \in Nat
        /\ Cardinality(Workers) \in Nat
        /\ Cardinality(A) + Cardinality(B) <= Cardinality(Workers)
    BY <2>1, CountedSetsFinite DEF OverbookingMargin
  <2>5. Committing(s, t)' = B \ {w}
    BY <2>1 DEF Committing, TypeOK
  <2>6. CASE req[w].spot = s /\ Covers(req[w].window, t)
    <3>1. w \in B
      BY <2>1, <2>6 DEF Committing
    <3>2. ConfirmedAt(reservations', s, t) = A \cup {n} /\ n \notin A
      BY <2>3, <2>6 DEF ConfirmedAt
    <3> HIDE DEF A, B, n, r
    <3>3. /\ Cardinality(A \cup {n}) = Cardinality(A) + 1
          /\ Cardinality(B \ {w}) = Cardinality(B) - 1
      BY <2>4, <3>1, <3>2, FS_AddElement, FS_RemoveElement
    <3> QED
      BY <2>4, <2>5, <3>2, <3>3
  <2>7. CASE ~(req[w].spot = s /\ Covers(req[w].window, t))
    <3>1. ConfirmedAt(reservations', s, t) = A
      BY <2>3, <2>7 DEF ConfirmedAt
    <3>2. Committing(s, t)' = B
      BY <2>5, <2>7 DEF Committing
    <3> QED
      BY <2>4, <3>1, <3>2
  <2> QED
    BY <2>6, <2>7
<1>3. ASSUME reservations' = reservations,
             \A v \in Workers : pc'[v] = "commit" => pc[v] = "commit" /\ req'[v] = req[v]
      PROVE  OverbookingMargin'
  <2>1. \A s \in Spots, t \in Slots : Committing(s, t)' \subseteq Committing(s, t)
    BY <1>3 DEF Committing
  <2> QED
    BY <1>3, <2>1, MarginShrinks
<1>4. ASSUME NEW w \in Workers, CommitCancel(w) PROVE OverbookingMargin'
  <2> DEFINE i == req[w].target
  <2>1. /\ reservations \in Seq(Reservation) /\ i \in 1..Len(reservations)
        /\ reservations' = [reservations EXCEPT ![i].status = "cancelled"]
        /\ pc' = [pc EXCEPT ![w] = "idle"] /\ req' = [req EXCEPT ![w] = NoRequest]
    BY <1>4 DEF CommitCancel, Reply, TypeOK, RequestOK, ReservePC
  <2>2. \A s \in Spots, t \in Slots : Committing(s, t)' \subseteq Committing(s, t)
    BY <2>1 DEF Committing, TypeOK
  <2> HIDE DEF i
  <2>3. /\ Len(reservations') = Len(reservations)
        /\ reservations'[i].status = "cancelled"
        /\ \A j \in 1..Len(reservations) : j # i => reservations'[j] = reservations[j]
    BY <2>1, CancelRow
  <2>4. \A s \in Spots, t \in Slots :
          ConfirmedAt(reservations', s, t) \subseteq ConfirmedAt(reservations, s, t)
    BY <2>3 DEF ConfirmedAt
  <2> QED
    BY <2>2, <2>4, MarginShrinks
<1>5. ASSUME NEW w \in Workers,
             \/ \E u \in Users, win \in Windows : ReserveSpot(w, u, win)
             \/ \E u \in Users, k \in 1..Len(reservations) + 1 : CancelReservation(w, u, k)
             \/ PricingOutcome(w) \/ CheckSpot(w) \/ FindUser(w) \/ Refresh(w)
             \/ Abort(w)
             \/ CheckOverlap(w) /\ pc'[w] # "commit"
             \/ /\ CommitReservation(w)
                /\ ~KeyFree(reservations, req[w].spot, req[w].window)
      PROVE  OverbookingMargin'
  <2>1. /\ reservations' = reservations
        /\ pc'[w] # "commit"
        /\ \A v \in Workers \ {w} : pc'[v] = pc[v] /\ req'[v] = req[v]
    BY <1>5 DEF ReserveSpot, CancelReservation, PricingOutcome, CheckSpot,
                FindUser, Refresh, Abort, CheckOverlap, CommitReservation,
                Receive, Advance, Reply, TypeOK
  <2> QED
    BY <2>1, <1>3
<1>6. ASSUME \/ \E s \in Spots, new \in SensorStatus : SensorRead(s, new)
             \/ SensorCommit \/ SensorAbort \/ Tick \/ UNCHANGED vars
      PROVE  OverbookingMargin'
  <2>1. reservations' = reservations /\ pc' = pc /\ req' = req
    BY <1>6 DEF SensorRead, SensorCommit, SensorAbort, Tick, vars
  <2> QED
    BY <2>1, <1>3
<1> QED
  BY <1>1, <1>2, <1>4, <1>5, <1>6 DEF Next, Serve

\* OverbookingMargin is an invariant.
THEOREM Margin == Spec => [](TypeOK /\ OverbookingMargin)
<1>1. Init /\ TypeOK => OverbookingMargin
  <2> SUFFICES ASSUME Init, NEW s \in Spots, NEW t \in Slots
               PROVE  Cardinality(ConfirmedAt(reservations, s, t))
                        + Cardinality(Committing(s, t)) <= Cardinality(Workers)
    BY DEF OverbookingMargin
  <2>1. ConfirmedAt(reservations, s, t) = {} /\ Committing(s, t) = {}
    BY DEF Init, ConfirmedAt, Committing
  <2>2. Cardinality(Workers) \in Nat
    BY WorkersAssumption, FS_CardinalityType
  <2> QED
    BY <2>1, <2>2, FS_EmptySet
<1> QED
  BY <1>1, MarginStep, TypeCorrect, PTL DEF Spec

\* However many workers, however they interleave: no spot is ever held at an
\* instant by more confirmed reservations than there are worker threads.
THEOREM OverbookingIsBounded == Spec => []BoundedOverbooking
<1>1. TypeOK /\ OverbookingMargin => BoundedOverbooking
  <2> SUFFICES ASSUME TypeOK, OverbookingMargin, NEW s \in Spots, NEW t \in Slots
               PROVE  Cardinality(ConfirmedAt(reservations, s, t)) <= Cardinality(Workers)
    BY DEF BoundedOverbooking
  <2>1. /\ Cardinality(ConfirmedAt(reservations, s, t)) \in Nat
        /\ Cardinality(Committing(s, t)) \in Nat
        /\ Cardinality(Workers) \in Nat
    BY CountedSetsFinite DEF TypeOK
  <2>2. Cardinality(ConfirmedAt(reservations, s, t)) + Cardinality(Committing(s, t))
          <= Cardinality(Workers)
    BY DEF OverbookingMargin
  <2> QED
    BY <2>1, <2>2
<1> QED
  BY <1>1, Margin, PTL

-----------------------------------------------------------------------------
(* Rows, accounts, cancellations and reserved spots *)

\* Past its window test a request has a window that is not empty, and so has
\* every row.
WindowsValid ==
  /\ \A i \in 1..Len(reservations) : ValidWindow(reservations[i].window)
  /\ \A w \in Workers : pc[w] \in {"user", "overlap", "commit"} =>
       ValidWindow(req[w].window)

\* Past its look-up a request that inserts no account is of a committed one.
AccountsKnown ==
  /\ BookedUsersExist
  /\ \A w \in Workers : pc[w] \in {"overlap", "commit"} /\ ~req[w].fresh =>
       req[w].user \in users

RowInv == WindowsValid /\ AccountsKnown /\ CancelsAreOwned /\ ReservedIsBooked

\* No step breaks RowInv.
LEMMA RowInvStep ==
  ASSUME TypeOK, TypeOK', RowInv, [Next]_vars
  PROVE  RowInv'
<1> USE DEF RowInv, WindowsValid, AccountsKnown, BookedUsersExist,
            CancelsAreOwned, ReservedIsBooked
<1>0. reservations \in Seq(Reservation)
  BY DEF TypeOK
<1>1. ASSUME NEW w \in Workers, CommitReservation(w),
             KeyFree(reservations, req[w].spot, req[w].window)
      PROVE  RowInv'
  <2> DEFINE r == [spot |-> req[w].spot, user |-> req[w].user,
                   window |-> req[w].window, status |-> "confirmed"]
             n == Len(reservations) + 1
  <2>1. /\ pc[w] = "commit" /\ req[w] \in ReserveRequest
        /\ pc' = [pc EXCEPT ![w] = "refresh"] /\ req' = req
        /\ reservations' = Append(reservations, r)
        /\ status' = [status EXCEPT ![req[w].spot] = "reserved"]
        /\ users' = users \cup (IF req[w].fresh THEN {req[w].user} ELSE {})
    BY <1>1 DEF CommitReservation, Advance, TypeOK, RequestOK
  <2>2. r \in Reservation
    BY <2>1 DEF Reservation, ReservationStatus, ReserveRequest
  <2>3. /\ Len(reservations') = n /\ Len(reservations) \in Nat
        /\ reservations'[n] = r
        /\ \A i \in 1..Len(reservations) : reservations'[i] = reservations[i]
    <3> HIDE DEF r
    <3> QED
      BY <1>0, <2>1, <2>2, AppendRow
  <2>4. \A i \in 1..n : i = n \/ i \in 1..Len(reservations)
    BY <2>3
  <2>5. r.spot = req[w].spot /\ r.user = req[w].user /\ r.window = req[w].window
    OBVIOUS
  <2>6. req[w].fresh \in BOOLEAN
    BY <2>1 DEF ReserveRequest
  <2> HIDE DEF r
  <2>7. WindowsValid'
    BY <2>1, <2>3, <2>4, <2>5 DEF TypeOK
  <2>8. AccountsKnown'
    <3>1. req[w].user \in users'
      BY <2>1, <2>6
    <3> QED
      BY <2>1, <2>3, <2>4, <2>5, <3>1 DEF TypeOK
  <2>9. CancelsAreOwned'
    <3> SUFFICES ASSUME NEW v \in Workers, pc'[v] = "cancel"
                 PROVE  reservations'[req'[v].target].user = req'[v].user
      OBVIOUS
    <3>1. pc[v] = "cancel" /\ req'[v] = req[v]
      BY <2>1 DEF TypeOK
    <3>2. req[v].target \in 1..Len(reservations)
      BY <3>1 DEF TypeOK, RequestOK, ReservePC
    <3> QED
      BY <2>3, <3>1, <3>2
  <2>10. ReservedIsBooked'
    <3> SUFFICES ASSUME NEW s \in Spots, status'[s] = "reserved"
                 PROVE  \E i \in 1..Len(reservations') : reservations'[i].spot = s
      OBVIOUS
    <3>1. CASE s = req[w].spot
      BY <2>3, <2>5, <3>1
    <3>2. CASE s # req[w].spot
      <4>1. status[s] = "reserved"
        BY <2>1, <3>2 DEF TypeOK
      <4> QED
        BY <2>3, <4>1
    <3> QED
      BY <3>1, <3>2
  <2> QED
    BY <2>7, <2>8, <2>9, <2>10
<1>2. ASSUME NEW w \in Workers, CommitCancel(w) PROVE RowInv'
  <2> DEFINE k == req[w].target
  <2>1. /\ k \in 1..Len(reservations)
        /\ reservations' = [reservations EXCEPT ![k].status = "cancelled"]
        /\ pc' = [pc EXCEPT ![w] = "idle"] /\ req' = [req EXCEPT ![w] = NoRequest]
        /\ status' = status /\ users' = users
    BY <1>2 DEF CommitCancel, Reply, TypeOK, RequestOK, ReservePC
  <2> HIDE DEF k
  <2>2. /\ Len(reservations') = Len(reservations)
        /\ \A j \in 1..Len(reservations) :
             /\ reservations'[j].spot = reservations[j].spot
             /\ reservations'[j].user = reservations[j].user
             /\ reservations'[j].window = reservations[j].window
    BY <1>0, <2>1, CancelRow
  <2>3. \A v \in Workers : pc'[v] # "idle" => pc'[v] = pc[v] /\ req'[v] = req[v]
    BY <2>1 DEF TypeOK
  <2>4. \A v \in Workers : pc[v] = "cancel" => req[v].target \in 1..Len(reservations)
    BY DEF TypeOK, RequestOK, ReservePC
  <2> QED
    BY <2>1, <2>2, <2>3, <2>4
<1>3. ASSUME NEW w \in Workers,
             /\ reservations' = reservations /\ status' = status /\ users' = users
             /\ \A v \in Workers \ {w} : pc'[v] = pc[v] /\ req'[v] = req[v],
             pc'[w] \in {"user", "overlap", "commit"} => ValidWindow(req'[w].window),
             pc'[w] \in {"overlap", "commit"} /\ ~req'[w].fresh =>
               req'[w].user \in users,
             pc'[w] = "cancel" => reservations[req'[w].target].user = req'[w].user
      PROVE  RowInv'
  BY <1>3
<1>4. ASSUME NEW w \in Workers, NEW u \in Users, NEW i \in 1..Len(reservations) + 1,
             CancelReservation(w, u, i)
      PROVE  RowInv'
  BY <1>3, <1>4 DEF CancelReservation, Receive, MayCancel, TypeOK
<1>5. ASSUME NEW w \in Workers, NEW u \in Users, NEW win \in Windows,
             ReserveSpot(w, u, win)
      PROVE  RowInv'
  BY <1>3, <1>5 DEF ReserveSpot, Receive, TypeOK
<1>6. ASSUME NEW w \in Workers, CheckSpot(w) PROVE RowInv'
  BY <1>3, <1>6 DEF CheckSpot, Advance, Reply, TypeOK
<1>7. ASSUME NEW w \in Workers, FindUser(w) PROVE RowInv'
  <2>1. req[w] \in ReserveRequest
    BY <1>7 DEF FindUser, TypeOK, RequestOK
  <2>2. /\ req'[w].user = req[w].user /\ req'[w].window = req[w].window
        /\ ~req'[w].fresh => req[w].user \in users
    BY <1>7, <2>1 DEF FindUser, UserMissing, ReserveRequest, TypeOK
  <2> QED
    BY <1>3, <1>7, <2>2 DEF FindUser, TypeOK
<1>8. ASSUME NEW w \in Workers, CheckOverlap(w) PROVE RowInv'
  BY <1>3, <1>8 DEF CheckOverlap, Advance, Reply, TypeOK
<1>9. ASSUME NEW w \in Workers,
             \/ PricingOutcome(w) \/ Refresh(w) \/ Abort(w)
             \/ /\ CommitReservation(w)
                /\ ~KeyFree(reservations, req[w].spot, req[w].window)
      PROVE  RowInv'
  BY <1>3, <1>9 DEF PricingOutcome, Refresh, Abort, CommitReservation, Advance,
                    Reply, TypeOK
<1>10. CASE SensorCommit
  <2>1. sensor \in SensorEvent
    BY <1>10 DEF SensorCommit, TypeOK
  <2>2. \A s \in Spots : status'[s] = "reserved" => status[s] = "reserved"
    BY <1>10, <2>1 DEF SensorCommit, SensorWrite, SensorEvent, SensorStatus, TypeOK
  <2> QED
    BY <1>10, <2>2 DEF SensorCommit
<1>11. ASSUME \/ \E s \in Spots, new \in SensorStatus : SensorRead(s, new)
              \/ SensorAbort \/ Tick \/ UNCHANGED vars
       PROVE  RowInv'
  BY <1>11 DEF SensorRead, SensorAbort, Tick, vars
<1> QED
  BY <1>1, <1>2, <1>4, <1>5, <1>6, <1>7, <1>8, <1>9, <1>10, <1>11 DEF Next, Serve

\* RowInv is an invariant.
THEOREM Rows == Spec => [](TypeOK /\ RowInv)
<1>1. Init /\ TypeOK => RowInv
  BY DEF Init, RowInv, WindowsValid, AccountsKnown, BookedUsersExist,
         CancelsAreOwned, ReservedIsBooked
<1> QED
  BY <1>1, RowInvStep, TypeCorrect, PTL DEF Spec

\* Racing first bookings of one new user never leave a reservation without its
\* account.
THEOREM BookersHaveAccounts == Spec => []BookedUsersExist
BY Rows, PTL DEF RowInv, AccountsKnown

\* A cancellation about to be committed is its owner's.
THEOREM CancellationsOwned == Spec => []CancelsAreOwned
BY Rows, PTL DEF RowInv

\* No failed request leaves a spot marked reserved.
THEOREM ReservedSpotsBooked == Spec => []ReservedIsBooked
BY Rows, PTL DEF RowInv

-----------------------------------------------------------------------------
(* Refinement *)

\* The ledger's instance brings its own copy of Cardinality.
LEMMA LedgerCardinality ==
  ASSUME NEW S
  PROVE  Ledger!Cardinality(S) = Cardinality(S)
BY DEF Cardinality, Ledger!Cardinality

\* The service implements the ledger: every step of any worker either leaves
\* the rows alone or is a booking or a cancellation the ledger allows.
THEOREM LedgerRefined == Spec => RefinesLedger
<1>1. Init => Ledger!LedgerInit
  BY DEF Init, Ledger!LedgerInit
<1>2. ASSUME TypeOK, OverbookingMargin, RowInv, [Next]_vars
      PROVE  [Ledger!LedgerNext]_reservations
  <2>1. ASSUME NEW w \in Workers, CommitReservation(w),
               KeyFree(reservations, req[w].spot, req[w].window)
        PROVE  Ledger!LedgerNext
    <3> DEFINE s == req[w].spot
               u == req[w].user
               win == req[w].window
    <3>1. /\ pc[w] = "commit" /\ s \in Spots /\ u \in Users /\ win \in Windows
      BY <1>2, <2>1 DEF CommitReservation, TypeOK, RequestOK, ReserveRequest
    <3>2. ValidWindow(win)
      BY <1>2, <3>1 DEF RowInv, WindowsValid
    <3>3. ASSUME NEW t \in Slots, Covers(win, t)
          PROVE  Cardinality(ConfirmedAt(reservations, s, t)) < Cardinality(Workers)
      <4> DEFINE A == ConfirmedAt(reservations, s, t)
                 B == Committing(s, t)
      <4>1. w \in B
        BY <3>1, <3>3 DEF Committing
      <4>2. /\ IsFiniteSet(B) /\ Cardinality(A) \in Nat /\ Cardinality(B) \in Nat
            /\ Cardinality(Workers) \in Nat
            /\ Cardinality(A) + Cardinality(B) <= Cardinality(Workers)
        BY <1>2, <3>1, CountedSetsFinite DEF TypeOK, OverbookingMargin
      <4> HIDE DEF A, B
      <4>3. Cardinality(B) # 0
        BY <4>1, <4>2, FS_EmptySet
      <4>4. Cardinality(A) < Cardinality(Workers)
        BY <4>2, <4>3
      <4> QED
        BY <4>4 DEF A
    <3>4. reservations' = Append(reservations, [spot |-> s, user |-> u, window |-> win,
                                               status |-> "confirmed"])
      BY <2>1 DEF CommitReservation
    <3>5. \A t \in Slots : Ledger!Covers(win, t) =>
            Ledger!Cardinality(Ledger!ConfirmedAt(reservations, s, t)) < Cardinality(Workers)
      <4>1. \A t \in Slots : /\ Ledger!Covers(win, t) <=> Covers(win, t)
                             /\ Ledger!ConfirmedAt(reservations, s, t)
                                  = ConfirmedAt(reservations, s, t)
        BY DEF Covers, ConfirmedAt, Ledger!Covers, Ledger!ConfirmedAt
      <4> QED
        BY <3>3, <4>1, LedgerCardinality
    <3>6. Ledger!ValidWindow(win) /\ Ledger!KeyFree(reservations, s, win)
      BY <2>1, <3>2 DEF ValidWindow, KeyFree, Ledger!ValidWindow, Ledger!KeyFree
    <3> HIDE DEF s, u, win
    <3>7. Ledger!Book(s, u, win)
      BY <3>4, <3>5, <3>6 DEF Ledger!Book
    <3> QED
      BY <3>1, <3>7 DEF Ledger!LedgerNext
  <2>2. ASSUME NEW w \in Workers, CommitCancel(w) PROVE Ledger!LedgerNext
    <3>1. req[w].target \in 1..Len(reservations)
      BY <1>2, <2>2 DEF CommitCancel, TypeOK, RequestOK, ReservePC
    <3>2. Ledger!Cancel(req[w].target)
      BY <2>2 DEF CommitCancel, Ledger!Cancel
    <3> QED
      BY <3>1, <3>2 DEF Ledger!LedgerNext
  <2> QED
    BY <1>2, <2>1, <2>2, RowSteps
<1> QED
  BY <1>1, <1>2, Margin, Rows, PTL DEF Spec, RefinesLedger, Ledger!LedgerSpec
=============================================================================
