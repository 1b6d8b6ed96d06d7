----------------------------- MODULE Inventory -----------------------------
(***************************************************************************)
(* The inventory service: its pool of gRPC worker threads, the consumer of *)
(* sensor events, and the tables they share.  Every database transaction   *)
(* of the code is a sequence of steps here, one per statement whose result *)
(* can change before the next one runs (READ COMMITTED: no statement locks *)
(* what it reads).  SQLAlchemy sends a transaction's writes inside         *)
(* commit(), so the writes and the commit are one step; the exception is   *)
(* the new users row, which autoflush sends with the overlap query.        *)
(* One parking lot; the pricing service answers arbitrarily.               *)
(***************************************************************************)
EXTENDS ReservationRows, FiniteSets

CONSTANTS
  Workers,      \* threads of the gRPC server's executor
  Slots,        \* the instants, in hours
  MaxRequests   \* bound: mutating RPCs the clients send in one behaviour

VARIABLES
  status,       \* parking_spots.status, by spot
  users,        \* users.user_id of the committed rows
  reservations, \* the committed rows of reservations
  pc,           \* what each worker does next
  req,          \* the request each worker serves
  sensor,       \* the consumer's open transaction
  now,          \* the clock
  requests      \* number of RPCs received so far

vars == <<status, users, reservations, pc, req, sensor, now, requests>>

ASSUME WorkersAssumption == IsFiniteSet(Workers)
ASSUME SlotsAssumption == Slots \subseteq Nat /\ 0 \in Slots
ASSUME WindowsAssumption == Windows \subseteq [start: Slots, end: Slots]
ASSUME MaxRequestsAssumption == MaxRequests \in Nat

-----------------------------------------------------------------------------
(* State *)

SpotStatus == {"available", "occupied", "reserved"}
SensorStatus == {"available", "occupied"}

\* The steps of ReserveSpot; in the last, only the reply is outstanding.
ReservePC == {"pricing", "spot", "user", "overlap", "commit", "refresh"}

ReserveRequest == [user: Users, window: Windows, spot: Spots, fresh: BOOLEAN]
CancelRequest == [user: Users, target: Nat]
NoRequest == [kind |-> "none"]

SensorEvent == [spot: Spots, seen: SpotStatus, new: SensorStatus]
NoEvent == [kind |-> "none"]

\* The consistency of a worker's request with its program counter.
RequestOK(w) ==
  \/ pc[w] = "idle" /\ req[w] = NoRequest
  \/ pc[w] \in ReservePC /\ req[w] \in ReserveRequest
  \/ /\ pc[w] = "cancel"
     /\ req[w] \in CancelRequest
     /\ req[w].target \in 1..Len(reservations)

TypeOK ==
  /\ status \in [Spots -> SpotStatus]
  /\ users \subseteq Users
  /\ reservations \in Seq(Reservation)
  /\ pc \in [Workers -> {"idle", "cancel"} \cup ReservePC]
  /\ req \in [Workers -> {NoRequest} \cup ReserveRequest \cup CancelRequest]
  /\ \A w \in Workers : RequestOK(w)
  /\ sensor \in {NoEvent} \cup SensorEvent
  /\ now \in Slots
  /\ requests \in 0..MaxRequests

\* The seed script creates every spot available; accounts may exist already.
Init ==
  /\ status = [s \in Spots |-> "available"]
  /\ users \in SUBSET Users
  /\ reservations = << >>
  /\ pc = [w \in Workers |-> "idle"]
  /\ req = [w \in Workers |-> NoRequest]
  /\ sensor = NoEvent
  /\ now = 0
  /\ requests = 0

-----------------------------------------------------------------------------
(* Helpers *)

Receive(w) == pc[w] = "idle" /\ requests < MaxRequests /\ requests' = requests + 1

\* The worker goes on with its request.
Advance(w, next) == pc' = [pc EXCEPT ![w] = next] /\ UNCHANGED req

\* Mutant of Reply: the worker keeps the request it has answered.
ReplyOnly(w) == pc' = [pc EXCEPT ![w] = "idle"] /\ UNCHANGED req

\* The worker answers (success or failure) and is free for another RPC.
Reply(w) ==
  /\ pc' = [pc EXCEPT ![w] = "idle"]
  /\ req' = [req EXCEPT ![w] = NoRequest]

\* Users inserted but not committed by the open transactions of the others: a
\* second insert of the same key waits for them.
PendingUsers(w) ==
  {req[o].user : o \in {v \in Workers \ {w} : pc[v] = "commit" /\ req[v].fresh}}

\* Mutant of UserMissing: the users table is taken to have every booker.
UserNeverMissing(w) == FALSE

\* session.get(User, user_id) found nothing.
UserMissing(w) == req[w].user \notin users

\* Mutant of MayCancel: only the status is tested.
MayCancelUnowned(u, i) == reservations[i].status = "confirmed"

\* The checks of cancel_reservation on an existing row.
MayCancel(u, i) ==
  /\ reservations[i].user = u
  /\ reservations[i].status = "confirmed"
  /\ reservations[i].window.start >= now + 1

-----------------------------------------------------------------------------
(* ReserveSpot *)

\* The handler lists the available spots and takes one (no ORDER BY: any); it
\* answers at once when there is none or the request names no pricing event.
ReserveSpot(w, u, win) ==
  /\ Receive(w)
  /\ \/ \E s \in Spots :
          /\ status[s] = "available"
          /\ pc' = [pc EXCEPT ![w] = "pricing"]
          /\ req' = [req EXCEPT ![w] = [user |-> u, window |-> win,
                                        spot |-> s, fresh |-> FALSE]]
     \/ UNCHANGED <<pc, req>>
  /\ UNCHANGED <<status, users, reservations, sensor, now>>

\* RecordBookingOutcome(booked) returns: accepted, or refused by a validation.
PricingOutcome(w) ==
  /\ pc[w] = "pricing"
  /\ Advance(w, "spot") \/ Reply(w)
  /\ UNCHANGED <<status, users, reservations, sensor, now, requests>>

\* Mutants of CheckSpot: the window is not tested; the spot is marked when it is checked, in
\* a transaction of its own.
CheckSpotAnyWindow(w) ==
  /\ pc[w] = "spot"
  /\ status[req[w].spot] = "available"
  /\ Advance(w, "user")
  /\ UNCHANGED <<status, users, reservations, sensor, now, requests>>

CheckSpotMarks(w) ==
  /\ pc[w] = "spot"
  /\ status[req[w].spot] = "available"
  /\ status' = [status EXCEPT ![req[w].spot] = "reserved"]
  /\ Advance(w, "user")
  /\ UNCHANGED <<users, reservations, sensor, now, requests>>

\* The window is tested and the spot's row read and tested.
CheckSpot(w) ==
  /\ pc[w] = "spot"
  /\ IF ValidWindow(req[w].window) /\ status[req[w].spot] = "available"
       THEN Advance(w, "user")
       ELSE Reply(w)
  /\ UNCHANGED <<status, users, reservations, sensor, now, requests>>

\* The booker's account is looked up, and created in the session if missing.
FindUser(w) ==
  /\ pc[w] = "user"
  /\ pc' = [pc EXCEPT ![w] = "overlap"]
  /\ req' = [req EXCEPT ![w].fresh = UserMissing(w)]
  /\ UNCHANGED <<status, users, reservations, sensor, now, requests>>

\* Mutant of CheckOverlap: it tries again until the window is free.
CheckOverlapRetries(w) ==
  /\ pc[w] = "overlap"
  /\ Conflicts(reservations, req[w].spot, req[w].window) = {}
  /\ Advance(w, "commit")
  /\ UNCHANGED <<status, users, reservations, sensor, now, requests>>

\* Autoflush inserts the new account: it waits for another transaction that
\* inserts the same one, and fails if it was committed meanwhile.  Then the
\* overlap query runs.
CheckOverlap(w) ==
  /\ pc[w] = "overlap"
  /\ req[w].fresh => req[w].user \notin PendingUsers(w)
  /\ IF /\ req[w].fresh => UserMissing(w)
        /\ Conflicts(reservations, req[w].spot, req[w].window) = {}
       THEN Advance(w, "commit")
       ELSE Reply(w)
  /\ UNCHANGED <<status, users, reservations, sensor, now, requests>>

\* The spot is marked, the row inserted and the transaction committed, all by
\* primary key; only the UNIQUE constraint can refuse.
CommitReservation(w) ==
  /\ pc[w] = "commit"
  /\ LET r == req[w] IN
       IF KeyFree(reservations, r.spot, r.window)
         THEN /\ status' = [status EXCEPT ![r.spot] = "reserved"]
              /\ users' = users \cup (IF r.fresh THEN {r.user} ELSE {})
              /\ reservations' =
                   Append(reservations, [spot |-> r.spot, user |-> r.user,
                                         window |-> r.window,
                                         status |-> "confirmed"])
              /\ Advance(w, "refresh")
         ELSE Reply(w) /\ UNCHANGED <<status, users, reservations>>
  /\ UNCHANGED <<sensor, now, requests>>

\* The committed row is read back and the reply built from it.
Refresh(w) ==
  /\ pc[w] = "refresh"
  /\ Reply(w)
  /\ UNCHANGED <<status, users, reservations, sensor, now, requests>>

-----------------------------------------------------------------------------
(* CancelReservation, failures, sensor events, time *)

\* The row is read and tested; an unknown id or a failed test answers at once.
CancelReservation(w, u, i) ==
  /\ Receive(w)
  /\ IF i \in 1..Len(reservations) /\ MayCancel(u, i)
       THEN /\ pc' = [pc EXCEPT ![w] = "cancel"]
            /\ req' = [req EXCEPT ![w] = [user |-> u, target |-> i]]
       ELSE UNCHANGED <<pc, req>>
  /\ UNCHANGED <<status, users, reservations, sensor, now>>

\* Only the reservation's row is written: its spot keeps its status.
CommitCancel(w) ==
  /\ pc[w] = "cancel"
  /\ reservations' = [reservations EXCEPT ![req[w].target].status = "cancelled"]
  /\ Reply(w)
  /\ UNCHANGED <<status, users, sensor, now, requests>>

\* An exception anywhere (database, pricing RPC, a malformed time) rolls the
\* open transaction back and answers failure; so does the death of the process.
Abort(w) ==
  /\ pc[w] # "idle"
  /\ Reply(w)
  /\ UNCHANGED <<status, users, reservations, sensor, now, requests>>

\* The consumer takes an event and reads the spot's row.
SensorRead(s, new) ==
  /\ sensor = NoEvent
  /\ sensor' = [spot |-> s, seen |-> status[s], new |-> new]
  /\ UNCHANGED <<status, users, reservations, pc, req, now, requests>>

\* Mutant of SensorWrite: a reserved spot is left alone.
SensorWriteUnlessReserved ==
  IF sensor.seen = "reserved" \/ sensor.new = sensor.seen
    THEN status
    ELSE [status EXCEPT ![sensor.spot] = sensor.new]

\* SQLAlchemy sends the column only if the value differs from the one read.
SensorWrite ==
  IF sensor.new = sensor.seen
    THEN status
    ELSE [status EXCEPT ![sensor.spot] = sensor.new]

SensorCommit ==
  /\ sensor # NoEvent
  /\ status' = SensorWrite
  /\ sensor' = NoEvent
  /\ UNCHANGED <<users, reservations, pc, req, now, requests>>

\* The update fails, the transaction is rolled back and the event dropped.
SensorAbort ==
  /\ sensor # NoEvent
  /\ sensor' = NoEvent
  /\ UNCHANGED <<status, users, reservations, pc, req, now, requests>>

Tick ==
  /\ now + 1 \in Slots
  /\ now' = now + 1
  /\ UNCHANGED <<status, users, reservations, pc, req, sensor, requests>>

\* What worker w does once it has a request, failures apart.
Serve(w) ==
  \/ PricingOutcome(w)
  \/ CheckSpot(w)
  \/ FindUser(w)
  \/ CheckOverlap(w)
  \/ CommitReservation(w)
  \/ Refresh(w)
  \/ CommitCancel(w)

Next ==
  \/ \E w \in Workers :
       \/ \E u \in Users, win \in Windows : ReserveSpot(w, u, win)
       \/ \E u \in Users, i \in 1..Len(reservations) + 1 : CancelReservation(w, u, i)
       \/ Serve(w)
       \/ Abort(w)
  \/ \E s \in Spots, new \in SensorStatus : SensorRead(s, new)
  \/ SensorCommit
  \/ SensorAbort
  \/ Tick

Spec == Init /\ [][Next]_vars

-----------------------------------------------------------------------------
(* Properties *)

\* The workers that passed the overlap check for spot s at instant t and have
\* not committed yet.
Committing(s, t) ==
  {w \in Workers : /\ pc[w] = "commit"
                   /\ req[w].spot = s
                   /\ Covers(req[w].window, t)}

\* No spot is held at any instant by more confirmed reservations than there are
\* worker threads: however the threads interleave between the overlap query
\* and the commit, the damage of the missing row lock is bounded by the pool.
BoundedOverbooking ==
  \A s \in Spots, t \in Slots :
    Cardinality(ConfirmedAt(reservations, s, t)) <= Cardinality(Workers)

\* Why: a check passes only when no confirmed row is there, and from then on
\* each commit replaces a worker that had passed by a row.
OverbookingMargin ==
  \A s \in Spots, t \in Slots :
    Cardinality(ConfirmedAt(reservations, s, t)) + Cardinality(Committing(s, t))
      <= Cardinality(Workers)

\* No two confirmed reservations of a spot overlap ("Prevent double-booking by
\* rejecting overlapping confirmed reservations", service.py:114).  False
\* of the two threads of the server.
NoDoubleBooking ==
  \A i, j \in 1..Len(reservations) :
    ( /\ i # j
      /\ reservations[i].spot = reservations[j].spot
      /\ reservations[i].status = "confirmed"
      /\ reservations[j].status = "confirmed" )
    => ~Overlaps(reservations[i].window, reservations[j].window)

\* Every reservation is of a user with a committed account, also when several
\* first bookings of the same new user race (the foreign key on user_id).
BookedUsersExist ==
  \A i \in 1..Len(reservations) : reservations[i].user \in users

\* A cancellation about to be committed is still the owner's, whatever
\* happened between the read and the commit.
CancelsAreOwned ==
  \A w \in Workers : pc[w] = "cancel" =>
    reservations[req[w].target].user = req[w].user

\* A spot is marked reserved only on account of a committed reservation row
\* (perhaps cancelled since): no failed request leaves a spot marked.
ReservedIsBooked ==
  \A s \in Spots : status[s] = "reserved" =>
    \E i \in 1..Len(reservations) : reservations[i].spot = s

\* The rows evolve as the ledger allows, with the pool's size as capacity.
Ledger == INSTANCE ReservationLedger WITH Capacity <- Cardinality(Workers)
RefinesLedger == Ledger!LedgerSpec
=============================================================================
