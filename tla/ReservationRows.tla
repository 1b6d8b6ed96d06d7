-------------------------- MODULE ReservationRows --------------------------
(***************************************************************************)
(* The rows of inventory.reservations and the questions the service asks   *)
(* of them.  Time is counted in slots of one hour; a window is the         *)
(* half-open interval [start, end) a reservation covers.  Row i of a       *)
(* sequence of rows is the row whose reservation_id is i.                  *)
(***************************************************************************)
EXTENDS Naturals, Sequences

CONSTANTS Users, Spots, Windows

\* "expired" and "completed" are declared too, but no code writes them.
ReservationStatus == {"confirmed", "cancelled"}

Reservation == [spot: Spots, user: Users, window: Windows,
                status: ReservationStatus]

\* Instant t lies in window w.
Covers(w, t) == w.start <= t /\ t < w.end

\* reserve_spot refuses a window that is empty or ends before it starts.
ValidWindow(w) == w.start < w.end

\* Mutants of Overlaps: only a window inside the other; a wrong bound.
OverlapsInside(w, v) == w.end >= v.end /\ w.start <= v.start
OverlapsOneSided(w, v) == w.end > v.end /\ w.start < v.end

\* The two inequalities of the overlap query.
Overlaps(w, v) == w.end > v.start /\ w.start < v.end

\* The confirmed rows that hold spot s at instant t.
ConfirmedAt(rows, s, t) ==
  {i \in 1..Len(rows) : /\ rows[i].spot = s
                        /\ rows[i].status = "confirmed"
                        /\ Covers(rows[i].window, t)}

\* The confirmed rows of spot s that the overlap query returns for window w.
Conflicts(rows, s, w) ==
  {i \in 1..Len(rows) : /\ rows[i].spot = s
                        /\ rows[i].status = "confirmed"
                        /\ Overlaps(rows[i].window, w)}

\* UNIQUE (spot_id, start_time, end_time): it counts rows of every status.
KeyFree(rows, s, w) ==
  \A i \in 1..Len(rows) : ~(rows[i].spot = s /\ rows[i].window = w)
=============================================================================
