----------------------------- MODULE ContextKey -----------------------------
(***************************************************************************)
(* The context of a price: time of day, type of day and occupancy, and the *)
(* keys for which a lot is seeded with arms.  Hours count from midnight,   *)
(* days from Monday, and occupancy is in percent.                          *)
(***************************************************************************)
EXTENDS Naturals

Hours == 0..23
Days == 0..6
Rates == 0..100

TimeOfDay == {"morning", "afternoon", "evening", "night"}
DayType == {"weekday", "weekend"}
Occupancy == {"low", "medium", "high"}

\* ALL_CONTEXT_KEYS
ContextKeys == [time: TimeOfDay, day: DayType, occupancy: Occupancy]

\* Mutant of TimeBucket: the evening's label is another one.
TimeBucketLate(hour) ==
  CASE hour \in 6..10 -> "morning"
    [] hour \in 11..15 -> "afternoon"
    [] hour \in 16..20 -> "late"
    [] OTHER -> "night"

TimeBucket(hour) ==
  CASE hour \in 6..10 -> "morning"
    [] hour \in 11..15 -> "afternoon"
    [] hour \in 16..20 -> "evening"
    [] OTHER -> "night"

DayTypeOf(day) == IF day >= 5 THEN "weekend" ELSE "weekday"

OccupancyBucket(rate) ==
  CASE rate < 30 -> "low"
    [] rate \in 30..70 -> "medium"
    [] OTHER -> "high"

\* build_context_key
BuildContextKey(hour, day, rate) ==
  [time |-> TimeBucket(hour), day |-> DayTypeOf(day), occupancy |-> OccupancyBucket(rate)]
=============================================================================
