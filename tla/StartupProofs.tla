--------------------------- MODULE StartupProofs ---------------------------
(***************************************************************************)
(* Proofs about Startup, for any number of processes, lots and attempts.   *)
(***************************************************************************)
EXTENDS Startup, TLAPS

-----------------------------------------------------------------------------
(* Context keys *)

\* The keys that build_context_key builds are keys the seed script inserts
\* (bandit.py:84-111): the cases of the buckets leave no gap.
LEMMA KeysAreSeeded == AskedKeys \subseteq ContextKeys
<1> SUFFICES ASSUME NEW hour \in Hours, NEW day \in Days, NEW rate \in Rates
             PROVE  BuildContextKey(hour, day, rate) \in ContextKeys
  BY DEF AskedKeys
<1>1. TimeBucket(hour) \in TimeOfDay
  BY DEF TimeBucket, TimeOfDay, Hours
<1>2. DayTypeOf(day) \in DayType
  BY DEF DayTypeOf, DayType
<1>3. OccupancyBucket(rate) \in Occupancy
  BY DEF OccupancyBucket, Occupancy, Rates
<1> QED
  BY <1>1, <1>2, <1>3 DEF BuildContextKey, ContextKeys

\* A seeder that is not finished is at one of the lots.
LEMMA LotIsOne ==
  ASSUME NEW s \in Seeders, StartupTypeOK, ~Finished(s)
  PROVE  inserted[s].next \in 1..Len(Lots) /\ Lot(s) \in LotSet
<1>1. inserted[s] \in Transaction
  BY DEF StartupTypeOK
<1>2. Len(Lots) \in Nat
  BY StartupAssumption
<1>3. inserted[s].next \in 1..Len(Lots)
  BY <1>1, <1>2 DEF Transaction, Finished
<1> QED
  BY <1>3 DEF Lot, LotSet

-----------------------------------------------------------------------------
(* Types *)

Places == Initializing \cup Seeding \cup Ended \cup {"idle", "ready"}

\* Where the processes are, as StartupTypeOK states it.
AtOK ==
  /\ at \in [Actors -> Places]
  /\ \A t \in Threads : at[t] \notin Seeding \cup Ended
  /\ \A s \in Seeders : at[s] \notin {"idle", "ready"}

\* A step of one process that keeps to its kind of places.
LEMMA GoToOK ==
  ASSUME StartupTypeOK, NEW a \in Actors, NEW step \in Places, GoTo(a, step),
         a \in Threads => step \notin Seeding \cup Ended,
         a \in Seeders => step \notin {"idle", "ready"}
  PROVE  AtOK'
<1>1. at' \in [Actors -> Places]
  BY DEF GoTo, StartupTypeOK, Places
<1>2. \A b \in Actors : at'[b] = IF b = a THEN step ELSE at[b]
  BY DEF GoTo, StartupTypeOK
<1>3. Threads \subseteq Actors /\ Seeders \subseteq Actors
  BY DEF Actors
<1> QED
  BY <1>1, <1>2, <1>3 DEF AtOK, StartupTypeOK

LEMMA AttemptFailsOK ==
  ASSUME StartupTypeOK, NEW a \in Actors, AttemptFails(a)
  PROVE  AtOK' /\ attempt' \in [Actors -> 1..MaxAttempts]
<1>0. /\ attempt \in [Actors -> 1..MaxAttempts] /\ MaxAttempts \in Nat
      /\ a \in Threads => a \notin Seeders
  BY StartupAssumption DEF StartupTypeOK
<1>1. CASE attempt[a] < MaxAttempts
  <2>1. GoTo(a, "schema?") /\ attempt' = [attempt EXCEPT ![a] = @ + 1]
    BY <1>1 DEF AttemptFails
  <2>2. AtOK'
    BY <2>1, GoToOK DEF Places, Initializing, Seeding, Ended
  <2>3. attempt[a] + 1 \in 1..MaxAttempts
    BY <1>0, <1>1
  <2> QED
    BY <1>0, <2>1, <2>2, <2>3
<1>2. CASE ~(attempt[a] < MaxAttempts)
  <2>1. GoTo(a, IF a \in Threads THEN "idle" ELSE "failed") /\ attempt' = attempt
    BY <1>2 DEF AttemptFails
  <2>2. CASE a \in Threads
    BY <1>0, <2>1, <2>2, GoToOK DEF Places, Seeding, Ended
  <2>3. CASE a \notin Threads
    <3>1. GoTo(a, "failed")
      BY <2>1, <2>3
    <3>2. AtOK'
      BY <3>1, <2>3, GoToOK DEF Places, Ended
    <3> QED
      BY <1>0, <2>1, <3>2
  <2> QED
    BY <2>2, <2>3
<1> QED
  BY <1>1, <1>2

LEMMA InitializedOK ==
  ASSUME StartupTypeOK, NEW a \in Actors, Initialized(a)
  PROVE  AtOK' /\ initialized' \in BOOLEAN
<1>0. a \in Threads => a \notin Seeders
  BY StartupAssumption
<1>1. CASE a \in Threads
  <2>1. GoTo(a, "ready")
    BY <1>1 DEF Initialized
  <2>2. AtOK'
    BY <1>0, <1>1, <2>1, GoToOK DEF Places, Seeding, Ended
  <2> QED
    BY <2>2 DEF Initialized, StartupTypeOK
<1>2. CASE a \notin Threads
  <2>1. GoTo(a, "look")
    BY <1>2 DEF Initialized
  <2>2. AtOK'
    BY <1>2, <2>1, GoToOK DEF Places, Seeding
  <2> QED
    BY <2>2 DEF Initialized, StartupTypeOK
<1> QED
  BY <1>1, <1>2

\* A step of the initialization.
LEMMA InitializeTyped ==
  ASSUME StartupTypeOK, NEW a \in Actors, Initialize(a)
  PROVE  StartupTypeOK'
<1> USE DEF rows
<1>1. CASE Unreachable(a)
  <2>1. AtOK' /\ attempt' \in [Actors -> 1..MaxAttempts]
    BY <1>1, AttemptFailsOK DEF Unreachable
  <2> QED
    BY <1>1, <2>1 DEF Unreachable, StartupTypeOK, AtOK, Places
<1>2. CASE AskSchema(a)
  <2>1. GoTo(a, IF schema THEN "tables?" ELSE "schema!")
    BY <1>2 DEF AskSchema
  <2>2. AtOK'
    BY <2>1, GoToOK DEF Places, Initializing, Seeding, Ended
  <2> QED
    BY <1>2, <2>2 DEF AskSchema, StartupTypeOK, AtOK, Places
<1>3. CASE MakeSchema(a)
  <2>1. CASE schema
    <3>1. AtOK' /\ attempt' \in [Actors -> 1..MaxAttempts]
      BY <1>3, <2>1, AttemptFailsOK DEF MakeSchema
    <3>2. conflicts' \in [Actors -> Nat]
      BY <1>3, <2>1 DEF MakeSchema, StartupTypeOK
    <3> QED
      BY <1>3, <3>1, <3>2 DEF MakeSchema, StartupTypeOK, AtOK, Places
  <2>2. CASE ~schema
    <3>1. GoTo(a, "tables?")
      BY <1>3, <2>2 DEF MakeSchema
    <3>2. AtOK'
      BY <3>1, GoToOK DEF Places, Initializing, Seeding, Ended
    <3> QED
      BY <1>3, <2>2, <3>2 DEF MakeSchema, StartupTypeOK, AtOK, Places
  <2> QED
    BY <2>1, <2>2
<1>4. CASE AskTables(a)
  <2>1. AtOK' /\ initialized' \in BOOLEAN
    <3>1. CASE tables
      BY <1>4, <3>1, InitializedOK DEF AskTables
    <3>2. CASE ~tables
      <4>1. GoTo(a, "tables!") /\ initialized' = initialized
        BY <1>4, <3>2 DEF AskTables
      <4> QED
        BY <4>1, GoToOK DEF Places, Initializing, Seeding, Ended, StartupTypeOK
    <3> QED
      BY <3>1, <3>2
  <2> QED
    BY <1>4, <2>1 DEF AskTables, StartupTypeOK, AtOK, Places
<1>5. CASE MakeTables(a)
  <2>1. CASE tables
    <3>1. AtOK' /\ attempt' \in [Actors -> 1..MaxAttempts]
      BY <1>5, <2>1, AttemptFailsOK DEF MakeTables
    <3>2. conflicts' \in [Actors -> Nat]
      BY <1>5, <2>1 DEF MakeTables, StartupTypeOK
    <3> QED
      BY <1>5, <2>1, <3>1, <3>2 DEF MakeTables, StartupTypeOK, AtOK, Places
  <2>2. CASE ~tables
    <3>1. AtOK' /\ initialized' \in BOOLEAN
      BY <1>5, <2>2, InitializedOK DEF MakeTables
    <3> QED
      BY <1>5, <2>2, <3>1 DEF MakeTables, StartupTypeOK, AtOK, Places
  <2> QED
    BY <2>1, <2>2
<1> QED
  BY <1>1, <1>2, <1>3, <1>4, <1>5 DEF Initialize

\* A step of a seed script.
LEMMA SeedTyped ==
  ASSUME StartupTypeOK, NEW s \in Seeders, at[s] = "insert" => ~Finished(s),
         Seed(s) \/ SeedFails(s)
  PROVE  StartupTypeOK'
<1>0. s \in Actors /\ s \notin Threads /\ inserted \in [Seeders -> Transaction]
  BY StartupAssumption DEF Actors, StartupTypeOK
<1>a. /\ Len(Lots) \in Nat
      /\ inserted[s] \in Transaction
      /\ inserted[s].next \in 1..Len(Lots) + 1 /\ inserted[s].new \subseteq LotSet
  BY <1>0, StartupAssumption DEF Transaction
<1>b. NoTransaction \in Transaction
  BY <1>a DEF NoTransaction, Transaction
<1>c. ASSUME NEW step \in Ended, Rollback(s, step)
      PROVE  AtOK' /\ inserted' \in [Seeders -> Transaction]
  <2>1. AtOK'
    BY <1>0, <1>c, GoToOK DEF Rollback, Places, Ended
  <2> QED
    BY <1>0, <1>b, <1>c, <2>1 DEF Rollback
<1>1. CASE LookLot(s)
  <2>1. CASE arms[Lot(s)] # {}
    <3>1. inserted' = [inserted EXCEPT ![s].next = @ + 1] /\ at' = at
      BY <1>1, <2>1 DEF LookLot
    <3>2. inserted[s].next + 1 \in 1..Len(Lots) + 1
      BY <1>1, <1>a DEF LookLot, Finished
    <3>3. [inserted[s] EXCEPT !.next = @ + 1] \in Transaction
      BY <1>a, <3>2 DEF Transaction
    <3>4. inserted' \in [Seeders -> Transaction]
      BY <1>0, <3>1, <3>3
    <3> QED
      BY <1>1, <3>1, <3>4 DEF LookLot, StartupTypeOK
  <2>2. CASE ~(arms[Lot(s)] # {})
    <3>1. GoTo(s, "insert") /\ inserted' = inserted
      BY <1>1, <2>2 DEF LookLot
    <3>2. AtOK'
      BY <1>0, <3>1, GoToOK DEF Places, Seeding
    <3> QED
      BY <1>1, <3>1, <3>2 DEF LookLot, StartupTypeOK, AtOK, Places
  <2> QED
    BY <2>1, <2>2
<1>2. CASE InsertLot(s)
  <2>1. CASE arms[Lot(s)] # {}
    <3>1. Rollback(s, "lost")
      BY <1>2, <2>1 DEF InsertLot
    <3>2. AtOK' /\ inserted' \in [Seeders -> Transaction]
      BY <1>c, <3>1 DEF Ended
    <3> QED
      BY <1>2, <3>2 DEF InsertLot, StartupTypeOK, AtOK, Places
  <2>2. CASE ~(arms[Lot(s)] # {})
    <3>1. /\ inserted' = [inserted EXCEPT ![s] = [next |-> @.next + 1,
                                                  new |-> @.new \cup {Lot(s)}]]
          /\ GoTo(s, "look")
      BY <1>2, <2>2 DEF InsertLot
    <3>2. AtOK'
      BY <1>0, <3>1, GoToOK DEF Places, Seeding
    <3>3. inserted' \in [Seeders -> Transaction]
      <4>0. ~Finished(s)
        BY <1>2 DEF InsertLot
      <4>1. inserted[s].next + 1 \in 1..Len(Lots) + 1 /\ Lot(s) \in LotSet
        BY <1>a, <4>0, LotIsOne
      <4>2. [next |-> inserted[s].next + 1, new |-> inserted[s].new \cup {Lot(s)}]
              \in Transaction
        BY <1>a, <4>1 DEF Transaction
      <4> QED
        BY <1>0, <3>1, <4>2
    <3> QED
      BY <1>2, <3>2, <3>3 DEF InsertLot, StartupTypeOK, AtOK, Places
  <2> QED
    BY <2>1, <2>2
<1>3. CASE CommitSeed(s)
  <2>1. AtOK' /\ inserted' \in [Seeders -> Transaction]
    BY <1>3, <1>c DEF CommitSeed, Ended
  <2>2. arms' \in [LotSet -> SUBSET ContextKeys]
    BY <1>3 DEF CommitSeed, StartupTypeOK
  <2> QED
    BY <1>3, <2>1, <2>2 DEF CommitSeed, StartupTypeOK, AtOK, Places
<1>4. CASE SeedFails(s)
  <2>1. AtOK' /\ inserted' \in [Seeders -> Transaction]
    BY <1>4, <1>c DEF SeedFails, Ended
  <2> QED
    BY <1>4, <2>1 DEF SeedFails, StartupTypeOK, AtOK, Places
<1> QED
  BY <1>1, <1>2, <1>3, <1>4 DEF Seed

\* The steps of requests and of the database.
LEMMA OthersTyped ==
  ASSUME StartupTypeOK,
         \/ \E t \in Threads :
              \/ Request(t)
              \/ \E l \in LotSet, key \in AskedKeys : SelectPrice(t, l, key)
         \/ DatabaseStarts
         \/ DatabaseStops
  PROVE  StartupTypeOK'
<1> USE DEF rows
<1>0. /\ MaxAttempts \in Nat \ {0} /\ MaxRequests \in Nat /\ MaxOutages \in Nat
      /\ \A t \in Threads : t \in Actors /\ t \notin Seeders
  BY StartupAssumption DEF Actors
<1>1. ASSUME NEW t \in Threads, Request(t)
      PROVE  StartupTypeOK'
  <2>1. GoTo(t, IF initialized THEN "ready" ELSE "schema?")
    BY <1>1 DEF Request
  <2>2. AtOK'
    BY <1>0, <2>1, GoToOK DEF Places, Initializing, Seeding, Ended
  <2>3. /\ attempt' \in [Actors -> 1..MaxAttempts]
        /\ conflicts' \in [Actors -> Nat]
        /\ requests' \in 0..MaxRequests
    BY <1>0, <1>1 DEF Request, StartupTypeOK
  <2> QED
    BY <1>1, <2>2, <2>3 DEF Request, StartupTypeOK, AtOK, Places
<1>2. ASSUME NEW t \in Threads, NEW l \in LotSet, NEW key \in AskedKeys,
             SelectPrice(t, l, key)
      PROVE  StartupTypeOK'
  <2>1. GoTo(t, "idle")
    BY <1>2 DEF SelectPrice
  <2>2. AtOK'
    BY <1>0, <2>1, GoToOK DEF Places, Seeding, Ended
  <2>3. asked' \in Answer
    BY <1>2 DEF SelectPrice, Answer
  <2> QED
    BY <1>2, <2>2, <2>3 DEF SelectPrice, StartupTypeOK, AtOK, Places
<1>3. CASE DatabaseStarts
  BY <1>3 DEF DatabaseStarts, StartupTypeOK
<1>4. CASE DatabaseStops
  <2>1. outages' \in 0..MaxOutages
    BY <1>0, <1>4 DEF DatabaseStops, StartupTypeOK
  <2>2. NoTransaction \in Transaction
    <3>1. Len(Lots) \in Nat
      BY StartupAssumption
    <3> QED
      BY <3>1 DEF NoTransaction, Transaction
  <2>3. inserted' \in [Seeders -> Transaction]
    BY <1>4, <2>2 DEF DatabaseStops
  <2>4. /\ at' \in [Actors -> Places]
        /\ \A a \in Actors : at'[a] \in {at[a], "failed", "idle", "broken"}
        /\ \A a \in Actors : at'[a] = "failed" => at[a] \in Seeding \cup {"failed"}
        /\ \A a \in Actors : at'[a] = "idle" => at[a] \in {"ready", "idle"}
    BY <1>4 DEF DatabaseStops, StartupTypeOK, Places, Initializing, Seeding, Ended
  <2>5. AtOK'
    <3>1. ASSUME NEW t \in Threads
          PROVE  at'[t] \notin Seeding \cup Ended
      BY <1>0, <2>4 DEF StartupTypeOK, Seeding, Ended
    <3>2. ASSUME NEW s \in Seeders
          PROVE  at'[s] \notin {"idle", "ready"}
      BY <2>4 DEF StartupTypeOK, Actors
    <3> QED
      BY <2>4, <3>1, <3>2 DEF AtOK
  <2> QED
    BY <1>4, <2>1, <2>3, <2>5 DEF DatabaseStops, StartupTypeOK, AtOK, Places
<1> QED
  BY <1>1, <1>2, <1>3, <1>4

-----------------------------------------------------------------------------
(* Races for the schema and the tables *)

\* A conflict shows that the schema exists, two that the tables do, and who
\* found that one of them was missing has not met with a conflict about it.
RaceInv ==
  \A a \in Actors :
    /\ conflicts[a] <= 2
    /\ conflicts[a] >= 1 => schema
    /\ conflicts[a] = 2 => tables
    /\ at[a] = "schema!" => conflicts[a] = 0
    /\ at[a] \in {"tables?", "tables!"} => schema
    /\ at[a] = "tables!" => conflicts[a] <= 1

\* Nothing in RaceInv of process b changes for the worse.
LEMMA RaceKept ==
  ASSUME StartupTypeOK, RaceInv, NEW b \in Actors,
         conflicts'[b] = conflicts[b] \/ conflicts'[b] = 0,
         schema => schema', tables => tables',
         at'[b] \in {"schema!", "tables?", "tables!"} => at'[b] = at[b]
  PROVE  /\ conflicts'[b] <= 2
         /\ conflicts'[b] >= 1 => schema'
         /\ conflicts'[b] = 2 => tables'
         /\ at'[b] = "schema!" => conflicts'[b] = 0
         /\ at'[b] \in {"tables?", "tables!"} => schema'
         /\ at'[b] = "tables!" => conflicts'[b] <= 1
<1>1. conflicts[b] \in Nat
  BY DEF StartupTypeOK
<1> QED
  BY <1>1 DEF RaceInv

LEMMA RaceStep ==
  ASSUME StartupTypeOK, RaceInv, StartupNext
  PROVE  RaceInv'
<1> USE DEF rows
<1>0. /\ at \in [Actors -> Places] /\ conflicts \in [Actors -> Nat]
      /\ Threads \subseteq Actors /\ Seeders \subseteq Actors
  BY DEF StartupTypeOK, Places, Actors
<1>g. ASSUME NEW a \in Actors, NEW step, GoTo(a, step)
      PROVE  at' = [b \in Actors |-> IF b = a THEN step ELSE at[b]]
  BY <1>0, <1>g DEF GoTo
<1>f. ASSUME NEW a \in Actors, AttemptFails(a)
      PROVE  /\ \A b \in Actors : b # a => at'[b] = at[b]
             /\ at'[a] \notin {"schema!", "tables?", "tables!"}
  BY <1>f, <1>g DEF AttemptFails
<1>i. ASSUME NEW a \in Actors, Initialized(a)
      PROVE  /\ \A b \in Actors : b # a => at'[b] = at[b]
             /\ at'[a] \notin {"schema!", "tables?", "tables!"}
  BY <1>i, <1>g DEF Initialized
<1>1. ASSUME NEW a \in Actors, Unreachable(a)
      PROVE  RaceInv'
  <2>1. /\ schema' = schema /\ tables' = tables /\ conflicts' = conflicts
        /\ AttemptFails(a)
    BY <1>1 DEF Unreachable
  <2>2. \A b \in Actors :
          at'[b] \in {"schema!", "tables?", "tables!"} => at'[b] = at[b]
    BY <2>1, <1>f
  <2> QED
    BY <2>1, <2>2, RaceKept DEF RaceInv
<1>2. ASSUME NEW a \in Actors, AskSchema(a)
      PROVE  RaceInv'
  <2>1. /\ schema' = schema /\ tables' = tables /\ conflicts' = conflicts
        /\ at' = [b \in Actors |-> IF b = a THEN IF schema THEN "tables?" ELSE "schema!"
                                   ELSE at[b]]
    BY <1>2, <1>g DEF AskSchema
  <2> QED
    BY <1>0, <2>1 DEF RaceInv
<1>3. ASSUME NEW a \in Actors, MakeSchema(a)
      PROVE  RaceInv'
  <2>0. schema' = TRUE /\ tables' = tables /\ at[a] = "schema!" /\ conflicts[a] = 0
    BY <1>3 DEF MakeSchema, RaceInv
  <2>1. CASE schema
    <3>1. /\ AttemptFails(a)
          /\ conflicts' = [conflicts EXCEPT ![a] = @ + 1]
      BY <1>3, <2>1 DEF MakeSchema
    <3>2. /\ \A b \in Actors : b # a => at'[b] = at[b] /\ conflicts'[b] = conflicts[b]
          /\ at'[a] \notin {"schema!", "tables?", "tables!"}
          /\ conflicts'[a] = 1
      BY <1>0, <1>f, <2>0, <3>1
    <3> QED
      BY <1>0, <2>0, <2>1, <3>2 DEF RaceInv
  <2>2. CASE ~schema
    <3>1. /\ at' = [b \in Actors |-> IF b = a THEN "tables?" ELSE at[b]]
          /\ conflicts' = conflicts
      BY <1>3, <1>g, <2>2 DEF MakeSchema
    <3> QED
      BY <1>0, <2>0, <3>1 DEF RaceInv
  <2> QED
    BY <2>1, <2>2
<1>4. ASSUME NEW a \in Actors, AskTables(a)
      PROVE  RaceInv'
  <2>0. /\ schema' = schema /\ tables' = tables /\ conflicts' = conflicts
        /\ at[a] = "tables?" /\ schema
    BY <1>4 DEF AskTables, RaceInv
  <2>1. CASE tables
    <3>1. Initialized(a)
      BY <1>4, <2>1 DEF AskTables
    <3>2. \A b \in Actors :
            at'[b] \in {"schema!", "tables?", "tables!"} => at'[b] = at[b]
      BY <3>1, <1>i
    <3> QED
      BY <2>0, <3>2, RaceKept DEF RaceInv
  <2>2. CASE ~tables
    <3>1. at' = [b \in Actors |-> IF b = a THEN "tables!" ELSE at[b]]
      BY <1>4, <1>g, <2>2 DEF AskTables
    <3> QED
      BY <1>0, <2>0, <2>2, <3>1 DEF RaceInv
  <2> QED
    BY <2>1, <2>2
<1>5. ASSUME NEW a \in Actors, MakeTables(a)
      PROVE  RaceInv'
  <2>0. /\ tables' = TRUE /\ schema' = schema /\ at[a] = "tables!"
        /\ schema /\ conflicts[a] <= 1
    BY <1>5 DEF MakeTables, RaceInv
  <2>1. CASE tables
    <3>1. /\ AttemptFails(a)
          /\ conflicts' = [conflicts EXCEPT ![a] = @ + 1]
      BY <1>5, <2>1 DEF MakeTables
    <3>2. /\ \A b \in Actors : b # a => at'[b] = at[b] /\ conflicts'[b] = conflicts[b]
          /\ at'[a] \notin {"schema!", "tables?", "tables!"}
          /\ conflicts'[a] = conflicts[a] + 1
      BY <1>0, <1>f, <3>1
    <3> QED
      BY <1>0, <2>0, <2>1, <3>2 DEF RaceInv
  <2>2. CASE ~tables
    <3>1. Initialized(a) /\ conflicts' = conflicts
      BY <1>5, <2>2 DEF MakeTables
    <3>2. \A b \in Actors :
            at'[b] \in {"schema!", "tables?", "tables!"} => at'[b] = at[b]
      BY <3>1, <1>i
    <3> QED
      BY <2>0, <3>1, <3>2, RaceKept DEF RaceInv
  <2> QED
    BY <2>1, <2>2
<1>6. ASSUME NEW t \in Threads, Request(t)
      PROVE  RaceInv'
  <2>1. /\ schema' = schema /\ tables' = tables
        /\ conflicts' = [conflicts EXCEPT ![t] = 0]
        /\ at' = [b \in Actors |-> IF b = t
                                     THEN IF initialized THEN "ready" ELSE "schema?"
                                     ELSE at[b]]
    BY <1>0, <1>6, <1>g DEF Request
  <2> QED
    BY <1>0, <2>1 DEF RaceInv
<1>7. ASSUME NEW a \in Actors, NEW step, GoTo(a, step),
             step \notin {"schema!", "tables?", "tables!"},
             schema' = schema, tables' = tables, conflicts' = conflicts
      PROVE  RaceInv'
  <2>1. \A b \in Actors :
          at'[b] \in {"schema!", "tables?", "tables!"} => at'[b] = at[b]
    BY <1>7, <1>g
  <2> QED
    BY <1>7, <2>1, RaceKept DEF RaceInv
<1>8. ASSUME NEW t \in Threads, NEW l \in LotSet, NEW key \in AskedKeys,
             SelectPrice(t, l, key)
      PROVE  RaceInv'
  BY <1>0, <1>7, <1>8 DEF SelectPrice
<1>9. ASSUME NEW s \in Seeders, Seed(s) \/ SeedFails(s)
      PROVE  RaceInv'
  <2>0. schema' = schema /\ tables' = tables /\ conflicts' = conflicts
    BY <1>9 DEF Seed, LookLot, InsertLot, CommitSeed, SeedFails
  <2>1. \/ at' = at
        \/ GoTo(s, "insert") \/ GoTo(s, "look") \/ GoTo(s, "lost")
        \/ GoTo(s, "seeded") \/ GoTo(s, "failed")
    BY <1>9 DEF Seed, LookLot, InsertLot, CommitSeed, SeedFails, Rollback
  <2>2. CASE at' = at
    BY <2>0, <2>2, RaceKept DEF RaceInv
  <2> QED
    BY <1>0, <1>7, <2>0, <2>1, <2>2
<1>10. CASE DatabaseStarts
  BY <1>10, RaceKept DEF DatabaseStarts, RaceInv
<1>11. CASE DatabaseStops
  <2>1. /\ schema' = schema /\ tables' = tables /\ conflicts' = conflicts
        /\ \A b \in Actors :
             at'[b] \in {"schema!", "tables?", "tables!"} => at'[b] = at[b]
    BY <1>0, <1>11 DEF DatabaseStops
  <2> QED
    BY <2>1, RaceKept DEF RaceInv
<1> QED
  BY <1>1, <1>2, <1>3, <1>4, <1>5, <1>6, <1>8, <1>9, <1>10, <1>11
     DEF StartupNext, Initialize

-----------------------------------------------------------------------------
(* Seeding *)

AllEmpty == \A l \in LotSet : arms[l] = {}
AllSeeded == \A l \in LotSet : arms[l] = ContextKeys

\* Seeder s has added, or found, every lot before the one it is at.
Covered(s) ==
  \A i \in 1..Len(Lots) :
    i < inserted[s].next => Lots[i] \in inserted[s].new \/ arms[Lots[i]] = ContextKeys

\* The lots become visible together.
SeedInv ==
  /\ AllEmpty \/ AllSeeded
  /\ \A s \in Seeders :
       /\ Covered(s)
       /\ at[s] = "insert" => ~Finished(s)
       /\ at[s] = "lost" => AllSeeded
  /\ asked # "no arms"

\* A step that leaves the rows of seeder s and the lots alone.
LEMMA SeedKept ==
  ASSUME StartupTypeOK, SeedInv, NEW s \in Seeders,
         inserted'[s] = inserted[s] \/ inserted'[s] = NoTransaction, arms' = arms,
         at'[s] = at[s] \/ at'[s] \notin {"insert", "lost"}
  PROVE  /\ Covered(s)'
         /\ at'[s] = "insert" => ~(inserted[s].next > Len(Lots)) /\ at[s] = "insert"
         /\ at'[s] = "lost" => AllSeeded'
<1>1. NoTransaction.next = 1
  BY DEF NoTransaction
<1>2. Covered(s)'
  <2>1. CASE inserted'[s] = inserted[s]
    BY <2>1 DEF SeedInv, Covered
  <2>2. CASE inserted'[s] = NoTransaction
    BY <1>1, <2>2 DEF Covered
  <2> QED
    BY <2>1, <2>2
<1> QED
  BY <1>2 DEF SeedInv, AllSeeded, Finished

\* A step that leaves all transactions and the lots alone.
LEMMA SeedUntouched ==
  ASSUME StartupTypeOK, SeedInv, inserted' = inserted, arms' = arms,
         asked' # "no arms",
         \A s \in Seeders : at'[s] = at[s] \/ at'[s] \notin {"insert", "lost"}
  PROVE  SeedInv'
<1>1. ASSUME NEW s \in Seeders
      PROVE  /\ Covered(s)'
             /\ at'[s] = "insert" => ~Finished(s)'
             /\ at'[s] = "lost" => AllSeeded'
  BY <1>1, SeedKept DEF Finished
<1>2. (AllEmpty \/ AllSeeded)'
  BY DEF SeedInv, AllEmpty, AllSeeded
<1> QED
  BY <1>1, <1>2 DEF SeedInv

\* A step of seeder s that leaves the lots alone.
LEMMA OneSeeds ==
  ASSUME StartupTypeOK, SeedInv, NEW s \in Seeders,
         arms' = arms, asked' = asked,
         \A o \in Seeders \ {s} : inserted'[o] = inserted[o] /\ at'[o] = at[o],
         Covered(s)',
         at'[s] = "insert" => ~Finished(s)',
         at'[s] = "lost" => AllSeeded
  PROVE  SeedInv'
<1>1. ASSUME NEW o \in Seeders
      PROVE  /\ Covered(o)'
             /\ at'[o] = "insert" => ~Finished(o)'
             /\ at'[o] = "lost" => AllSeeded'
  <2>1. CASE o = s
    BY <2>1 DEF AllSeeded
  <2>2. CASE o # s
    BY <2>2, SeedKept DEF Finished
  <2> QED
    BY <2>1, <2>2
<1>2. (AllEmpty \/ AllSeeded)'
  BY DEF SeedInv, AllEmpty, AllSeeded
<1> QED
  BY <1>1, <1>2 DEF SeedInv

\* Where a step leaves a process and its transaction.
LEMMA Moves ==
  ASSUME StartupTypeOK
  PROVE  /\ \A a \in Actors : \A step : GoTo(a, step) =>
              \A b \in Actors : at'[b] = IF b = a THEN step ELSE at[b]
         /\ \A s \in Seeders : \A step : Rollback(s, step) =>
              /\ GoTo(s, step)
              /\ \A o \in Seeders :
                   inserted'[o] = IF o = s THEN NoTransaction ELSE inserted[o]
  BY DEF StartupTypeOK, GoTo, Rollback

LEMMA SeedStep ==
  ASSUME StartupTypeOK, SeedInv, StartupNext
  PROVE  SeedInv'
<1> USE DEF rows
<1>0. /\ Threads \subseteq Actors /\ Seeders \subseteq Actors
      /\ \A t \in Threads : t \notin Seeders
      /\ NoTransaction.next = 1
  BY StartupAssumption DEF Actors, NoTransaction
<1>1. ASSUME NEW a \in Actors, Initialize(a)
      PROVE  SeedInv'
  <2>1. inserted' = inserted /\ arms' = arms /\ asked' = asked
    BY <1>1 DEF Initialize, Unreachable, AskSchema, MakeSchema, AskTables, MakeTables
  <2>2. PICK step : GoTo(a, step) /\ step \notin {"insert", "lost"}
    BY <1>1 DEF Initialize, Unreachable, AskSchema, MakeSchema, AskTables, MakeTables,
                AttemptFails, Initialized
  <2>3. \A s \in Seeders : at'[s] = at[s] \/ at'[s] \notin {"insert", "lost"}
    BY <1>0, <2>2, Moves
  <2> QED
    BY <2>1, <2>3, SeedUntouched DEF SeedInv
<1>2. ASSUME NEW t \in Threads, Request(t)
      PROVE  SeedInv'
  <2>1. GoTo(t, IF initialized THEN "ready" ELSE "schema?")
    BY <1>2 DEF Request
  <2>2. \A s \in Seeders : at'[s] = at[s]
    BY <1>0, <2>1, Moves
  <2> QED
    BY <1>2, <2>2, SeedUntouched DEF Request, SeedInv
<1>3. ASSUME NEW t \in Threads, NEW l \in LotSet, NEW key \in AskedKeys,
             SelectPrice(t, l, key)
      PROVE  SeedInv'
  <2>1. \A s \in Seeders : at'[s] = at[s]
    <3>1. GoTo(t, "idle")
      BY <1>3 DEF SelectPrice
    <3> QED
      BY <1>0, <3>1, Moves
  <2>2. arms[l] = {} \/ key \in arms[l]
    BY KeysAreSeeded DEF SeedInv, AllEmpty, AllSeeded
  <2>3. asked' # "no arms"
    BY <1>3, <2>2 DEF SelectPrice
  <2> QED
    BY <1>3, <2>1, <2>3, SeedUntouched DEF SelectPrice
<1>4. ASSUME NEW s \in Seeders, LookLot(s)
      PROVE  SeedInv'
  <2>0. /\ inserted[s].next \in 1..Len(Lots) /\ Lot(s) \in LotSet
        /\ Len(Lots) \in Nat /\ inserted \in [Seeders -> Transaction]
    <3>1. ~Finished(s)
      BY <1>4 DEF LookLot
    <3> QED
      BY <3>1, LotIsOne, StartupAssumption DEF StartupTypeOK
  <2>1. CASE arms[Lot(s)] # {}
    <3>1. inserted' = [inserted EXCEPT ![s].next = @ + 1] /\ at' = at
      BY <1>4, <2>1 DEF LookLot
    <3>2. /\ inserted'[s].next = inserted[s].next + 1
          /\ inserted'[s].new = inserted[s].new
          /\ \A o \in Seeders \ {s} : inserted'[o] = inserted[o]
      BY <2>0, <3>1 DEF Transaction
    <3>3. arms[Lots[inserted[s].next]] = ContextKeys
      BY <2>0, <2>1 DEF SeedInv, AllEmpty, AllSeeded, Lot
    <3>a. arms' = arms
      BY <1>4 DEF LookLot
    <3>4. Covered(s)'
      <4> SUFFICES ASSUME NEW i \in 1..Len(Lots), i < inserted'[s].next
                   PROVE  Lots[i] \in inserted'[s].new \/ arms'[Lots[i]] = ContextKeys
        BY DEF Covered
      <4>1. i < inserted[s].next \/ i = inserted[s].next
        BY <2>0, <3>2
      <4> QED
        BY <3>a, <3>2, <3>3, <4>1 DEF SeedInv, Covered
    <3>5. at'[s] = "look"
      BY <1>4, <3>1 DEF LookLot
    <3> QED
      BY <1>4, <3>1, <3>2, <3>4, <3>5, OneSeeds DEF LookLot
  <2>2. CASE ~(arms[Lot(s)] # {})
    <3>1. GoTo(s, "insert") /\ inserted' = inserted
      BY <1>4, <2>2 DEF LookLot
    <3>2. at'[s] = "insert" /\ \A o \in Seeders \ {s} : at'[o] = at[o]
      BY <1>0, <3>1, Moves
    <3>3. Covered(s)' /\ ~Finished(s)'
      BY <1>4, <3>1 DEF SeedInv, Covered, LookLot, Finished
    <3> QED
      BY <1>4, <3>1, <3>2, <3>3, OneSeeds DEF LookLot
  <2> QED
    BY <2>1, <2>2
<1>r. ASSUME NEW s \in Seeders, NEW step, Rollback(s, step),
             step \notin {"insert"}, step = "lost" => AllSeeded,
             arms' = arms, asked' = asked
      PROVE  SeedInv'
  <2>1. /\ \A o \in Seeders \ {s} : inserted'[o] = inserted[o] /\ at'[o] = at[o]
        /\ inserted'[s] = NoTransaction /\ at'[s] = step
    BY <1>0, <1>r, Moves
  <2>2. Covered(s)'
    BY <1>0, <2>1 DEF Covered
  <2> QED
    BY <1>r, <2>1, <2>2, OneSeeds
<1>5. ASSUME NEW s \in Seeders, InsertLot(s)
      PROVE  SeedInv'
  <2>1. CASE arms[Lot(s)] # {}
    <3>1. Rollback(s, "lost") /\ arms' = arms /\ asked' = asked
      BY <1>5, <2>1 DEF InsertLot
    <3>2. ~Finished(s)
      BY <1>5 DEF InsertLot, SeedInv
    <3>3. AllSeeded
      BY <2>1, <3>2, LotIsOne DEF SeedInv, AllEmpty
    <3> QED
      BY <1>r, <3>1, <3>3
  <2>2. CASE ~(arms[Lot(s)] # {})
    <3>1. /\ inserted' = [inserted EXCEPT ![s] = [next |-> @.next + 1,
                                                  new |-> @.new \cup {Lot(s)}]]
          /\ GoTo(s, "look") /\ arms' = arms /\ asked' = asked
      BY <1>5, <2>2 DEF InsertLot
    <3>2. /\ inserted'[s].next = inserted[s].next + 1
          /\ inserted'[s].new = inserted[s].new \cup {Lots[inserted[s].next]}
          /\ \A o \in Seeders \ {s} : inserted'[o] = inserted[o]
          /\ inserted[s].next \in Nat
      <4>1. inserted \in [Seeders -> Transaction] /\ Len(Lots) \in Nat
        BY StartupAssumption DEF StartupTypeOK
      <4> QED
        BY <3>1, <4>1 DEF Transaction, Lot
    <3>3. at'[s] = "look" /\ \A o \in Seeders \ {s} : at'[o] = at[o]
      BY <1>0, <3>1, Moves
    <3>4. Covered(s)'
      <4> SUFFICES ASSUME NEW i \in 1..Len(Lots), i < inserted'[s].next
                   PROVE  Lots[i] \in inserted'[s].new \/ arms'[Lots[i]] = ContextKeys
        BY DEF Covered
      <4>1. i < inserted[s].next \/ i = inserted[s].next
        BY <3>2
      <4> QED
        BY <3>1, <3>2, <4>1 DEF SeedInv, Covered
    <3> QED
      BY <3>1, <3>2, <3>3, <3>4, OneSeeds
  <2> QED
    BY <2>1, <2>2
<1>6. ASSUME NEW s \in Seeders, CommitSeed(s)
      PROVE  SeedInv'
  <2>1. /\ \A o \in Seeders :
             inserted'[o] = IF o = s THEN NoTransaction ELSE inserted[o]
        /\ \A o \in Seeders : at'[o] = IF o = s THEN "seeded" ELSE at[o]
    BY <1>0, <1>6, Moves DEF CommitSeed
  <2>2. /\ arms' = [l \in LotSet |-> IF l \in inserted[s].new THEN ContextKeys ELSE arms[l]]
        /\ asked' = asked
    BY <1>6 DEF CommitSeed
  <2>3. \A i \in 1..Len(Lots) : Lots[i] \in inserted[s].new \/ arms[Lots[i]] = ContextKeys
    <3>1. inserted \in [Seeders -> Transaction] /\ Len(Lots) \in Nat
      BY StartupAssumption DEF StartupTypeOK
    <3>2. inserted[s].next > Len(Lots) /\ inserted[s].next \in Nat
      BY <1>6, <3>1 DEF CommitSeed, Finished, Transaction
    <3>3. \A i \in 1..Len(Lots) : i < inserted[s].next
      BY <3>1, <3>2
    <3> QED
      BY <3>3 DEF SeedInv, Covered
  <2>4. AllSeeded'
    BY <2>2, <2>3 DEF AllSeeded, LotSet
  <2>5. ASSUME NEW o \in Seeders
        PROVE  /\ Covered(o)'
               /\ at'[o] = "insert" => ~Finished(o)'
    <3>1. \A i \in 1..Len(Lots) : arms'[Lots[i]] = ContextKeys
      BY <2>4 DEF AllSeeded, LotSet
    <3>2. Covered(o)'
      BY <3>1 DEF Covered
    <3> QED
      BY <2>1, <3>2 DEF SeedInv, Finished
  <2> QED
    BY <2>2, <2>4, <2>5 DEF SeedInv
<1>7. ASSUME NEW s \in Seeders, SeedFails(s)
      PROVE  SeedInv'
  BY <1>7, <1>r DEF SeedFails
<1>8. CASE DatabaseStarts
  BY <1>8, SeedUntouched DEF DatabaseStarts, SeedInv
<1>9. CASE DatabaseStops
  <2>1. /\ \A s \in Seeders : inserted'[s] = NoTransaction
        /\ \A s \in Seeders : at'[s] = at[s] \/ at'[s] \notin {"insert", "lost"}
        /\ arms' = arms /\ asked' = asked
    BY <1>0, <1>9 DEF DatabaseStops
  <2>2. \A s \in Seeders : at'[s] # "insert"
    BY <1>0, <1>9 DEF DatabaseStops, Seeding
  <2>3. ASSUME NEW s \in Seeders
        PROVE  Covered(s)' /\ (at'[s] = "lost" => AllSeeded')
    BY <2>1, SeedKept
  <2>4. (AllEmpty \/ AllSeeded)'
    BY <2>1 DEF SeedInv, AllEmpty, AllSeeded
  <2> QED
    BY <2>1, <2>2, <2>3, <2>4 DEF SeedInv
<1> QED
  BY <1>1, <1>2, <1>3, <1>4, <1>5, <1>6, <1>7, <1>8, <1>9 DEF StartupNext, Seed

-----------------------------------------------------------------------------
(* Theorems *)

StartupInv == StartupTypeOK /\ RaceInv /\ SeedInv

LEMMA StartupInvHolds == StartupSpec => []StartupInv
<1>1. StartupInit => StartupInv
  <2> SUFFICES ASSUME StartupInit
               PROVE  StartupInv
    OBVIOUS
  <2>0. /\ MaxAttempts \in Nat \ {0} /\ MaxRequests \in Nat /\ MaxOutages \in Nat
        /\ Len(Lots) \in Nat
        /\ \A t \in Threads : t \notin Seeders
    BY StartupAssumption
  <2>1. NoTransaction \in Transaction
    BY <2>0 DEF NoTransaction, Transaction
  <2>2. StartupTypeOK
    <3>1. /\ at \in [Actors -> Places]
          /\ \A t \in Threads : at[t] = "idle"
          /\ \A s \in Seeders : at[s] = "schema?"
      BY <2>0 DEF StartupInit, Actors, Places, Initializing
    <3>2. 0 \in 0..MaxOutages /\ 0 \in 0..MaxRequests /\ 1 \in 1..MaxAttempts
      BY <2>0
    <3>3. /\ attempt \in [Actors -> 1..MaxAttempts]
          /\ conflicts \in [Actors -> Nat]
          /\ inserted \in [Seeders -> Transaction]
          /\ arms \in [LotSet -> SUBSET ContextKeys]
      BY <2>1, <3>2 DEF StartupInit
    <3>4. at \in [Actors -> Initializing \cup Seeding \cup Ended \cup {"idle", "ready"}]
      BY <3>1 DEF Places
    <3>5. /\ \A t \in Threads : at[t] \notin Seeding \cup Ended
          /\ \A s \in Seeders : at[s] \notin {"idle", "ready"}
      BY <3>1 DEF Seeding, Ended
    <3>6. /\ up \in BOOLEAN /\ outages \in 0..MaxOutages
          /\ schema \in BOOLEAN /\ tables \in BOOLEAN /\ initialized \in BOOLEAN
          /\ requests \in 0..MaxRequests /\ asked \in Answer
      BY <3>2 DEF StartupInit, Answer
    <3> QED
      BY <3>3, <3>4, <3>5, <3>6 DEF StartupTypeOK
  <2>3. RaceInv
    BY DEF StartupInit, RaceInv
  <2>4. SeedInv
    <3>1. \A s \in Seeders : Covered(s)
      BY DEF StartupInit, Covered, NoTransaction
    <3>2. \A s \in Seeders : at[s] = "schema?"
      BY <2>0 DEF StartupInit, Actors
    <3>3. AllEmpty
      BY DEF StartupInit, AllEmpty
    <3> QED
      BY <3>1, <3>2, <3>3 DEF SeedInv, StartupInit
  <2> QED
    BY <2>2, <2>3, <2>4 DEF StartupInv
<1>2. StartupInv /\ [StartupNext]_startupVars => StartupInv'
  <2> SUFFICES ASSUME StartupInv, [StartupNext]_startupVars
               PROVE  StartupInv'
    OBVIOUS
  <2>1. CASE StartupNext
    <3>1. StartupTypeOK'
      BY <2>1, InitializeTyped, SeedTyped, OthersTyped DEF StartupInv, StartupNext, SeedInv
    <3> QED
      BY <2>1, <3>1, RaceStep, SeedStep DEF StartupInv
  <2>2. CASE UNCHANGED startupVars
    <3> USE <2>2 DEF startupVars
    <3>1. StartupTypeOK'
      BY DEF StartupInv, StartupTypeOK
    <3>2. RaceInv'
      BY DEF StartupInv, RaceInv
    <3>3. SeedInv'
      BY DEF StartupInv, SeedInv, AllEmpty, AllSeeded, Covered, Finished
    <3> QED
      BY <3>1, <3>2, <3>3 DEF StartupInv
  <2> QED
    BY <2>1, <2>2
<1> QED
  BY <1>1, <1>2, PTL DEF StartupSpec

\* The type invariant: attempts stay within _MAX_RETRIES, and arms within
\* ALL_CONTEXT_KEYS.
THEOREM StartupTypeCorrect == StartupSpec => []StartupTypeOK
<1>1. StartupInv => StartupTypeOK
  BY DEF StartupInv
<1> QED
  BY <1>1, StartupInvHolds, PTL

\* However many processes start together, each of them loses at most two
\* attempts of _initialize to the others: one to the schema, one to the tables.
THEOREM RacesAreCheap == StartupSpec => []RacesCostTwo
<1>1. StartupInv => RacesCostTwo
  BY DEF StartupInv, RaceInv, RacesCostTwo
<1> QED
  BY <1>1, StartupInvHolds, PTL

\* No search finds a configured lot without arms for its context, whatever the
\* number of seed scripts and however the database fails among them.
THEOREM ConfiguredLotsArePriced == StartupSpec => []ConfiguredIsPriced
<1>1. StartupInv => ConfiguredIsPriced
  BY DEF StartupInv, SeedInv, ConfiguredIsPriced
<1> QED
  BY <1>1, StartupInvHolds, PTL

\* A seed script that was refused has nothing left to do.
THEOREM LostRacesAreSeeded == StartupSpec => []LostRaceSeeded
<1>1. StartupInv => LostRaceSeeded
  BY DEF StartupInv, SeedInv, LostRaceSeeded, AllSeeded
<1> QED
  BY <1>1, StartupInvHolds, PTL

-----------------------------------------------------------------------------
(* Waiting for rows *)

\* A seeded lot has an arm.
LEMMA KeysExist == ContextKeys # {}
<1> DEFINE key == [time |-> "morning", day |-> "weekday", occupancy |-> "low"]
<1>1. key \in ContextKeys
  BY DEF ContextKeys, TimeOfDay, DayType, Occupancy
<1> HIDE DEF key
<1> QED
  BY <1>1

\* A lot is in one open transaction at most, is not configured yet, and lies
\* before the one its seeder is at.
SoleInv ==
  \A s \in Seeders : \A l \in inserted[s].new :
    /\ \A o \in Seeders \ {s} : l \notin inserted[o].new
    /\ arms[l] = {}
    /\ \E j \in 1..Len(Lots) : j < inserted[s].next /\ l = Lots[j]

\* A step that leaves the lots alone and ends transactions at most.
LEMMA SoleKept ==
  ASSUME SoleInv, arms' = arms,
         \A s \in Seeders : inserted'[s] = inserted[s] \/ inserted'[s] = NoTransaction
  PROVE  SoleInv'
<1>1. NoTransaction.new = {}
  BY DEF NoTransaction
<1> SUFFICES ASSUME NEW s \in Seeders, NEW l \in inserted'[s].new
             PROVE  /\ \A o \in Seeders \ {s} : l \notin inserted'[o].new
                    /\ arms[l] = {}
                    /\ \E j \in 1..Len(Lots) : j < inserted'[s].next /\ l = Lots[j]
  BY DEF SoleInv
<1>2. inserted'[s] = inserted[s]
  BY <1>1
<1>3. \A o \in Seeders : inserted'[o].new \subseteq inserted[o].new
  BY <1>1
<1> QED
  BY <1>2, <1>3 DEF SoleInv

LEMMA SoleStep ==
  ASSUME StartupTypeOK, SeedInv, SoleInv, [StartupNext]_startupVars
  PROVE  SoleInv'
<1> USE DEF rows
<1>0. inserted \in [Seeders -> Transaction] /\ Len(Lots) \in Nat
  BY StartupAssumption DEF StartupTypeOK
<1>1. ASSUME inserted' = inserted, arms' = arms PROVE SoleInv'
  BY <1>1, SoleKept
<1>2. ASSUME NEW a \in Actors, Initialize(a) PROVE SoleInv'
  <2>1. inserted' = inserted /\ arms' = arms
    BY <1>2 DEF Initialize, Unreachable, AskSchema, MakeSchema, AskTables, MakeTables
  <2> QED
    BY <1>1, <2>1
<1>3. ASSUME NEW t \in Threads,
             Request(t) \/ \E l \in LotSet, key \in AskedKeys : SelectPrice(t, l, key)
      PROVE  SoleInv'
  BY <1>1, <1>3 DEF Request, SelectPrice
<1>4. ASSUME NEW s \in Seeders, LookLot(s) PROVE SoleInv'
  <2>1. arms' = arms
    BY <1>4 DEF LookLot
  <2>2. CASE arms[Lot(s)] # {}
    <3>1. /\ inserted'[s].new = inserted[s].new
          /\ inserted'[s].next = inserted[s].next + 1
          /\ inserted[s].next \in Nat
          /\ \A o \in Seeders \ {s} : inserted'[o] = inserted[o]
      BY <1>0, <1>4, <2>2 DEF LookLot, Transaction
    <3>2. \A j \in 1..Len(Lots) : j < inserted[s].next => j < inserted'[s].next
      BY <3>1
    <3> QED
      BY <2>1, <3>1, <3>2 DEF SoleInv
  <2>3. CASE arms[Lot(s)] = {}
    BY <1>1, <1>4, <2>1, <2>3 DEF LookLot
  <2> QED
    BY <2>2, <2>3
<1>5. ASSUME NEW s \in Seeders, InsertLot(s) PROVE SoleInv'
  <2>1. arms' = arms
    BY <1>5 DEF InsertLot
  <2>2. CASE arms[Lot(s)] # {}
    <3>1. Rollback(s, "lost")
      BY <1>5, <2>2 DEF InsertLot
    <3>2. \A o \in Seeders : inserted'[o] = inserted[o] \/ inserted'[o] = NoTransaction
      BY <3>1, Moves
    <3> QED
      BY <2>1, <3>2, SoleKept
  <2>3. CASE arms[Lot(s)] = {}
    <3>1. /\ inserted'[s].new = inserted[s].new \cup {Lot(s)}
          /\ inserted'[s].next = inserted[s].next + 1
          /\ \A o \in Seeders \ {s} : inserted'[o] = inserted[o]
      BY <1>0, <1>5, <2>3 DEF InsertLot
    <3>2. inserted[s].next \in 1..Len(Lots) /\ Lot(s) = Lots[inserted[s].next]
      BY <1>5, LotIsOne DEF InsertLot, SeedInv, Lot
    <3>3. \A o \in Seeders \ {s} : Lot(s) \notin inserted[o].new
      BY <1>5 DEF InsertLot
    <3>4. \A j \in 1..Len(Lots) : j <= inserted[s].next => j < inserted'[s].next
      BY <3>1, <3>2
    <3> SUFFICES ASSUME NEW q \in Seeders, NEW l \in inserted'[q].new
                 PROVE  /\ \A o \in Seeders \ {q} : l \notin inserted'[o].new
                        /\ arms[l] = {}
                        /\ \E j \in 1..Len(Lots) : j < inserted'[q].next /\ l = Lots[j]
      BY <2>1 DEF SoleInv
    <3>5. CASE q # s
      BY <3>1, <3>3, <3>5 DEF SoleInv
    <3>6. CASE q = s /\ l = Lot(s)
      BY <2>3, <3>1, <3>2, <3>3, <3>4, <3>6
    <3>7. CASE q = s /\ l # Lot(s)
      <4>1. l \in inserted[s].new
        BY <3>1, <3>7
      <4>2. PICK j \in 1..Len(Lots) : j < inserted[s].next /\ l = Lots[j]
        BY <4>1 DEF SoleInv
      <4>3. j < inserted'[s].next
        BY <3>2, <3>4, <4>2
      <4> QED
        BY <3>1, <3>7, <4>1, <4>2, <4>3 DEF SoleInv
    <3> QED
      BY <3>5, <3>6, <3>7
  <2> QED
    BY <2>2, <2>3
<1>6. ASSUME NEW s \in Seeders, CommitSeed(s) PROVE SoleInv'
  <2>1. /\ inserted'[s] = NoTransaction
        /\ \A o \in Seeders \ {s} : inserted'[o] = inserted[o]
    BY <1>6, Moves DEF CommitSeed
  <2>2. \A l \in LotSet : l \notin inserted[s].new => arms'[l] = arms[l]
    BY <1>6 DEF CommitSeed
  <2>3. NoTransaction.new = {}
    BY DEF NoTransaction
  <2> SUFFICES ASSUME NEW q \in Seeders, NEW l \in inserted'[q].new
               PROVE  /\ \A o \in Seeders \ {q} : l \notin inserted'[o].new
                      /\ arms'[l] = {}
                      /\ \E j \in 1..Len(Lots) : j < inserted'[q].next /\ l = Lots[j]
    BY DEF SoleInv
  <2>4. q # s /\ inserted'[q] = inserted[q] /\ l \in inserted[q].new
    BY <2>1, <2>3
  <2>5. l \in LotSet /\ l \notin inserted[s].new
    BY <2>4 DEF SoleInv, LotSet
  <2> QED
    BY <2>1, <2>2, <2>3, <2>4, <2>5 DEF SoleInv
<1>7. ASSUME NEW s \in Seeders, SeedFails(s) PROVE SoleInv'
  <2>1. \A o \in Seeders : inserted'[o] = inserted[o] \/ inserted'[o] = NoTransaction
    BY <1>7, Moves DEF SeedFails
  <2> QED
    BY <1>7, <2>1, SoleKept DEF SeedFails
<1>8. CASE DatabaseStarts
  BY <1>1, <1>8 DEF DatabaseStarts
<1>9. CASE DatabaseStops
  BY <1>9, SoleKept DEF DatabaseStops
<1>10. CASE UNCHANGED startupVars
  BY <1>1, <1>10 DEF startupVars
<1> QED
  BY <1>2, <1>3, <1>4, <1>5, <1>6, <1>7, <1>8, <1>9, <1>10 DEF StartupNext, Seed

\* Any number of seed scripts over any list of lots cannot deadlock: while no
\* lot is configured, all but one of them wait for the first lot, because all
\* of them go through the lots in the same order.
THEOREM SeedersCannotDeadlock == StartupSpec => []WaitedForGoesOn
<1>1. StartupInit => SoleInv
  BY DEF StartupInit, SoleInv, NoTransaction
<1>2. StartupInv /\ SoleInv /\ [StartupNext]_startupVars => SoleInv'
  BY SoleStep DEF StartupInv
<1>3. StartupInv /\ SoleInv => WaitedForGoesOn
  <2> SUFFICES ASSUME StartupInv, SoleInv, NEW s \in Seeders, NEW o \in Seeders,
                      NEW p \in Seeders, WaitsFor(s, o), WaitsFor(o, p)
               PROVE  FALSE
    BY DEF WaitedForGoesOn
  <2>1. /\ Len(Lots) \in Nat
        /\ inserted[o].next \in Nat /\ inserted[p].next \in Nat
        /\ Lot(s) \in inserted[o].new /\ Lot(o) \in inserted[p].new /\ o # p
    BY StartupAssumption DEF StartupInv, StartupTypeOK, Transaction, WaitsFor
  <2>2. /\ 1 \in 1..Len(Lots) /\ 1 < inserted[o].next /\ 1 < inserted[p].next
    BY <2>1 DEF SoleInv
  <2>3. AllEmpty
    <3>1. Lot(s) \in LotSet /\ arms[Lot(s)] = {}
      BY <2>1 DEF SoleInv, LotSet
    <3> QED
      BY <3>1, KeysExist DEF StartupInv, SeedInv, AllSeeded
  <2>4. arms[Lots[1]] # ContextKeys
    <3>1. arms[Lots[1]] = {}
      BY <2>2, <2>3 DEF AllEmpty, LotSet
    <3> QED
      BY <3>1, KeysExist
  <2>5. Lots[1] \in inserted[o].new /\ Lots[1] \in inserted[p].new
    BY <2>2, <2>4 DEF StartupInv, SeedInv, Covered
  <2> QED
    BY <2>1, <2>5 DEF SoleInv
<1> QED
  BY <1>1, <1>2, <1>3, StartupInvHolds, PTL DEF StartupSpec
=============================================================================
