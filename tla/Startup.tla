------------------------------ MODULE Startup ------------------------------
(***************************************************************************)
(* The start of the pricing service: every process that opens its first    *)
(* session creates the schema and the tables if they are missing, in up to *)
(* five attempts; the seed scripts give every lot its configuration and    *)
(* its arms in one transaction; and searches ask for prices meanwhile.     *)
(* PostgreSQL starts when it likes and may be restarted.  The inventory    *)
(* service starts in the same way, with spots in the place of arms.        *)
(***************************************************************************)
EXTENDS ContextKey, Sequences, FiniteSets

CONSTANTS
  Threads,      \* threads of the pricing server: one process, one flag
  Seeders,      \* processes that run a seed script
  Lots,         \* LOTS of the seed script, in its order
  MaxAttempts,  \* _MAX_RETRIES
  MaxRequests,  \* bound: GetPrice calls
  MaxOutages    \* bound: stops of the database

VARIABLES
  up,           \* the database accepts connections
  outages,
  schema, tables,  \* they exist
  initialized,  \* the flag of the pricing server's process
  at,           \* what each thread and seeder does next
  attempt,      \* its attempt to initialize the database
  conflicts,    \* history: how many attempts a race has cost it
  inserted,     \* the lots a seeder's open transaction has handled and added
  arms,         \* bandit_arms of each configured lot: its context keys
  requests,
  asked         \* history: the answer to the last search

startupVars == <<up, outages, schema, tables, initialized, at, attempt, conflicts,
                 inserted, arms, requests, asked>>

Actors == Threads \cup Seeders
LotSet == {Lots[i] : i \in 1..Len(Lots)}

ASSUME StartupAssumption ==
  /\ Threads \cap Seeders = {}
  /\ Lots \in Seq(Nat)
  /\ MaxAttempts \in Nat \ {0} /\ MaxRequests \in Nat /\ MaxOutages \in Nat

-----------------------------------------------------------------------------
(* State *)

\* The steps of _initialize: does the schema exist, create it; the tables; its
\* connection is broken.
Initializing == {"schema?", "schema!", "tables?", "tables!", "broken"}
\* The steps of a seed script, and how it can end: committed, refused because
\* another one was first, or failed.
Seeding == {"look", "insert"}
Ended == {"seeded", "lost", "failed"}

\* A seeder's position in Lots, and the lots it added.
Transaction == [next: 1..Len(Lots) + 1, new: SUBSET LotSet]
NoTransaction == [next |-> 1, new |-> {}]

\* The answers of select_price: an exception, another one, an offer.
Answer == {"none", "no config", "no arms", "priced"}

\* The keys of the contexts that can be asked for.
AskedKeys == {BuildContextKey(hour, day, rate) : hour \in Hours, day \in Days, rate \in Rates}

StartupTypeOK ==
  /\ up \in BOOLEAN /\ outages \in 0..MaxOutages
  /\ schema \in BOOLEAN /\ tables \in BOOLEAN /\ initialized \in BOOLEAN
  /\ at \in [Actors -> Initializing \cup Seeding \cup Ended \cup {"idle", "ready"}]
  /\ attempt \in [Actors -> 1..MaxAttempts]
  /\ conflicts \in [Actors -> Nat]
  /\ inserted \in [Seeders -> Transaction]
  /\ arms \in [LotSet -> SUBSET ContextKeys]
  /\ requests \in 0..MaxRequests
  /\ asked \in Answer
  /\ \A t \in Threads : at[t] \notin Seeding \cup Ended
  /\ \A s \in Seeders : at[s] \notin {"idle", "ready"}

StartupInit ==
  /\ up \in BOOLEAN /\ outages = 0
  /\ schema = FALSE /\ tables = FALSE /\ initialized = FALSE
  /\ at = [a \in Actors |-> IF a \in Threads THEN "idle" ELSE "schema?"]
  /\ attempt = [a \in Actors |-> 1]
  /\ conflicts = [a \in Actors |-> 0]
  /\ inserted = [s \in Seeders |-> NoTransaction]
  /\ arms = [l \in LotSet |-> {}]
  /\ requests = 0
  /\ asked = "none"

-----------------------------------------------------------------------------
(* _initialize *)

GoTo(a, step) == at' = [at EXCEPT ![a] = step]

rows == <<inserted, arms, requests, asked>>

\* Mutant of AttemptFails: the attempts are not counted out.
AttemptFailsAgain(a) ==
  GoTo(a, "schema?") /\ attempt' = [attempt EXCEPT ![a] = @ + 1]

\* The attempt fails: another one two seconds later, or the exception leaves
\* get_session: the request fails, or the seed script ends.
AttemptFails(a) ==
  IF attempt[a] < MaxAttempts
    THEN GoTo(a, "schema?") /\ attempt' = [attempt EXCEPT ![a] = @ + 1]
    ELSE GoTo(a, IF a \in Threads THEN "idle" ELSE "failed") /\ UNCHANGED attempt

\* There is no connection, or it broke.
Unreachable(a) ==
  /\ at[a] \in Initializing
  /\ up => at[a] = "broken"
  /\ AttemptFails(a)
  /\ UNCHANGED <<up, outages, schema, tables, initialized, conflicts, rows>>

\* Mutant of AskSchema: CREATE SCHEMA without IF NOT EXISTS.
AskSchemaNever(a) ==
  /\ at[a] = "schema?" /\ up
  /\ GoTo(a, "schema!")
  /\ UNCHANGED <<up, outages, schema, tables, initialized, attempt, conflicts, rows>>

\* CREATE SCHEMA IF NOT EXISTS looks for the schema.
AskSchema(a) ==
  /\ at[a] = "schema?" /\ up
  /\ GoTo(a, IF schema THEN "tables?" ELSE "schema!")
  /\ UNCHANGED <<up, outages, schema, tables, initialized, attempt, conflicts, rows>>

\* It inserts the schema, and is refused if that was done meanwhile.
MakeSchema(a) ==
  /\ at[a] = "schema!" /\ up
  /\ IF schema
       THEN AttemptFails(a) /\ conflicts' = [conflicts EXCEPT ![a] = @ + 1]
       ELSE GoTo(a, "tables?") /\ UNCHANGED <<attempt, conflicts>>
  /\ schema' = TRUE
  /\ UNCHANGED <<up, outages, tables, initialized, rows>>

\* The database is initialized for a's process; a goes on with its session.
Initialized(a) ==
  /\ GoTo(a, IF a \in Threads THEN "ready" ELSE "look")
  /\ initialized' = (initialized \/ a \in Threads)

\* create_all looks which tables exist.
AskTables(a) ==
  /\ at[a] = "tables?" /\ up
  /\ IF tables THEN Initialized(a) ELSE GoTo(a, "tables!") /\ UNCHANGED initialized
  /\ UNCHANGED <<up, outages, schema, tables, attempt, conflicts, rows>>

\* It creates them in one transaction, refused if that was done meanwhile.
MakeTables(a) ==
  /\ at[a] = "tables!" /\ up
  /\ IF tables
       THEN /\ AttemptFails(a) /\ conflicts' = [conflicts EXCEPT ![a] = @ + 1]
            /\ UNCHANGED initialized
       ELSE Initialized(a) /\ UNCHANGED <<attempt, conflicts>>
  /\ tables' = TRUE
  /\ UNCHANGED <<up, outages, schema, rows>>

-----------------------------------------------------------------------------
(* Requests *)

\* A thread takes a GetPrice call and asks for a session.
Request(t) ==
  /\ at[t] = "idle" /\ requests < MaxRequests
  /\ GoTo(t, IF initialized THEN "ready" ELSE "schema?")
  /\ attempt' = [attempt EXCEPT ![t] = 1]
  /\ conflicts' = [conflicts EXCEPT ![t] = 0]
  /\ requests' = requests + 1
  /\ UNCHANGED <<up, outages, schema, tables, initialized, inserted, arms, asked>>

\* select_price looks for the lot's configuration and for arms of the context.
SelectPrice(t, l, key) ==
  /\ at[t] = "ready" /\ up
  /\ asked' = IF arms[l] = {} THEN "no config"
              ELSE IF key \notin arms[l] THEN "no arms" ELSE "priced"
  /\ GoTo(t, "idle")
  /\ UNCHANGED <<up, outages, schema, tables, initialized, attempt, conflicts,
                 inserted, arms, requests>>

-----------------------------------------------------------------------------
(* Seeding *)

\* Mutant of Lot: one of the scripts goes through the lots backwards.
LotBackwards(s) ==
  IF s = CHOOSE o \in Seeders : TRUE
    THEN Lots[Len(Lots) + 1 - inserted[s].next]
    ELSE Lots[inserted[s].next]

\* The lot that seeder s is at, and whether s has handled them all.
Lot(s) == Lots[inserted[s].next]
Finished(s) == inserted[s].next > Len(Lots)

\* The configuration of the next lot is looked up.  A lot that has one gets
\* nothing more: its base price is set to the value it has, and its arms were
\* committed with it and are found, for they are read after the configuration.
LookLot(s) ==
  /\ at[s] = "look" /\ ~Finished(s)
  /\ IF arms[Lot(s)] # {}
       THEN /\ inserted' = [inserted EXCEPT ![s].next = @ + 1]
            /\ UNCHANGED at
       ELSE GoTo(s, "insert") /\ UNCHANGED inserted
  /\ UNCHANGED <<up, outages, schema, tables, initialized, attempt, conflicts,
                 arms, requests, asked>>

\* The transaction of s ends without a trace.
Rollback(s, step) ==
  /\ GoTo(s, step)
  /\ inserted' = [inserted EXCEPT ![s] = NoTransaction]

\* Mutant of InsertLot: the lot is committed at once.
InsertLotCommits(s) ==
  /\ at[s] = "insert"
  /\ IF arms[Lot(s)] # {}
       THEN Rollback(s, "lost") /\ UNCHANGED arms
       ELSE /\ arms' = [arms EXCEPT ![Lot(s)] = ContextKeys]
            /\ inserted' = [inserted EXCEPT ![s].next = @ + 1]
            /\ GoTo(s, "look")
  /\ UNCHANGED <<up, outages, schema, tables, initialized, attempt, conflicts,
                 requests, asked>>

\* The configuration is inserted, then the arms: the insert waits for another
\* transaction that inserts it, and is refused if that one commits.
InsertLot(s) ==
  /\ at[s] = "insert"
  /\ \A o \in Seeders \ {s} : Lot(s) \notin inserted[o].new
  /\ IF arms[Lot(s)] # {}
       THEN Rollback(s, "lost")
       ELSE /\ inserted' = [inserted EXCEPT ![s] = [next |-> @.next + 1,
                                                    new |-> @.new \cup {Lot(s)}]]
            /\ GoTo(s, "look")
  /\ UNCHANGED <<up, outages, schema, tables, initialized, attempt, conflicts,
                 arms, requests, asked>>

\* All lots are committed together.
CommitSeed(s) ==
  /\ at[s] = "look" /\ Finished(s)
  /\ arms' = [l \in LotSet |-> IF l \in inserted[s].new THEN ContextKeys ELSE arms[l]]
  /\ Rollback(s, "seeded")
  /\ UNCHANGED <<up, outages, schema, tables, initialized, attempt, conflicts,
                 requests, asked>>

\* Any other exception rolls back and ends the script, with exit code 0.
SeedFails(s) ==
  /\ at[s] \in Seeding
  /\ Rollback(s, "failed")
  /\ UNCHANGED <<up, outages, schema, tables, initialized, attempt, conflicts,
                 arms, requests, asked>>

-----------------------------------------------------------------------------
(* The database *)

DatabaseStarts ==
  /\ ~up /\ up' = TRUE
  /\ UNCHANGED <<outages, schema, tables, initialized, at, attempt, conflicts, rows>>

\* Its sessions break: scripts fail, requests are answered with an error, and
\* what was to be created will not be.
DatabaseStops ==
  /\ up /\ up' = FALSE
  /\ outages < MaxOutages /\ outages' = outages + 1
  /\ at' = [a \in Actors |-> CASE at[a] \in Seeding -> "failed"
                               [] at[a] = "ready" -> "idle"
                               [] at[a] \in {"schema!", "tables!"} -> "broken"
                               [] OTHER -> at[a]]
  /\ inserted' = [s \in Seeders |-> NoTransaction]
  /\ UNCHANGED <<schema, tables, initialized, attempt, conflicts, arms, requests, asked>>

-----------------------------------------------------------------------------

Initialize(a) ==
  Unreachable(a) \/ AskSchema(a) \/ MakeSchema(a) \/ AskTables(a) \/ MakeTables(a)

Seed(s) == LookLot(s) \/ InsertLot(s) \/ CommitSeed(s)

StartupNext ==
  \/ \E a \in Actors : Initialize(a)
  \/ \E t \in Threads :
       \/ Request(t)
       \/ \E l \in LotSet, key \in AskedKeys : SelectPrice(t, l, key)
  \/ \E s \in Seeders : Seed(s) \/ SeedFails(s)
  \/ DatabaseStarts
  \/ DatabaseStops

StartupSpec == StartupInit /\ [][StartupNext]_startupVars

\* Every process keeps running until it ends, and the database is restarted.
StartupFairness ==
  /\ \A a \in Actors : WF_startupVars(Initialize(a))
  /\ \A s \in Seeders : WF_startupVars(Seed(s))
  /\ WF_startupVars(DatabaseStarts)
StartupFairSpec == StartupSpec /\ StartupFairness

-----------------------------------------------------------------------------
(* Properties *)

\* A lot with a configuration has an arm for every time, day and occupancy that
\* can be asked for, however searches interleave with seeding: the keys that
\* build_context_key builds are keys the seed script inserts, and no search
\* sees a lot half seeded.
ConfiguredIsPriced == asked # "no arms"

\* Processes that start together cost each other at most two of the attempts, one
\* for the schema and one for the tables: of the five, three are left for a
\* database that is not up yet.
RacesCostTwo == \A a \in Actors : conflicts[a] <= 2

\* A seed script that is refused because another one was first leaves nothing
\* to do: all its lots are there.
LostRaceSeeded ==
  \A s \in Seeders : at[s] = "lost" => \A l \in LotSet : arms[l] = ContextKeys

\* Seeder s waits for the transaction of o, which has inserted the same lot.
WaitsFor(s, o) ==
  at[s] = "insert" /\ o # s /\ Lot(s) \in inserted[o].new

\* A script that others wait for waits for nobody: seed scripts that start
\* together, and insert row by row what the others insert too, cannot deadlock
\* on each other's rows.
WaitedForGoesOn ==
  \A s, o, p \in Seeders : WaitsFor(s, o) => ~WaitsFor(o, p)

\* Every seed script ends, though scripts wait for each other's rows.
SeedingEnds == \A s \in Seeders : <>(at[s] \in Ended)
=============================================================================
