# Verification of the Smart Parking System

TLA+ models of the services of this repository, the TLC runs that check them on
small instances, and theorems about them proved with TLAPS. Paths below are
relative to `src/`.

## 1. The system

| Component | State it keeps | Operations | Talks to |
|---|---|---|---|
| Inventory service (`inventory-service/inventory/{service,server,models}.py`) | `users`, `parking_lots`, `parking_spots.status`, `reservations` in PostgreSQL | `ReserveSpot`, `CancelReservation`, `CreateUser`, `VerifyUser`, lists, occupancy | calls the pricing service inside `ReserveSpot` |
| Sensor consumer (`inventory/consumer.py`) | none (the database) | one update of a spot's status per event | takes events from RabbitMQ, acknowledges or drops them |
| Pricing service (`pricing-service/pricing/`) | `bandit_arms`, `lot_pricing_config`, `pricing_events` | `GetPrice`, `RecordBookingOutcome`, seeding | called by the gateway and the inventory service |
| API gateway (`FastAPI/`) | none | `/search`, `/book`, `/reservations`, `/cancel-reservation`, `/users`, `/login` | gRPC to both services |
| Mobile app (`MobileApp/`) | back stack, user id, fields, results and choice of the booking screen, the list of reservations | log in or sign up, search, confirm, list, cancel | HTTP to the gateway |
| Sensor simulator (`sensor-simulator/`) | the last status of each spot | publishes one event at a time | RabbitMQ |
| Seed scripts, start-up (`seed*.py`, `*/database.py`) | none | create schema, lots, spots, arms | PostgreSQL |

A booking is a chain. The gateway asks the pricing service for an offer
(`/search` logs a `pricing_events` row), the user confirms it, the gateway calls
`ReserveSpot`, the inventory service first reports the booking to the pricing
service (which validates it and updates the bandit's arm) and only then tries to
reserve a spot.

Both gRPC servers run a pool of two threads (`ThreadPoolExecutor(max_workers=2)`)
over one database. No statement locks what it reads, no row has a version, and
PostgreSQL's default isolation is READ COMMITTED, so every "read, decide, write"
in the code is open to interference. This is where the hard behaviours are:

- overlapping bookings by two threads, and a stale spot status;
- the autoflushed insert of a new account, which makes one worker wait for another;
- a booking recorded twice by two workers, a decline recorded after a booking;
- a base price that changes between an offer and its outcome;
- failures and rollbacks between any two statements;
- across the services: a booking recorded although the reservation failed, retries
  with a used offer;
- sensor events that are queued, dropped, delivered twice and overtaken by bookings;
- two sign-ups with the same name, and sign-ups repeated after a time-out;
- several processes that create the schema and seed the lots at once, while
  PostgreSQL is not up yet or goes away;
- a user interface whose buttons stay enabled while a request is under way, whose requests
  die with their screen while the services go on, and whose memory is lost on a rotation.

What makes each component correct:

- *Inventory*: bookings of one spot do not overlap, or at least overlap no more
  often than the pool allows; bookers have accounts; a cancellation affects only
  its owner's row; a failed request leaves nothing behind; every request is answered.
- *Pricing*: outcomes are counted once and never lost, the parameters of the Beta
  distributions stay meaningful, a booked offer stays booked.
- *Sensor consumer*: a spot's status follows its last event, and no spot with a sensor
  stays reserved for ever.
- *Accounts*: one account per name and e-mail, or at least no more than the pool allows,
  and nobody acts for somebody else's account.
- *Start-up*: the attempts suffice, seeding is all or nothing, and every context that
  can be asked for has arms.
- *Gateway with both services*: a booking is recorded if and only if it was reserved
  (only one direction holds).
- *Mobile app*: a success that is shown is a reservation and on every list shown since, a
  late list errs only by what was cancelled since, and an offer is confirmed only for the user
  it was made to.

`PROJECT.json` lists the components, the hazards at their lines, and the lines of
code every definition stands for.

## 2. Modules

| Module | What it is |
|---|---|
| `ReservationRows` | the rows of `inventory.reservations`: windows, the overlap query, the UNIQUE key |
| `ReservationLedger` | abstract specification: what the inventory service promises about these rows |
| `Inventory` | the inventory service: worker threads, transactions, the sensor consumer's update, the clock |
| `InventoryProofs` | theorems about `Inventory` |
| `Pricing` | the pricing service for one lot and one context key: offers, arms, worker threads that record outcomes |
| `PricingProofs` | theorems about `Pricing` |
| `BookingContract` | abstract specification: what both services promise together, offers, records and sales |
| `ContractProofs` | theorems about `BookingContract` |
| `ParkingSystem` | both services behind the gateway: the booking that runs through the two |
| `ParkingProofs` | theorems about `ParkingSystem` |
| `SensorPipeline` | simulator, queue, acknowledgements and the consumer around `Inventory` |
| `SensorPipelineProofs` | theorems about `SensorPipeline` |
| `MobileApp` | phones with the app in front of `ParkingSystem` |
| `MobileProofs` | theorems about `MobileApp` |
| `Accounts` | logging in and signing up: phones, worker threads, the table of users |
| `AccountsProofs` | theorems about `Accounts` |
| `ContextKey` | the buckets and keys of a price's context |
| `Startup` | schema, tables, seeding and searches while the processes start |
| `StartupProofs` | theorems about `Startup` |
| `MC...` | finite values of the constants for TLC |

`SensorPipeline` and `ParkingSystem` extend `Inventory`, `BookingContract` extends
`ReservationLedger`, `ParkingSystem` instantiates `Pricing` and `BookingContract`, `MobileApp` extends `ParkingSystem`, and `Startup` extends `ContextKey`. `Accounts`
stands by itself: it shares only the table of users with the rest, and the rows that
`reserve_spot` inserts there have no name and no e-mail, so no query of it finds them.

### 2.1 Inventory

One parking lot. `pc[w]` says what worker `w` does next and `req[w]` what its
transaction has read so far. A handler is cut where another transaction can
change what its next statement sees:

| Step | Code |
|---|---|
| `ReserveSpot` | `server.py` 145-179: any available spot is taken (there is no ORDER BY), or the answer is a failure |
| `PricingOutcome` | `reserve_spot_grpc`: the pricing service accepts or refuses |
| `CheckSpot` | `reserve_spot` 96-106: the window, and the status of the spot's row |
| `FindUser` | 108-112: `session.get(User, ...)`, `fresh` if the account must be created |
| `CheckOverlap` | 115-126: autoflush sends the new `users` row before the query; it waits while another open transaction has inserted the same account and fails if that one commits |
| `CommitReservation` | 128-142: SQLAlchemy sends the UPDATE and the INSERT inside `commit()`, so they and the commit are one step; the UNIQUE key may refuse it |
| `Refresh` | 143-144 and the reply |
| `CancelReservation`, `CommitCancel` | `cancel_reservation`, the read and the write |
| `Abort` | every `except` and the death of the process: a rollback, at any point |
| `SensorRead`, `SensorCommit`, `SensorAbort` | `update_spot_status` called by the consumer; an unchanged column is not part of the UPDATE |

Time is counted in hours, which is what the rule "at least one hour before the
start" needs. Row `i` of `reservations` stands for the row with the `i`-th
`reservation_id` (gaps of the serial column are left out). The prices, labels and
timestamps the code stores beside are left out, and so are the queries.

### 2.2 The ledger

`ReservationLedger` has one variable, the rows. `Book` appends a confirmed row for
a valid window with a fresh (spot, window) key, provided that every instant of it
is held by fewer than `Capacity` confirmed rows of the spot; `Cancel` sets the
status of one row. `Inventory` implements it with `Capacity` the number of worker
threads (`RefinesLedger`): everything else, the statuses of spots, the accounts,
the transactions, is stuttering.

### 2.3 Pricing

Prices are in cents, multipliers in hundredths and the Beta parameters in units of
`1/Scale`, so `Scale` is the 1.0 of the code. The division of the reward is an
integer division; with the checked instances it is exact, and the proofs do not
need exactness. `GetPrice` is one step (its reads cannot be told apart from reads
made at once: it writes only a new row). An outcome is two steps: `Validate` reads
and tests the event, `RecordBooking` or `RecordNoBooking` writes. The model follows
the ORM in one detail that matters: `record_no_booking` assigns `booked = False` to
an object that was loaded with `False`, so the assignment is *not* part of the
UPDATE and cannot undo a booking that was committed meanwhile. `BookedSticks` rests
on this and its mutant shows what would happen otherwise.
`credits` is a history variable. `MaxEvents` and `MaxPulls` bound the model only.

### 2.4 The parking system

`ParkingSystem` extends `Inventory` and instantiates `Pricing` as `Prc`, each with its
own pool of threads. Every step of the system is a step of one of them, or of both where
a call or its answer couples them, together with an update of three link variables:

- `call[w]` is the offer and price in the request of inventory worker `w`, and whether the
  pricing service has begun to work on its report;
- `caller[v]` is the inventory worker that pricing thread `v` answers, if it still waits;
- `bookings[i]` is the offer and `price_at_booking` of reservation `i`.

| Step | Code |
|---|---|
| `Search`, `Book`, `Decline`, `Cancel` | the gateway's endpoints (`FastAPI/api.py`); a client may confirm any offer a search returned, at any known price, for any user and window, and as often as it likes |
| `CallPricing`, `PricingRefuses` | `reserve_spot_grpc` 175-191: a free pricing thread takes the report and validates it |
| `PricingRecords`, `PricingFails` | the transaction of the report commits or is rolled back, and the worker that waits goes on or answers failure |
| `PricingRecordsDecline` | the outcome of a decline, which the gateway reports itself |
| `ReserveStep`, `Reserve`, `CancelStep` | the steps of `Inventory` that follow |
| `InventoryFails` | the inventory worker fails at any point; a pricing thread that works for it goes on, and its answer reaches nobody |
| `Environment` | sensor events, the clock, a new base price |

The two services never share a transaction: `PricingRecords` commits before the first
statement of `reserve_spot`. This is why a booking can be recorded without a reservation
(`RecordedWhenReserved` is violated), while the other direction, no reservation without
a recorded booking of its own, does hold (`EveryBookingPaid`).

`BookingContract` says what this comes to, without threads, messages, statuses or arms. Its state is the
log of offers, each with the number of times it was recorded as booked, and the sales, one for each
row of the ledger. `Offer` adds an offer; `Record` counts one booking, at most one for each thread of the
pricing service (`Reporters`), because the test of `event.booked` takes no lock; `Sell` needs a record that
no earlier sale used, and books a window of the ledger for the offer's user, at the offer's price;
`Revoke` cancels a row, and returns neither record nor sale. `ParkingSystem` implements it
(`RefinesContract`): offers are read from `events` with `credits` as the record, sales from `bookings`. A
worker that failed, a late answer or a repeated request would show here as a sale with no
record or with another offer's user or price.

### 2.5 The sensor pipeline

The simulator draws a spot and whether its status flips, and a restart of its container draws
every status anew, so any event may follow any other. The consumer sets no prefetch limit: the
broker pushes everything, the consumer handles one event after the other, and the broker keeps
an event until its acknowledgement arrives. `queue` is what the broker keeps and `handled` how far
the consumer is in it; an acknowledgement (`Settle`) removes the oldest.

| Step | Code |
|---|---|
| `Publish` | `publisher.py` 29-63 |
| `TakeEvent` | `_on_message` up to the lookup in `update_spot_status` |
| `ApplyEvent` | the commit and `basic_ack` |
| `DropEvent` | `except Exception`: rollback and `basic_nack(requeue=False)`, for an unknown spot or anything else |
| `Settle` | the acknowledgement reaches the broker (external) |
| `ConsumerDies` | the process or its connection dies: rollback, and `handled` goes back to 0, so events already applied are delivered again |
| `Workload` | the workers and the clock of `Inventory` |

`reported` and `missed` are history: the last report of each spot, and the spots whose last
finished event was dropped. `Sensors` and `Spots` are different sets, because the simulator is
configured with spots 1 to 10 of each lot and the seeded lots have fewer.

### 2.6 Accounts

`TapLogin` is the app's only button, disabled while a field is blank or an attempt is under way. The two
fields are not disabled: they may be edited during an attempt, and are read again when the sign-up follows.
So the fields themselves are no state of the model: whenever they are read they hold any name and any e-mail,
in `TapLogin` one that is not blank. A phone's `name` and `email` are those of the request it sent last.
(`currentUsername`, read a third time after the answer, is stored and never used.) `VerifyUser` is `/login` and
sends the phone on to `/users` when nothing was found *or an exception occurred*, which the service reports as not found. `QueryUser` and
`InsertUser` are the two statements of `create_user`'s transaction that another thread can come
between. `GiveUp` is a time-out or a broken connection: the attempt has failed for the phone and
the worker goes on for nobody. Row `i` of `accounts` has the `i`-th user id handed out (the
UUIDs only have to differ).

### 2.7 Contexts and start-up

`ContextKey` has the hours, weekdays and rates (in percent) of `build_context_key` and the 24 keys of
`ALL_CONTEXT_KEYS`. `Startup` has the actors that open sessions, the threads of the pricing server (one
process, one flag `_initialized`) and the seed scripts (a process each). `CREATE SCHEMA IF NOT EXISTS` and
`create_all` are each two steps, because PostgreSQL looks for the name first and is refused by
the unique index of its catalogue when another session was faster; the refused attempt counts as
one of `_MAX_RETRIES`. A seed script inserts all lots in one transaction: `InsertLot` waits while
another script's insert of the same lot is uncommitted and ends the script if that one commits.
The multipliers of a context are inserted together, so an arm stands for its context's six. The
inventory service's `database.py` and `seed_inventory.py` have the same steps.

### 2.8 The mobile app

| Step | Code (`MainActivity.kt`) |
|---|---|
| `Login`, `OpenLot`, `OpenReservations`, `Back`, `BackToHome` | the routes of `AppNavigation`; leaving a screen drops what it remembered and cancels its coroutines |
| `Recreate` | the activity is created again: the back stack is saved by the navigation controller, `currentUserId` and the fields of the booking screen are only `remember`ed |
| `Edit`, `TapSearch`, `ShowResults`, `Choose` | the booking screen; several searches may be under way and their answers replace each other in any order, and an edited window keeps the chosen offer |
| `Confirm` | one more request for the chosen offer with the window of now; nothing disables the button |
| `Deliver`, `Outcome` | the gateway hands the request to an inventory worker, and what comes of it |
| `ShowAnswer`, `TimesOut` | the message or the screen of success; an error after ten seconds |
| `LoadLots` | the list of lots has arrived; until then it cannot be tapped |
| `ReadList`, `ShowList`, `FetchTimesOut` | a fetch of the reservations: the service reads the rows, the answer arrives or does not. Fetches are not ordered and each answer replaces what is shown |
| `TapCancel`, `Refetch`, `CancelTimesOut` | the bin beside a row of the list that is shown, and the list fetched again after a success |

`Search` of `ParkingSystem` is the second of the gateway's two calls: the count of available spots was made at
some earlier moment, and every spot was available once, so a search may log an offer whatever the statuses are
by then. A search that counts none logs nothing and is visible to the phone only (`TapSearch`).

A list is a set of rows, each with its status when the service read it. The screen of reservations keeps the
user it was opened for (it is part of the route), also after `Recreate`.

`taps` has a record for each confirmation: what the services did with it (`done`) and what the user
was told (`told`). `tapOf[w]` is the tap that inventory worker `w` serves. The services' steps are
those of `ParkingSystem`; clients there may do anything, here they do what the app does. Login is
one step, because `Accounts` has its details. `Nobody` is the user id `""` that the booking screen uses when
there is none.

## 3. Runs

| Run | Instance | Shows |
|---|---|---|
| `InventoryPool` | 2 users, 1 spot, 2 workers, 4 windows, 3 requests | types, bounded overbooking and its inductive form, accounts, ownership, no mark left by failures, refinement of the ledger |
| `InventoryDoubleBooking` | as the pool, 2 windows, 2 requests | **violated**: two threads double-book a spot |
| `SensorPipeline` | 1 user, 1 worker, 2 spots, 2 sensors (one of a spot that does not exist), 2 requests, queue of 2, 1 death | types; a spot follows its reports; a sensed one is released in the end (liveness) |
| `PricingOutcomes` | 2 users, 2 workers, 2 arms, 2 offers, base price $4.00 or $1.00 | types, evidence, credits per booking, booked offers stay booked |
| `PricingBaseChange` | 1 worker, 1 offer, 2 base prices | **violated**: reward above 1 after the base price was lowered |
| `ParkingSaga` | 1 user, 1 spot, 2 + 2 threads, 2 windows, 2 requests, 2 offers, 2 arms, 1 base price | types and links; user and price of every reservation are its offer's; every reservation has a recorded booking of its own; refinement of the contract; rewards in [0, 1] and arms samplable |
| `ParkingLive` | 1 user, 1 spot, 2 + 1 threads, 1 window, 3 requests, 2 offers, 1 arm | every request to the inventory service is answered (liveness) |
| `ParkingRecordedFirst` | 1 + 1 threads, 1 request, 1 offer | **violated**: a booking recorded without a reservation |
| `MobileApp` | 1 phone, its user and `""`, 1 spot, 2 + 1 threads, 2 windows, 1 offer, 2 taps, 2 requests | types; a success told is a reservation and on every list shown since; lists err only by later cancellations; offers confirmed for their own user |
| `Accounts` | 2 phones, 2 workers, 2 names and a blank, 2 e-mails, 5 attempts | types; names and e-mails shared by no more accounts than threads, and the inductive form; no foreign identity |
| `AccountsOneIdentity` | 2 phones, 2 workers, 1 name, 1 e-mail, 2 attempts | **violated**: the same name and e-mail with two user ids |
| `Startup` | 1 thread, 2 seed scripts, 2 lots, 3 attempts, 2 searches, 1 outage | types; a configured lot has an arm for every context; races cost at most two attempts; a lost seeding race leaves all seeded; a script that is waited for waits for nobody; every script ends (liveness) |

*Why the bounds are enough.* Two workers are what the servers run. Every race here
is between two transactions on one row or one spot, so one spot and two or three
requests produce all orders of their steps; a third request lets a cancellation or
a repeated booking follow a race. Three overlapping windows and an invalid one
tell the two inequalities of the overlap query and the UNIQUE key apart. Two offers let two arms or
the same arm be credited, two pairs of outcomes race on each, and the base price
may change before, between and after them. What must hold for other sizes is
proved (section 4).

In the system two inventory workers, two pricing threads and two offers let one offer be
reported twice at once, two offers be reported for one spot, and a report outlive the worker
that sent it. The windows of the saga are adjacent, so that two reservations of one offer
are possible; overlapping windows are the matter of the inventory runs. The two pools are
symmetric: no step tells their members apart. One user keeps the saga small: that the user of a
reservation is its offer's, for any number of users, is the theorem `OffersAreAligned`.

In the pipeline a queue of two holds a report and one that overtakes it or repeats it; a death
with both handled and none acknowledged replays both, also after a booking. The clock stands
still there (slot 1 is left out), which leaves late cancellations out and is the matter of
`InventoryPool`. It has one worker, not the two of the server, because with two the liveness check takes too long: all
that the queue and the consumer meet of a worker is that it writes *reserved* to a spot, which one does as
well as two. Races between workers are the matter of the other runs, and `SpotsFollowReports` is proved
for every number.

The app's run has two inventory threads and one pricing thread, not two (with two it takes more than five
minutes). So two reports of the same offer do not race in it; they do in `ParkingSaga` and `PricingOutcomes`,
and the theorems about the app are for any number of pricing threads: `AppReservesBounded` says what such a
race comes to. For the app one offer and two taps are a double tap, a tap repeated after a time-out, and a tap
before and after the activity was recreated; two users are the phone's own and `""`. The
windows are adjacent, so that the same offer could be reserved twice if the services let it. Two
requests are a booking and its cancellation, which is what makes a list old. In
`Accounts` two names and two e-mails form every kind of collision between two rows, the blank one is
a field emptied before the sign-up, and five attempts leave one for each phone after three that were given up. In `Startup` three
attempts are the two that races may cost and one more (the code has five), two scripts and two
lots let a script be stopped before, between and after the rows of another.

Deadlock is checked in every run but `Startup` and the two of `Accounts`: elsewhere the environment (sensor
events, a restart, an edited field, a new base price) can always take a step. In `Startup` the scripts end and the
number of searches is bounded, so a state in which all is done is right; that nobody hangs before is
`SeedingEnds`. In `Accounts` the number of attempts is bounded, and when they are used up the phones rest.

*Fairness.* `ParkingLive` assumes weak fairness of each worker's own steps: a Python thread
of a pool keeps being scheduled and the database answers. For the step in which a free
pricing thread takes a waiting report it assumes strong fairness: the threads may be busy
again and again, but the executor's queue is FIFO, so a report is taken after finitely many
others. That the pricing service's process runs is part of the assumption (the call has no
deadline: if it hangs, the worker hangs, which is a listed hazard, not something the model
hides). No fairness is assumed of clients, sensors, failures or the clock. The interesting
cases are `CheckOverlap`, which is disabled while another worker's insert of the same account
is uncommitted, and a report of a worker that waits while the only pricing thread serves
another.

`PipelineFairness`: the simulator publishes for every spot again and again (an endless loop of random
draws; it stops after ten events by default and `restart: always` starts it again), hence strong fairness of `Publish`
per spot, which a full queue disables; the consumer goes on (weak fairness) and does not fail with every
event (strong fairness of lookup and commit); acknowledgements arrive. No fairness for a
particular status: that a spot stops being reserved holds whatever its sensor says. No fairness
of the workers, of the deaths or of the drops.

`StartupFairness`: every process takes its next step (weak fairness; a retry follows after two
seconds), and the database is started again (`restart: always`). No fairness of searches, outages or failures. The
interesting case is `InsertLot`, which is disabled while another script's insert is uncommitted: a script that
went through the lots in another order would wait for ever, and the mutant shows it.

*Disagreements with the code's own statements* (the four runs marked violated) are
described in `PROJECT.json` under `findings`.

## 4. Theorems

All proofs are for every value of the constants that satisfies the named
assumptions of the modules (a finite set of workers; slots that are naturals;
windows between slots; a positive `Scale`; multipliers bounded by the maximum; markers such as
`NoCaller` that are not workers).

`InventoryProofs`:

- `TypeCorrect`: `TypeOK` is inductive by itself. Its conjunct `RequestOK` ties
  `req` to `pc`, and later proofs use it to know which fields a request has.
- `Margin`: `OverbookingMargin` is inductive relative to `TypeOK`. The bound
  "confirmed rows at an instant <= workers" is not inductive, because a worker past
  its check will add a row without looking again; what is preserved is
  *rows + workers past the check <= workers*. A check passes only if no confirmed
  row is there, so at that moment the rows are 0; a commit turns a worker into a row.
  `MarginShrinks` and `MarginStep` are these two facts about cardinalities.
- `OverbookingIsBounded` follows, and so does `LedgerRefined`: before a commit the
  committing worker itself fills one place of the margin, so fewer than
  `Cardinality(Workers)` rows are there, which is the guard of the ledger's `Book`.
- `Rows` is the invariant of rows, accounts and cancellations; `BookersHaveAccounts`,
  `CancellationsOwned` and `ReservedSpotsBooked` are parts of it.

`SensorPipelineProofs`:

- `InventoryInPipeline`: a pipeline step is one of `Inventory` or leaves it alone, because the
  event taken is of a spot of the lot. So `PipelineOverbookingIsBounded`
  holds whatever events arrive.
- `ConsumerPosition`: an open update is the one of the event at the consumer's position.
- `SpotsFollowReports`: `StatusFollows` becomes inductive with two facts. `QueueReports`: the
  last event of a spot in the queue is the last one reported, which survives a death because the
  queue does not change. `UpdateFresh`: between the read and the write of an update only a booking
  changes the spot's row, so an unchanged status need not be written. When the consumer dies, the
  spots with unacknowledged events are no longer drained, and those without keep their status.

`PricingProofs`:

- `TypeCorrect`; `EvidenceIsConserved` (alpha + beta = 2 + pulls, in units of `Scale`,
  under every interleaving and price change, even when rewards leave [0, 1]).
- `CreditsHaveMargin`, `CreditsAreBounded`: the same margin argument as above, with
  `event.booked` in the role of the overlap query.
- `BookingsStick`: the action property `BookedSticks`.
- `FixedBaseIsSound`, `FixedBaseSamples`: for one nonzero base price whose rounded prices do not exceed the
  ceiling, rewards lie in [0, 1] and every arm stays samplable. The run
  `PricingBaseChange` shows that the first assumption is needed. `RewardBound` is the
  arithmetic: an integer quotient of a price not above the ceiling.

`ParkingProofs`:

- `InventoryInside`, `PricingInside`: hidden behind the gateway and coupled to the other
  service, each service takes only steps of its own specification. The first needs no more
  than that `caller` names workers; the second needs the links below, because a report must
  name an offer that exists. Through the first every theorem of `InventoryProofs` is one about
  the system (`SystemOverbookingIsBounded` is an example); the prover cannot cite the theorems of
  `PricingProofs` through an instance, so the few facts needed of the pricing service are proved
  again of `Prc`.
- `Links` is the inductive invariant `LinkInv`: an accepted report matched its offer
  (`CallsOK`), a request past the pricing call has its offer booked, and each report that was sent
  has exactly one pricing thread at work for its worker (`CallersOK`). Without the last part
  an answer could reach the worker's next request. `OffersGrow`, that the log only grows and
  keeps what was offered, makes these facts stable.
- `SystemTypeCorrect` and `OffersAreAligned` follow.
- `BookingsArePaid`: *rows of the offer + workers about to add one <= credits of the offer*. An
  answer of the pricing service adds one credit and at most one worker, a commit turns a worker
  into a row, and every failure takes a worker away; `PaidStep` counts these.
- `OffersReserveBounded`: *credits of the offer + pricing threads about to credit it <= pricing threads*
  (`CreditInv`, the margin of `Pricing` inside the system), hence by `BookingsArePaid` at most as many rows of an
  offer as there are pricing threads, whatever the number of inventory workers and retries. The two threads of
  the server can sell one offer twice.
- `ContractKept`: the system implements `BookingContract`. A search is an `Offer` (`SearchOffers`). A recorded
  booking is a `Record`, and `CreditInv` leaves a thread for it (`BookingRecords`). A committed row is a `Sell`
  (`RowSells`): the worker fills one place in the sum of `BookingsArePaid`, so a record is unused; it fills one
  place of the ledger's margin, so the window is free enough; and `CallsOK` gives the user and the price.
  All other steps leave offers, sales and rows alone (`RowsUntouched`, `LogUntouched`).
- `SystemRewards`, `SystemArms`: the argument of `FixedBaseIsSound` inside the system.

`ContractProofs`, about the contract alone and for every value of its constants; with `ContractKept`
each holds of the rows, the log and the sales of the two services:

- `ContractTypes` and `ContractIsLedger`: the contract implements `ReservationLedger` in turn, so the three
  specifications of the rows agree: what `InventoryProofs` shows of one service is still promised of both.
- `SalesAreFair` (`FairSales`: the user and the price of a row are those of an offer that was made), `SalesAreRecorded`
  (`SoldOnRecord`: no offer is sold beyond its records; it needs `FairSales`, or a new offer might already be
  sold) and `SalesFitCapacity` (`WithinCapacity`). They assume only that `Reporters` and `Capacity` are natural
  numbers, which the numbers of threads are.

`MobileProofs`:

- `AppLinked` is the inductive invariant `AppLinks`: the links of the system; what a screen
  remembers was offered to the user it shows (`ScreensOK`); a tap names an offer of its own user
  (`TapsOK`); and a tap being worked on is the request of exactly one worker (`ServersOK`). The screens
  are proved by themselves (`ScreensStep`). For the taps every step is first shown to be of one of
  five kinds (`StepKinds`): it disturbs nothing, a worker takes a tap, a tap is refused at once, a
  worker answers, or it inserts its row. The remaining lemmas look only at the kinds.
- `AppTypeCorrect` and `OwnOffersConfirmed` follow, and `SystemInside`: the app's steps are steps of
  `ParkingSystem`, so `AppReservesBounded` is `OffersReserveBounded` and
  `AppKeepsContract` is `ContractKept`.
- `SuccessesAreReserved`: `CountInv` says that the taps that were granted *or whose worker has inserted
  the row and reads it back* are no more than the rows of their user, offer and window. Without the
  second part the grant would come from nowhere. A row that is inserted brings one such tap, a refusal or
  failure takes at most one away, and rows are never removed.
- `ListsAreTrue`: `ListsArePast` is a part of the invariant `AppLinks`, and inductive because rows keep their user and a cancelled row stays cancelled
  (`RowsStayStep` of `InventoryProofs`).
- `SuccessesAreListed`: a list that is read now has as many rows of an offer as `CountInv` counts successes
  (`ReadNow`); and an old list stays complete (`OldList`), because the phone that shows or awaits a list has left
  its booking screen, whose unanswered taps were silenced, so no success can still reach it (`WaitingOK`).

`AccountsProofs`:

- `AccountsTypeCorrect`, with the addition that two workers never serve the same phone (`OneServer`).
- `SharersHaveMargin`, `SharersAreBounded`: the margin argument again, with the query of `create_user` as the check.
- `IdentitiesMatch`: a login finds a row with the name and e-mail of its request, and an answered insert is of
  the request the phone waits for (`Awaits`, a part of the type invariant), whatever the fields hold by then.
- `IdentitiesBounded`: the accounts of the phones that are logged in with one name are rows with that name, so
  there are no more of them than threads. That there is one, `OneIdentity`, is what the run
  `AccountsOneIdentity` refutes.

`StartupProofs`:

- `RacesAreCheap`: `RaceInv` says what a conflict teaches: the schema exists after the first and the
  tables after the second, and both stay, so a later attempt cannot be refused for them.
- `ConfiguredLotsArePriced`, `LostRacesAreSeeded`: `SeedInv` says that the lots become visible
  together, all empty or all seeded, because each script has added or found every lot
  before the one it is at (`Covered`), and that the keys asked for are seeded (`KeysAreSeeded`).
- `SeedersCannotDeadlock`: `SoleInv` says that a lot is in one open transaction at most and is not configured yet.
  With `Covered`, a script that has inserted anything has inserted the first lot, so at most one has, and the others
  wait at that lot. It uses that all scripts go through the lots in one order; the mutant that reverses one of them
  deadlocks.
- `StartupTypeCorrect`.

*Only model-checked*: liveness (`BookingsAnswered`, `SpotsReleased`, `SeedingEnds`), since the prover
does not reason about fairness and ENABLED. Every invariant and action property of a
passing run is a theorem, the two about rewards under the assumptions of `FixedBaseIsSound`.

## 5. Not modelled

- Generated gRPC code, container configuration, the tests, the user interface's layout and themes, and the
  mock service of the app: no behaviour of the system.
- `confirm_booking`, `cancel_booking` and `initialize_lot` of the pricing service as operations of their own:
  nothing calls them; their bodies are `record_booking`, `record_no_booking` and `seed_lot`.
- The distribution of Thompson samples: any arm may win. Floating-point rounding of rewards and
  parameters: the evidence is conserved in exact arithmetic.
- A search for several lots: the app sends one lot, and each lot would be priced by itself.
- Times as text. A time that does not parse is the failure after the recorded booking that
  `Abort` already takes; time zones do not occur in the code.
- Whether a refused booking could have been made on another spot: `ReserveSpot` tries one available
  spot, which the model does too, and no document promises more.
- The release of a spot without a sensor. Neither a cancellation nor the end of the window releases it, so in the
  models, as in the code, it stays reserved; the interim report (`documentation/COE892 Interim_Final Report.docx.txt`
  185) announces expirations and spot release as work to come. What can be said of the code is `SpotsReleased`,
  of spots with a sensor.
- Outcomes nobody reports: the app never declines an offer, so nothing can be said of them.
- Occupancy in the context: the gateway always sends 0.0, although `documentation/architecture.md` 195 describes a
  query of the inventory. `ContextKey` covers all rates.
- Two disagreements follow from the models without a run of their own: a reservation may be confirmed on a spot
  that a sensor has reported occupied since the status was read (`inventory-service/DESIGN.md` 41), and a decline
  that is repeated is counted again in `total_pulls` (`pricing/models.py` 74).
