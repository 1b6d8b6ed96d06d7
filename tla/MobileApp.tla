----------------------------- MODULE MobileApp -----------------------------
(***************************************************************************)
(* Phones that run the app, before the gateway and the two services: the   *)
(* screens, what the booking screen remembers, the requests its buttons    *)
(* send and what their user is told. A request is a coroutine of the       *)
(* screen that sent it and dies with it, while the services go on; nothing *)
(* disables a button while a request is under way, and nothing declines an *)
(* offer: "Cancel" only goes back. When Android recreates the activity (a  *)
(* rotation is enough) the back stack survives, and what was only          *)
(* remembered does not.                                                    *)
(***************************************************************************)
EXTENDS ParkingSystem

CONSTANTS
  Phones,
  Account,      \* the user_id that the owner of each phone gets at login
  Nobody,       \* the user_id "" that stands for an unknown one
  FirstWindow,  \* what the fields of a new booking screen show
  MaxTaps       \* bound: confirmations

VARIABLES
  app,          \* what each phone shows and knows
  taps,         \* the confirmations, in the order of the taps
  tapOf         \* the tap each inventory worker serves, 0 if none

appVars == <<systemVars, app, taps, tapOf>>

ASSUME PhonesAssumption ==
  /\ Account \in [Phones -> Users \ {Nobody}]
  /\ Nobody \in Users
  /\ FirstWindow \in Windows
  /\ MaxTaps \in Nat

-----------------------------------------------------------------------------
(* State *)

Screens == {"login", "lots", "booking", "success", "mine"}

Screen(p) == app[p].stack[Len(app[p].stack)]

\* What a list of reservations says of one row.
Entry == [row: Nat, status: ReservationStatus]

\* What the booking screen remembers: an offer is its event's number, or 0 for
\* none: results on the way, the one shown and the one chosen.
\* The list of reservations: the workers that serve its cancels, how many told
\* it of success, the requests for a list not yet read, the lists on their way,
\* and the one it shows, if any.
\* A list, of lots or of reservations, is hidden while it is "loading".
Form == [window: Windows, coming: SUBSET Nat, found: Nat, chosen: Nat,
         loading: BOOLEAN, cancels: SUBSET Workers, cancelled: Nat, asked: Nat,
         lists: SUBSET SUBSET Entry, shown: SUBSET SUBSET Entry]

\* A screen that is entered: a list is fetched at once.
Entered(screen) ==
  [window |-> FirstWindow, coming |-> {}, found |-> 0, chosen |-> 0,
   loading |-> screen \in {"lots", "mine"}, cancels |-> {}, cancelled |-> 0,
   asked |-> IF screen = "mine" THEN 1 ELSE 0, lists |-> {}, shown |-> {}]

\* "done": what the services did with the request; "told": what the user saw.
Tap == [phone: Phones, user: Users, window: Windows, event: Nat,
        done: {"sent", "working", "granted", "refused"},
        told: {"waiting", "success", "failure", "nothing"}]

\* Offers are the booking screen's business, rows are the list's.
Fits(screen, form) ==
  /\ screen # "booking" => form.coming = {} /\ form.found = 0 /\ form.chosen = 0
  /\ screen # "mine" => /\ form.cancels = {} /\ form.cancelled = 0 /\ form.asked = 0
                        /\ form.lists = {} /\ form.shown = {}

\* The lists a screen shows or is about to show.
Answers(p) == app[p].form.lists \cup app[p].form.shown

AppTypeOK ==
  /\ SystemTypeOK
  /\ app \in [Phones -> [stack: Seq(Screens), user: Users, form: Form]]
  /\ \A p \in Phones :
       /\ Len(app[p].stack) > 0
       /\ app[p].user \in {Nobody, Account[p]}
       /\ app[p].form.coming \cup {app[p].form.found, app[p].form.chosen}
            \subseteq 0..Len(events)
       /\ Fits(Screen(p), app[p].form)
  /\ taps \in Seq(Tap)
  /\ tapOf \in [Workers -> 0..Len(taps)]
  /\ \A w \in Workers : tapOf[w] # 0 =>
       pc[w] \in ReservePC /\ taps[tapOf[w]].done = "working"
  /\ \A i \in 1..Len(taps) :
       taps[i].told = "waiting" => Screen(taps[i].phone) = "booking"

AppInit ==
  /\ SystemInit
  /\ app = [p \in Phones |-> [stack |-> <<"login">>, user |-> Nobody,
                           form |-> Entered("login")]]
  /\ taps = << >>
  /\ tapOf = [w \in Workers |-> 0]

-----------------------------------------------------------------------------
(* Navigation *)

\* The screen of phone p is left: its requests will not be answered.
Silenced(p) ==
  [i \in 1..Len(taps) |-> IF taps[i].phone = p /\ taps[i].told = "waiting"
                            THEN [taps[i] EXCEPT !.told = "nothing"] ELSE taps[i]]

SetForm(p, form) == app' = [app EXCEPT ![p].form = form]

Navigate(p, stack, user) ==
  /\ app' = [app EXCEPT ![p] = [stack |-> stack, user |-> user,
                                form |-> Entered(stack[Len(stack)])]]
  /\ taps' = Silenced(p)
  /\ UNCHANGED <<systemVars, tapOf>>

\* Logged in or signed up.
Login(p) ==
  /\ Screen(p) = "login"
  /\ Navigate(p, Append(app[p].stack, "lots"), Account[p])

\* The list of lots arrives; if it does not, the screen stays empty.
LoadLots(p) ==
  /\ Screen(p) = "lots"
  /\ SetForm(p, [app[p].form EXCEPT !.loading = FALSE])
  /\ UNCHANGED <<systemVars, taps, tapOf>>

OpenLot(p) ==
  /\ Screen(p) = "lots" /\ ~app[p].form.loading
  /\ Navigate(p, Append(app[p].stack, "booking"), app[p].user)

\* The list of the user's reservations; without a user the button does nothing.
OpenReservations(p) ==
  /\ Screen(p) \in {"lots", "success"} /\ app[p].user # Nobody
  /\ Navigate(p, Append(app[p].stack, "mine"), app[p].user)

\* popBackStack, by a button of the screen or the system's.
Back(p) ==
  /\ Len(app[p].stack) > 1
  /\ Navigate(p, SubSeq(app[p].stack, 1, Len(app[p].stack) - 1), app[p].user)

\* "Back to Home" pops all above the list of lots.
BackToHome(p) ==
  /\ Screen(p) = "success"
  /\ Navigate(p, <<"login", "lots">>, app[p].user)

\* Mutant of Recreate: the fields of the booking screen are saved, too.
RecreateSaved(p) ==
  /\ app' = [app EXCEPT ![p].user = Nobody]
  /\ taps' = Silenced(p)
  /\ UNCHANGED <<systemVars, tapOf>>

\* The activity is destroyed and created again.
Recreate(p) == Navigate(p, app[p].stack, Nobody)

-----------------------------------------------------------------------------
(* The booking screen *)

Edit(p, win) ==
  /\ Screen(p) = "booking"
  /\ SetForm(p, [app[p].form EXCEPT !.window = win])
  /\ UNCHANGED <<systemVars, taps, tapOf>>

\* GetLotOccupancy counts an available spot.
SpotsLeft == \E s \in Spots : status[s] = "available"

Expects(p, e) == SetForm(p, [app[p].form EXCEPT !.coming = @ \cup {e}])

\* "Search Availability": the gateway will answer with an offer, or with no
\* result if it counts no available spot.
TapSearch(p) ==
  /\ Screen(p) = "booking"
  /\ \/ Search(app[p].user) /\ Expects(p, Len(events'))
     \/ ~SpotsLeft /\ Expects(p, 0) /\ UNCHANGED systemVars
  /\ UNCHANGED <<taps, tapOf>>

\* Answers replace what is shown, in any order; the choice stays.
ShowResults(p, e) ==
  /\ e \in app[p].form.coming
  /\ SetForm(p, [app[p].form EXCEPT !.coming = @ \ {e}, !.found = e])
  /\ UNCHANGED <<systemVars, taps, tapOf>>

Choose(p) ==
  /\ app[p].form.found # 0
  /\ SetForm(p, [app[p].form EXCEPT !.chosen = app[p].form.found])
  /\ UNCHANGED <<systemVars, taps, tapOf>>

\* "Confirm Booking": the chosen offer, with the window of the fields of now.
Confirm(p) ==
  /\ app[p].form.chosen # 0 /\ Len(taps) < MaxTaps
  /\ taps' = Append(taps, [phone |-> p, user |-> app[p].user,
                           window |-> app[p].form.window, event |-> app[p].form.chosen,
                           done |-> "sent", told |-> "waiting"])
  /\ UNCHANGED <<systemVars, app, tapOf>>

-----------------------------------------------------------------------------
(* The list of reservations *)

\* Mutants of ListReservations: the rows of all users; the confirmed rows only.
ListAll(u) ==
  {[row |-> i, status |-> reservations[i].status] : i \in 1..Len(reservations)}

ListConfirmed(u) ==
  {[row |-> i, status |-> "confirmed"] :
     i \in {j \in 1..Len(reservations) : /\ reservations[j].user = u
                                         /\ reservations[j].status = "confirmed"}}

\* The rows of user u, with the status each has now.
ListReservations(u) ==
  {[row |-> i, status |-> reservations[i].status] :
     i \in {j \in 1..Len(reservations) : reservations[j].user = u}}

\* The service reads the rows; the answer is on its way.  The screen was opened
\* for the account, whoever the activity knows by now.
ReadList(p) ==
  /\ app[p].form.asked > 0
  /\ SetForm(p, [app[p].form EXCEPT !.asked = @ - 1,
                                    !.lists = @ \cup {ListReservations(Account[p])}])
  /\ UNCHANGED <<systemVars, taps, tapOf>>

\* Answers replace what is shown, in any order.
ShowList(p, l) ==
  /\ l \in app[p].form.lists
  /\ SetForm(p, [app[p].form EXCEPT !.lists = @ \ {l}, !.shown = {l},
                                    !.loading = FALSE])
  /\ UNCHANGED <<systemVars, taps, tapOf>>

\* The bin beside a row that the list shows, whatever its status was or is.
TapCancel(p, w, r) ==
  /\ ~app[p].form.loading
  /\ \E l \in app[p].form.shown : r \in l
  /\ Cancel(w, Account[p], r.row)
  /\ SetForm(p, [app[p].form EXCEPT !.cancels =
                   IF pc'[w] = "idle" THEN @ ELSE @ \cup {w}])
  /\ UNCHANGED <<taps, tapOf>>

\* Worker w is done with a cancel; n is 1 if it was a success, else 0.
Cancelled(w, n) ==
  app' = [p \in Phones |->
            IF w \in app[p].form.cancels
              THEN [app[p] EXCEPT !.form.cancels = @ \ {w}, !.form.cancelled = @ + n]
              ELSE app[p]]

\* The answer "Cancelled successfully" arrives: the list is fetched again.
Refetch(p) ==
  /\ app[p].form.cancelled > 0
  /\ SetForm(p, [app[p].form EXCEPT !.cancelled = @ - 1, !.asked = @ + 1,
                                    !.loading = TRUE])
  /\ UNCHANGED <<systemVars, taps, tapOf>>

\* No answer in time, to a cancel or to a fetch: a message, and what was shown.
CancelTimesOut(p) ==
  /\ \/ \E w \in app[p].form.cancels :
          SetForm(p, [app[p].form EXCEPT !.cancels = @ \ {w}])
     \/ /\ app[p].form.cancelled > 0
        /\ SetForm(p, [app[p].form EXCEPT !.cancelled = @ - 1])
  /\ UNCHANGED <<systemVars, taps, tapOf>>

FetchTimesOut(p, l) ==
  /\ l \in app[p].form.lists
  /\ SetForm(p, [app[p].form EXCEPT !.lists = @ \ {l}, !.loading = FALSE])
  /\ UNCHANGED <<systemVars, taps, tapOf>>

-----------------------------------------------------------------------------
(* The services *)

\* Mutant of Outcome: the worker stays bound to the tap it has answered.
OutcomeKeeps(w, result) ==
  IF tapOf[w] # 0 /\ pc'[w] = "idle"
    THEN taps' = [taps EXCEPT ![tapOf[w]].done = result] /\ UNCHANGED tapOf
    ELSE UNCHANGED <<taps, tapOf>>

\* What a step of worker w means for the tap it serves: w may have answered.
Outcome(w, result) ==
  IF tapOf[w] # 0 /\ pc'[w] = "idle"
    THEN /\ taps' = [taps EXCEPT ![tapOf[w]].done = result]
         /\ tapOf' = [tapOf EXCEPT ![w] = 0]
    ELSE UNCHANGED <<taps, tapOf>>

\* The gateway passes tap i to worker w, which may refuse it at once.
Deliver(w, i) ==
  /\ taps[i].done = "sent"
  /\ Book(w, taps[i].user, taps[i].event, events[taps[i].event].price, taps[i].window)
  /\ IF pc'[w] = "idle"
       THEN taps' = [taps EXCEPT ![i].done = "refused"] /\ UNCHANGED tapOf
       ELSE /\ taps' = [taps EXCEPT ![i].done = "working"]
            /\ tapOf' = [tapOf EXCEPT ![w] = i]
  /\ UNCHANGED app

\* Mutant of ServeStep: the gateway does not look at the reply's success.
ServeStepEarly(w) ==
  /\ ReserveStep(w) \/ Reserve(w)
  /\ Outcome(w, "granted")
  /\ UNCHANGED app

\* The worker answers success once the committed row was read back.
ServeStep(w) ==
  /\ ReserveStep(w) \/ Reserve(w)
  /\ Outcome(w, IF pc[w] = "refresh" THEN "granted" ELSE "refused")
  /\ UNCHANGED app

ServiceStep ==
  \/ \E w \in Workers :
       \/ ServeStep(w)
       \/ InventoryFails(w) /\ Outcome(w, "refused") /\ Cancelled(w, 0)
       \/ CancelStep(w) /\ Cancelled(w, 1) /\ UNCHANGED <<taps, tapOf>>
       \/ \E v \in PricingWorkers :
            \/ CallPricing(w, v) /\ UNCHANGED <<app, taps, tapOf>>
            \/ PricingRefuses(w, v) /\ Outcome(w, "refused") /\ UNCHANGED app
  \/ \E v \in PricingWorkers :
       \/ PricingRecords(v) /\ UNCHANGED <<app, taps, tapOf>>
       \/ /\ PricingFails(v)
          /\ IF caller[v] = NoCaller THEN UNCHANGED <<taps, tapOf>>
             ELSE Outcome(caller[v], "refused")
          /\ UNCHANGED app
  \/ Environment /\ UNCHANGED <<app, taps, tapOf>>

-----------------------------------------------------------------------------
(* Answers *)

\* The answer to tap i arrives: a message, or the screen of success, which
\* replaces the booking screen and the requests it still has.
ShowAnswer(i) ==
  /\ taps[i].told = "waiting"
  /\ \/ /\ taps[i].done = "refused"
        /\ taps' = [taps EXCEPT ![i].told = "failure"]
        /\ UNCHANGED app
     \/ LET p == taps[i].phone IN
          /\ taps[i].done = "granted"
          /\ taps' = [Silenced(p) EXCEPT ![i].told = "success"]
          /\ app' = [app EXCEPT ![p].stack = Append(@, "success"), ![p].form = Entered("success")]
  /\ UNCHANGED <<systemVars, tapOf>>

\* No answer in ten seconds, or a broken connection: an error is shown, and the
\* services may go on with the request.
TimesOut(i) ==
  /\ taps[i].told = "waiting"
  /\ taps' = [taps EXCEPT ![i].told = "failure"]
  /\ UNCHANGED <<systemVars, app, tapOf>>

-----------------------------------------------------------------------------

PhoneStep(p) ==
  \/ Login(p) \/ LoadLots(p) \/ OpenLot(p) \/ OpenReservations(p)
  \/ Back(p) \/ BackToHome(p) \/ Recreate(p)
  \/ \E win \in Windows : Edit(p, win)
  \/ TapSearch(p)
  \/ \E e \in 0..Len(events) : ShowResults(p, e)
  \/ Choose(p)
  \/ Confirm(p)
  \/ ReadList(p)
  \/ \E l \in app[p].form.lists : ShowList(p, l) \/ FetchTimesOut(p, l)
  \/ \E w \in Workers, r \in UNION app[p].form.shown : TapCancel(p, w, r)
  \/ Refetch(p) \/ CancelTimesOut(p)

AppNext ==
  \/ \E p \in Phones : PhoneStep(p)
  \/ \E i \in 1..Len(taps) :
       \/ \E w \in Workers : Deliver(w, i)
       \/ ShowAnswer(i)
       \/ TimesOut(i)
  \/ ServiceStep

AppSpec == AppInit /\ [][AppNext]_appVars

-----------------------------------------------------------------------------
(* Properties *)

\* The taps of user u on "Confirm" for offer e and window win.
TapsFor(u, e, win) ==
  {i \in 1..Len(taps) : taps[i].user = u /\ taps[i].event = e /\ taps[i].window = win}

ReservedFor(u, e, win) ==
  {i \in Reserved(e) : reservations[i].user = u /\ reservations[i].window = win}

\* Who is shown "Your reservation was successful" has a reservation of the
\* offer and the window confirmed, and another one for each tap that was told
\* so, however taps are doubled, time out or outlive their screen.
SuccessIsReserved ==
  \A u \in Users, e \in 1..Len(events), win \in Windows :
    Cardinality({i \in TapsFor(u, e, win) : taps[i].told = "success"})
      <= Cardinality(ReservedFor(u, e, win))

\* The app never confirms an offer that was made to somebody else, so no
\* booking fails because the user does not match: what a screen remembers is
\* lost together with the user it was fetched for.
ConfirmsOwnOffers ==
  \A i \in 1..Len(taps) : events[taps[i].event].user = taps[i].user

\* However late and out of order lists arrive, each is of rows of the account it
\* was asked for, and a reservation it shows as cancelled is cancelled for good:
\* an old list errs only by showing as confirmed what was cancelled since.
ListsArePast ==
  \A p \in Phones : \A l \in Answers(p) : \A r \in l :
    /\ r.row \in 1..Len(reservations)
    /\ reservations[r.row].user = Account[p]
    /\ r.status = "cancelled" => reservations[r.row].status = "cancelled"

\* A reservation that the phone has announced is on every list it then shows,
\* cancelled or not, as long as it was made for the account.
SuccessIsListed ==
  \A p \in Phones : \A l \in Answers(p) :
    \A e \in 1..Len(events), win \in Windows :
      Cardinality({i \in TapsFor(Account[p], e, win) :
                     taps[i].phone = p /\ taps[i].told = "success"})
        <= Cardinality({i \in ReservedFor(Account[p], e, win) :
                          \E r \in l : r.row = i})
=============================================================================
