---------------------------- MODULE MobileProofs ----------------------------
(***************************************************************************)
(* Theorems about MobileApp, for every set of phones, users, spots,        *)
(* windows, offers and threads of the two services.                        *)
(***************************************************************************)
EXTENDS MobileApp, ParkingProofs, SequenceTheorems

-----------------------------------------------------------------------------
(* The inductive invariant *)

\* An offer that the screen of user u remembers: none, or one made to u.
OwnOffer(log, e, u) == e = 0 \/ (e \in 1..Len(log) /\ log[e].user = u)

FormOK(log, f, u) ==
  /\ f \in Form
  /\ \A e \in f.coming \cup {f.found, f.chosen} : OwnOffer(log, e, u)

Phone == [stack: Seq(Screens), user: Users, form: Form]

PhoneOK(log, p, ph) ==
  /\ ph \in Phone
  /\ Len(ph.stack) > 0
  /\ ph.user \in {Nobody, Account[p]}
  /\ FormOK(log, ph.form, ph.user)
  /\ Fits(ph.stack[Len(ph.stack)], ph.form)

ScreensOK ==
  /\ app \in [Phones -> Phone]
  /\ \A p \in Phones : PhoneOK(events, p, app[p])

TapOK(log, t) ==
  /\ t \in Tap
  /\ t.event \in 1..Len(log) /\ log[t.event].user = t.user
  /\ t.told = "success" => t.done = "granted"

\* Whoever waits for an answer is still on the screen that asked.
WaitingOK ==
  \A i \in 1..Len(taps) :
    taps[i].told = "waiting" => Screen(taps[i].phone) = "booking"

TapsOK == taps \in Seq(Tap) /\ \A i \in 1..Len(taps) : TapOK(events, taps[i])

\* Worker w's request is the one of tap i.
Serves(w, i) ==
  /\ i \in 1..Len(taps) /\ taps[i].done = "working"
  /\ pc[w] \in ReservePC
  /\ req[w].user = taps[i].user /\ req[w].window = taps[i].window
  /\ call[w].event = taps[i].event

ServersOK ==
  /\ tapOf \in [Workers -> Nat]
  /\ \A w \in Workers : tapOf[w] # 0 => Serves(w, tapOf[w])
  /\ \A w, o \in Workers : tapOf[w] # 0 /\ tapOf[w] = tapOf[o] => w = o

AppLinks ==
  TypeOK /\ LinkInv /\ ScreensOK /\ ListsArePast /\ TapsOK /\ WaitingOK /\ ServersOK

LEMMA AppLinksTyped ==
  ASSUME AppLinks
  PROVE  AppTypeOK /\ ConfirmsOwnOffers
<1>1. SystemTypeOK
  BY DEF AppLinks, LinkInv, CallsOK, CallersOK, CallersTyped, BookingsTyped, SystemTypeOK
<1>2. Len(events) \in Nat
  BY DEF AppLinks, LinkInv, Prc!TypeOK
<1>3. ASSUME NEW p \in Phones
      PROVE  /\ Len(app[p].stack) > 0
             /\ app[p].user \in {Nobody, Account[p]}
             /\ app[p].form.coming \cup {app[p].form.found, app[p].form.chosen}
                  \subseteq 0..Len(events)
             /\ Fits(Screen(p), app[p].form)
  <2>1. PhoneOK(events, p, app[p])
    BY DEF AppLinks, ScreensOK
  <2>2. Fits(Screen(p), app[p].form)
    BY <2>1 DEF PhoneOK, Screen
  <2> QED
    BY <1>2, <2>1, <2>2 DEF PhoneOK, FormOK, OwnOffer
<1>4. tapOf \in [Workers -> 0..Len(taps)]
  BY DEF AppLinks, ServersOK, Serves, TapsOK
<1>5. \A w \in Workers : tapOf[w] # 0 =>
        pc[w] \in ReservePC /\ taps[tapOf[w]].done = "working"
  BY DEF AppLinks, ServersOK, Serves
<1>6. app \in [Phones -> [stack: Seq(Screens), user: Users, form: Form]] /\ taps \in Seq(Tap)
  BY DEF AppLinks, ScreensOK, TapsOK, Phone
<1>7. AppTypeOK
  BY <1>1, <1>3, <1>4, <1>5, <1>6 DEF AppTypeOK, AppLinks, WaitingOK
<1>8. ConfirmsOwnOffers
  BY DEF AppLinks, TapsOK, TapOK, ConfirmsOwnOffers
<1> QED
  BY <1>7, <1>8

\* A screen that is entered knows nothing of offers and rows.
LEMMA EnteredForm ==
  ASSUME NEW screen, NEW log, NEW u
  PROVE  /\ Entered(screen) \in Form /\ FormOK(log, Entered(screen), u)
         /\ Fits(screen, Entered(screen))
<1>1. Entered(screen) \in Form
  BY PhonesAssumption DEF Entered, Form
<1> QED
  BY <1>1 DEF FormOK, Entered, OwnOffer, Fits

LEMMA AppLinksInit ==
  ASSUME AppInit
  PROVE  AppLinks
<1>1. TypeOK /\ LinkInv
  BY LinksInit DEF AppInit
<1> DEFINE ph == [stack |-> <<"login">>, user |-> Nobody, form |-> Entered("login")]
<1>2. Entered("login") \in Form /\ FormOK(events, Entered("login"), Nobody)
      /\ Fits("login", Entered("login"))
  BY EnteredForm DEF Screens
<1>3. /\ ph \in Phone /\ Len(ph.stack) > 0 /\ ph.stack[Len(ph.stack)] = "login"
      /\ ph.user = Nobody /\ ph.form = Entered("login")
  BY <1>2, PhonesAssumption DEF Phone, Screens
<1>4. app = [p \in Phones |-> ph]
  BY DEF AppInit
<1> HIDE DEF ph
<1>6. ScreensOK
  BY <1>2, <1>3, <1>4 DEF ScreensOK, PhoneOK
<1>7. TapsOK /\ WaitingOK /\ ServersOK
  BY DEF AppInit, TapsOK, WaitingOK, ServersOK
<1>8. ListsArePast
  BY <1>3, <1>4 DEF ListsArePast, Answers, Entered
<1> QED
  BY <1>1, <1>6, <1>7, <1>8 DEF AppLinks

-----------------------------------------------------------------------------
(* The system inside the app *)

\* The phones make the gateway and the services do nothing that any other
\* client could not make them do.
LEMMA AppStepInside ==
  ASSUME AppLinks, [AppNext]_appVars
  PROVE  [SystemNext]_systemVars
<1> USE DEF AppLinks
<1>1. ASSUME NEW p \in Phones, PhoneStep(p) PROVE [SystemNext]_systemVars
  <2>0. app[p].user \in Users /\ Account[p] \in Users
    BY PhonesAssumption DEF ScreensOK, Phone
  <2>1. CASE \/ Login(p) \/ OpenLot(p) \/ OpenReservations(p)
             \/ Back(p) \/ BackToHome(p) \/ Recreate(p)
    BY <2>1 DEF Login, OpenLot, OpenReservations, Back, BackToHome, Recreate, Navigate
  <2>2. CASE \/ \E win \in Windows : Edit(p, win)
             \/ \E e \in 0..Len(events) : ShowResults(p, e)
             \/ LoadLots(p) \/ Choose(p) \/ Confirm(p)
    BY <2>2 DEF LoadLots, Edit, ShowResults, Choose, Confirm
  <2>5. CASE \/ ReadList(p) \/ Refetch(p) \/ CancelTimesOut(p)
             \/ \E l \in app[p].form.lists : ShowList(p, l) \/ FetchTimesOut(p, l)
    BY <2>5 DEF ReadList, Refetch, CancelTimesOut, ShowList, FetchTimesOut
  <2>3. CASE TapSearch(p)
    BY <2>0, <2>3 DEF TapSearch, SystemNext
  <2>4. ASSUME NEW w \in Workers, NEW r \in UNION app[p].form.shown, TapCancel(p, w, r)
        PROVE  SystemNext
    <3>1. Cancel(w, Account[p], r.row)
      BY <2>4 DEF TapCancel
    <3>2. r.row \in 1..Len(reservations) + 1
      BY <2>4 DEF ListsArePast, Answers, TypeOK
    <3> QED
      BY <2>0, <3>1, <3>2 DEF SystemNext
  <2> QED
    BY <1>1, <2>1, <2>2, <2>3, <2>4, <2>5 DEF PhoneStep
<1>2. ASSUME NEW i \in 1..Len(taps), NEW w \in Workers, Deliver(w, i)
      PROVE  SystemNext
  <2>1. TapOK(events, taps[i]) /\ taps[i] \in Tap
    BY DEF TapsOK, TapOK
  <2>2. taps[i].user \in Users /\ taps[i].window \in Windows /\ taps[i].event \in 1..Len(events)
    BY <2>1 DEF Tap, TapOK
  <2>3. events[taps[i].event].price \in Prices
    BY <2>2 DEF Prices
  <2>4. Book(w, taps[i].user, taps[i].event, events[taps[i].event].price, taps[i].window)
    BY <1>2 DEF Deliver
  <2> QED
    BY <2>2, <2>3, <2>4 DEF SystemNext
<1>3. ASSUME NEW i \in 1..Len(taps), ShowAnswer(i) \/ TimesOut(i)
      PROVE  UNCHANGED systemVars
  BY <1>3 DEF ShowAnswer, TimesOut
<1>4. ASSUME ServiceStep PROVE SystemNext
  BY <1>4 DEF ServiceStep, ServeStep, SystemNext
<1>5. CASE UNCHANGED appVars
  BY <1>5 DEF appVars
<1> QED
  BY <1>1, <1>2, <1>3, <1>4, <1>5 DEF AppNext

-----------------------------------------------------------------------------
(* What the screens remember *)

\* Offers stay what they are.
LEMMA OffersKept ==
  ASSUME LinkInv, LinkInv', OffersGrow
  PROVE  /\ Len(events) \in Nat /\ Len(events') \in Nat /\ Len(events) <= Len(events')
         /\ \A e \in 1..Len(events) : e \in 1..Len(events') /\ events'[e].user = events[e].user
<1>1. Len(events) \in Nat /\ Len(events') \in Nat
  BY DEF LinkInv, Prc!TypeOK
<1> QED
  BY <1>1 DEF OffersGrow

LEMMA FormKept ==
  ASSUME LinkInv, LinkInv', OffersGrow, NEW f, NEW u, FormOK(events, f, u)
  PROVE  FormOK(events', f, u)
BY OffersKept DEF FormOK, OwnOffer

\* Phone p shows something else, the other phones do not.
LEMMA PhoneChanges ==
  ASSUME LinkInv, LinkInv', OffersGrow, ScreensOK, NEW p \in Phones, NEW ph,
         PhoneOK(events', p, ph), app' = [app EXCEPT ![p] = ph]
  PROVE  ScreensOK'
<1>1. app' \in [Phones -> Phone]
  BY DEF ScreensOK, PhoneOK
<1>2. ASSUME NEW q \in Phones PROVE PhoneOK(events', q, app'[q])
  BY FormKept DEF ScreensOK, PhoneOK
<1> QED
  BY <1>1, <1>2 DEF ScreensOK

\* A new screen remembers nothing.
LEMMA NewScreen ==
  ASSUME AppLinks, LinkInv', OffersGrow, NEW p \in Phones, NEW stack \in Seq(Screens),
         Len(stack) > 0, NEW u \in {Nobody, Account[p]}, Navigate(p, stack, u)
  PROVE  ScreensOK'
<1> DEFINE f == Entered(stack[Len(stack)])
           ph == [stack |-> stack, user |-> u, form |-> f]
<1>1. f \in Form /\ FormOK(events', f, u) /\ Fits(stack[Len(stack)], f) /\ u \in Users
  BY PhonesAssumption, EnteredForm
<1>3. app' = [app EXCEPT ![p] = ph]
  BY DEF Navigate
<1> HIDE DEF f
<1>2. ph \in Phone /\ ph.stack = stack /\ ph.user = u /\ ph.form = f
  BY <1>1 DEF Phone
<1> HIDE DEF ph
<1>5. PhoneOK(events', p, ph)
  BY <1>1, <1>2 DEF PhoneOK
<1> QED
  BY <1>3, <1>5, PhoneChanges DEF AppLinks

\* The booking screen remembers something else.
LEMMA NewFields ==
  ASSUME AppLinks, LinkInv', OffersGrow, NEW p \in Phones, NEW f,
         FormOK(events', f, app[p].user), Fits(Screen(p), f),
         app' = [app EXCEPT ![p].form = f]
  PROVE  ScreensOK'
<1> DEFINE ph == [stack |-> app[p].stack, user |-> app[p].user, form |-> f]
<1>1. /\ app[p] \in Phone /\ Len(app[p].stack) > 0
      /\ app[p].user \in {Nobody, Account[p]} /\ f \in Form
      /\ app \in [Phones -> Phone]
  BY DEF AppLinks, ScreensOK, PhoneOK, FormOK
<1>2. /\ ph \in Phone
      /\ ph.stack = app[p].stack /\ ph.user = app[p].user /\ ph.form = f
  BY <1>1 DEF Phone
<1>3. [app[p] EXCEPT !.form = f] = ph
  BY <1>1 DEF Phone
<1>4. app' = [app EXCEPT ![p] = ph]
  BY <1>1, <1>3
<1> HIDE DEF ph
<1>5. PhoneOK(events', p, ph)
  BY <1>1, <1>2 DEF PhoneOK, Screen
<1> QED
  BY <1>4, <1>5, PhoneChanges DEF AppLinks

\* The success screen replaces the booking screen.
LEMMA SuccessScreen ==
  ASSUME AppLinks, LinkInv', OffersGrow, NEW p \in Phones,
         app' = [app EXCEPT ![p].stack = Append(@, "success"),
                           ![p].form = Entered("success")]
  PROVE  ScreensOK'
<1> DEFINE st == Append(app[p].stack, "success")
           f == Entered("success")
           ph == [stack |-> st, user |-> app[p].user, form |-> f]
<1>1. /\ app[p] \in Phone /\ app \in [Phones -> Phone]
      /\ app[p].stack \in Seq(Screens) /\ app[p].user \in {Nobody, Account[p]}
      /\ app[p].user \in Users
  BY DEF AppLinks, ScreensOK, PhoneOK, Phone
<1>2. st \in Seq(Screens) /\ Len(st) > 0 /\ st[Len(st)] = "success"
  BY <1>1 DEF Screens
<1>3. f \in Form /\ FormOK(events', f, app[p].user) /\ Fits("success", f)
  BY EnteredForm
<1> HIDE DEF f
<1>4. app' = [app EXCEPT ![p] = ph]
  <2> DEFINE d == [app[p] EXCEPT !.stack = st, !.form = f]
  <2>1. d \in Phone /\ d.stack = st /\ d.user = app[p].user /\ d.form = f
    BY <1>1, <1>2, <1>3 DEF Phone
  <2>2. d = ph
    <3> HIDE DEF d
    <3> QED
      BY <2>1 DEF Phone
  <2> QED
    BY <1>1, <2>2 DEF f
<1> HIDE DEF st
<1>5. /\ ph \in Phone /\ ph.stack = st /\ ph.user = app[p].user /\ ph.form = f
  BY <1>1, <1>2, <1>3 DEF Phone
<1> HIDE DEF ph
<1>7. PhoneOK(events', p, ph)
  BY <1>1, <1>2, <1>3, <1>5 DEF PhoneOK
<1> QED
  BY <1>4, <1>7, PhoneChanges DEF AppLinks

\* The forms that the lists of lots and of reservations pass through: offers
\* are not touched, and the only list of rows that is new was read just now.
ListForm(p) ==
  \E f \in Form :
    /\ app' = [app EXCEPT ![p].form = f]
    /\ f.coming = app[p].form.coming
    /\ f.found = app[p].form.found /\ f.chosen = app[p].form.chosen
    /\ Fits(Screen(p), f)
    /\ \A l \in f.lists \cup f.shown :
         l \in Answers(p) \/ (l = ListReservations(Account[p]) /\ UNCHANGED systemVars)
    /\ UNCHANGED <<taps, tapOf>>

ListStep(p) ==
  \/ LoadLots(p) \/ ReadList(p) \/ Refetch(p) \/ CancelTimesOut(p)
  \/ \E l \in app[p].form.lists : ShowList(p, l) \/ FetchTimesOut(p, l)
  \/ \E w \in Workers, r \in UNION app[p].form.shown : TapCancel(p, w, r)

LEMMA ListForms ==
  ASSUME AppLinks, NEW p \in Phones, ListStep(p)
  PROVE  ListForm(p)
<1> DEFINE g == app[p].form
<1>1. g \in Form /\ Fits(Screen(p), g)
  BY DEF AppLinks, ScreensOK, PhoneOK, Phone, Screen
<1>2. UNCHANGED <<taps, tapOf>>
  BY DEF ListStep, LoadLots, ReadList, Refetch, CancelTimesOut, ShowList, FetchTimesOut, TapCancel
<1>3. CASE LoadLots(p)
  <2> DEFINE f == [g EXCEPT !.loading = FALSE]
  <2>1. /\ f \in Form /\ f.lists = g.lists /\ f.shown = g.shown /\ Fits(Screen(p), f)
        /\ f.coming = g.coming /\ f.found = g.found /\ f.chosen = g.chosen
    BY <1>1 DEF Form, Fits
  <2>2. app' = [app EXCEPT ![p].form = f]
    BY <1>3 DEF LoadLots, SetForm
  <2> HIDE DEF f
  <2> QED
    BY <1>2, <2>1, <2>2 DEF ListForm, Answers
<1>4. CASE ReadList(p)
  <2> DEFINE new == ListReservations(Account[p])
             n == g.asked - 1
             lists == g.lists \cup {new}
             f == [g EXCEPT !.asked = n, !.lists = lists]
  <2>0. new \in SUBSET Entry
    <3>1. ASSUME NEW i \in 1..Len(reservations)
          PROVE  [row |-> i, status |-> reservations[i].status] \in Entry
      <4>1. reservations[i] \in Reservation /\ i \in Nat
        BY DEF AppLinks, TypeOK
      <4> QED
        BY <4>1 DEF Reservation, Entry
    <3> QED
      BY <3>1 DEF ListReservations
  <2>00. Screen(p) = "mine"
    BY <1>1, <1>4 DEF ReadList, Fits
  <2>2. app' = [app EXCEPT ![p].form = f] /\ UNCHANGED systemVars
    BY <1>4 DEF ReadList, SetForm
  <2> HIDE DEF new
  <2>3a. n \in Nat
    BY <1>1, <1>4 DEF Form, ReadList
  <2>3b. lists \in SUBSET SUBSET Entry
    BY <1>1, <2>0 DEF Form
  <2> HIDE DEF n, lists
  <2>1. /\ f \in Form /\ f.lists = lists /\ f.shown = g.shown
        /\ f.coming = g.coming /\ f.found = g.found /\ f.chosen = g.chosen
    BY <1>1, <2>3a, <2>3b DEF Form
  <2> HIDE DEF f
  <2>3. Fits(Screen(p), f)
    BY <1>1, <2>00, <2>1 DEF Fits
  <2> QED
    BY <1>2, <2>1, <2>2, <2>3 DEF ListForm, Answers, new, lists
<1>5. CASE Refetch(p)
  <2> DEFINE n == g.cancelled - 1
             m == g.asked + 1
             f == [g EXCEPT !.cancelled = n, !.asked = m, !.loading = TRUE]
  <2>00. Screen(p) = "mine"
    BY <1>1, <1>5 DEF Refetch, Fits
  <2>2. app' = [app EXCEPT ![p].form = f]
    BY <1>5 DEF Refetch, SetForm
  <2>3a. n \in Nat /\ m \in Nat
    BY <1>1, <1>5 DEF Form, Refetch
  <2> HIDE DEF n, m
  <2>1. /\ f \in Form /\ f.lists = g.lists /\ f.shown = g.shown
        /\ f.coming = g.coming /\ f.found = g.found /\ f.chosen = g.chosen
    BY <1>1, <2>3a DEF Form
  <2> HIDE DEF f
  <2>3. Fits(Screen(p), f)
    BY <1>1, <2>00, <2>1 DEF Fits
  <2> QED
    BY <1>2, <2>1, <2>2, <2>3 DEF ListForm, Answers
<1>6. CASE CancelTimesOut(p)
  <2>1. PICK f \in Form :
          /\ f.lists = g.lists /\ f.shown = g.shown /\ Fits(Screen(p), f)
          /\ f.coming = g.coming /\ f.found = g.found /\ f.chosen = g.chosen
          /\ app' = [app EXCEPT ![p].form = f]
    <3>1. ASSUME NEW w \in g.cancels, SetForm(p, [g EXCEPT !.cancels = @ \ {w}])
          PROVE  \E f \in Form :
                   /\ f.lists = g.lists /\ f.shown = g.shown /\ Fits(Screen(p), f)
                   /\ f.coming = g.coming /\ f.found = g.found /\ f.chosen = g.chosen
                   /\ app' = [app EXCEPT ![p].form = f]
      <4> DEFINE f == [g EXCEPT !.cancels = @ \ {w}]
      <4>1. /\ f \in Form /\ f.lists = g.lists /\ f.shown = g.shown /\ Fits(Screen(p), f)
            /\ f.coming = g.coming /\ f.found = g.found /\ f.chosen = g.chosen
        BY <1>1 DEF Form, Fits
      <4>2. app' = [app EXCEPT ![p].form = f]
        BY <3>1 DEF SetForm
      <4> HIDE DEF f
      <4> QED
        BY <4>1, <4>2
    <3>2. ASSUME g.cancelled > 0, SetForm(p, [g EXCEPT !.cancelled = @ - 1])
          PROVE  \E f \in Form :
                   /\ f.lists = g.lists /\ f.shown = g.shown /\ Fits(Screen(p), f)
                   /\ f.coming = g.coming /\ f.found = g.found /\ f.chosen = g.chosen
                   /\ app' = [app EXCEPT ![p].form = f]
      <4> DEFINE f == [g EXCEPT !.cancelled = @ - 1]
      <4>1. /\ f \in Form /\ f.lists = g.lists /\ f.shown = g.shown /\ Fits(Screen(p), f)
            /\ f.coming = g.coming /\ f.found = g.found /\ f.chosen = g.chosen
        BY <1>1, <3>2 DEF Form, Fits
      <4>2. app' = [app EXCEPT ![p].form = f]
        BY <3>2 DEF SetForm
      <4> HIDE DEF f
      <4> QED
        BY <4>1, <4>2
    <3> QED
      BY <1>6, <3>1, <3>2 DEF CancelTimesOut
  <2> QED
    BY <1>2, <2>1 DEF ListForm, Answers
<1>7. ASSUME NEW l \in g.lists, ShowList(p, l) PROVE ListForm(p)
  <2> DEFINE f == [g EXCEPT !.lists = @ \ {l}, !.shown = {l}, !.loading = FALSE]
  <2>00. Screen(p) = "mine"
    BY <1>1, <1>7 DEF Fits
  <2>1. /\ f \in Form /\ f.lists = g.lists \ {l} /\ f.shown = {l}
        /\ f.coming = g.coming /\ f.found = g.found /\ f.chosen = g.chosen
    BY <1>1, <1>7 DEF Form
  <2>2. app' = [app EXCEPT ![p].form = f]
    BY <1>7 DEF ShowList, SetForm
  <2> HIDE DEF f
  <2>3. Fits(Screen(p), f)
    BY <1>1, <2>00, <2>1 DEF Fits
  <2> QED
    BY <1>2, <1>7, <2>1, <2>2, <2>3 DEF ListForm, Answers
<1>8. ASSUME NEW l \in g.lists, FetchTimesOut(p, l) PROVE ListForm(p)
  <2> DEFINE f == [g EXCEPT !.lists = @ \ {l}, !.loading = FALSE]
  <2>1. /\ f \in Form /\ f.lists = g.lists \ {l} /\ f.shown = g.shown
        /\ f.coming = g.coming /\ f.found = g.found /\ f.chosen = g.chosen
        /\ Fits(Screen(p), f)
    BY <1>1, <1>8 DEF Form, Fits
  <2>2. app' = [app EXCEPT ![p].form = f]
    BY <1>8 DEF FetchTimesOut, SetForm
  <2> HIDE DEF f
  <2> QED
    BY <1>2, <2>1, <2>2 DEF ListForm, Answers
<1>9. ASSUME NEW w \in Workers, NEW r \in UNION g.shown, TapCancel(p, w, r) PROVE ListForm(p)
  <2> DEFINE c == IF pc'[w] = "idle" THEN g.cancels ELSE g.cancels \cup {w}
             f == [g EXCEPT !.cancels = c]
  <2>0. c \in SUBSET Workers
    BY <1>1 DEF Form
  <2>00. Screen(p) = "mine"
    BY <1>1, <1>9 DEF Fits
  <2>2. app' = [app EXCEPT ![p].form = f]
    BY <1>9 DEF TapCancel, SetForm
  <2> HIDE DEF c
  <2>1. /\ f \in Form /\ f.lists = g.lists /\ f.shown = g.shown
        /\ f.coming = g.coming /\ f.found = g.found /\ f.chosen = g.chosen
    BY <1>1, <2>0 DEF Form
  <2> HIDE DEF f
  <2>3. Fits(Screen(p), f)
    BY <1>1, <2>00, <2>1 DEF Fits
  <2> QED
    BY <1>2, <2>1, <2>2, <2>3 DEF ListForm, Answers
<1> QED
  BY <1>3, <1>4, <1>5, <1>6, <1>7, <1>8, <1>9 DEF ListStep

\* A worker that served a cancel is done with it.
LEMMA CancelledForm ==
  ASSUME AppLinks, NEW w, NEW n \in {0, 1}, Cancelled(w, n), NEW p \in Phones
  PROVE  /\ app' \in [Phones -> Phone]
         /\ app'[p].stack = app[p].stack /\ app'[p].user = app[p].user
         /\ app'[p].form.coming = app[p].form.coming
         /\ app'[p].form.found = app[p].form.found
         /\ app'[p].form.chosen = app[p].form.chosen
         /\ app'[p].form.lists = app[p].form.lists
         /\ app'[p].form.shown = app[p].form.shown
         /\ Fits(Screen(p), app'[p].form)
<1>1. ASSUME NEW q \in Phones
      PROVE  /\ app'[q] \in Phone
             /\ app'[q].stack = app[q].stack /\ app'[q].user = app[q].user
             /\ app'[q].form.coming = app[q].form.coming
             /\ app'[q].form.found = app[q].form.found
             /\ app'[q].form.chosen = app[q].form.chosen
             /\ app'[q].form.lists = app[q].form.lists
             /\ app'[q].form.shown = app[q].form.shown
             /\ Fits(Screen(q), app'[q].form)
  <2> DEFINE g == app[q].form
  <2>1. app[q] \in Phone /\ g \in Form /\ Fits(Screen(q), g)
    BY DEF AppLinks, ScreensOK, PhoneOK, Phone, Screen
  <2>2. CASE w \notin g.cancels
    BY <2>1, <2>2 DEF Cancelled
  <2>3. CASE w \in g.cancels
    <3> DEFINE ph == [app[q] EXCEPT !.form.cancels = @ \ {w}, !.form.cancelled = @ + n]
               c == g.cancels \ {w}
               m == g.cancelled + n
               f == [g EXCEPT !.cancels = c, !.cancelled = m]
    <3>1. app'[q] = ph
      BY <2>3 DEF Cancelled
    <3>3. ph = [app[q] EXCEPT !.form = f]
      BY <2>1 DEF Phone, Form
    <3>2a. c \in SUBSET Workers /\ m \in Nat
      BY <2>1 DEF Form
    <3> HIDE DEF c, m
    <3>2. /\ f \in Form /\ f.coming = g.coming /\ f.found = g.found
          /\ f.chosen = g.chosen /\ f.lists = g.lists /\ f.shown = g.shown
      BY <2>1, <3>2a DEF Form
    <3>4. Screen(q) = "mine"
      BY <2>1, <2>3 DEF Fits
    <3> HIDE DEF ph, f
    <3>5. Fits(Screen(q), f)
      BY <2>1, <3>2, <3>4 DEF Fits
    <3>6. ph \in Phone /\ ph.form = f /\ ph.stack = app[q].stack /\ ph.user = app[q].user
      BY <2>1, <3>2, <3>3 DEF Phone
    <3> QED
      BY <3>1, <3>2, <3>5, <3>6
  <2> QED
    BY <2>2, <2>3
<1>2. app' = [q \in Phones |-> app'[q]]
  BY DEF Cancelled
<1> QED
  BY <1>1, <1>2

\* Every step keeps what the screens remember the offers of their user.
LEMMA ScreensStep ==
  ASSUME AppLinks, LinkInv', OffersGrow, [AppNext]_appVars
  PROVE  ScreensOK'
<1>0. ASSUME app' = app PROVE ScreensOK'
  BY <1>0, FormKept DEF AppLinks, ScreensOK, PhoneOK
<1>1. ASSUME NEW p \in Phones, PhoneStep(p) PROVE ScreensOK'
  <2>0. /\ app[p] \in Phone /\ app[p].stack \in Seq(Screens) /\ Len(app[p].stack) > 0
        /\ app[p].user \in {Nobody, Account[p]}
        /\ app[p].form \in Form /\ FormOK(events, app[p].form, app[p].user)
        /\ Len(app[p].stack) \in Nat
    <3>1. PhoneOK(events, p, app[p])
      BY DEF AppLinks, ScreensOK
    <3>2. app[p] \in Phone /\ FormOK(events, app[p].form, app[p].user)
      BY <3>1 DEF PhoneOK
    <3>3. app[p].stack \in Seq(Screens) /\ app[p].form \in Form
      BY <3>2 DEF Phone
    <3> QED
      BY <3>1, <3>2, <3>3 DEF PhoneOK
  <2>00. FormOK(events', app[p].form, app[p].user)
    BY <2>0, FormKept DEF AppLinks
  <2>000. Fits(Screen(p), app[p].form)
    BY DEF AppLinks, ScreensOK, PhoneOK, Screen
  <2>1. CASE Login(p) \/ OpenLot(p) \/ OpenReservations(p)
    <3>1. PICK s \in Screens, u \in {Nobody, Account[p]} :
            Navigate(p, Append(app[p].stack, s), u)
      BY <2>0, <2>1 DEF Login, OpenLot, OpenReservations, Screens
    <3> DEFINE stack == Append(app[p].stack, s)
    <3>2. stack \in Seq(Screens) /\ Len(stack) > 0
      BY <2>0
    <3>3. Navigate(p, stack, u)
      BY <3>1
    <3> HIDE DEF stack
    <3> QED
      BY <3>2, <3>3, NewScreen
  <2>2. CASE Back(p)
    <3> DEFINE n == Len(app[p].stack) - 1
               stack == SubSeq(app[p].stack, 1, n)
    <3>1. n \in Nat /\ n > 0 /\ \A i \in 1..n : app[p].stack[i] \in Screens
      BY <2>0, <2>2 DEF Back
    <3>2. Navigate(p, stack, app[p].user)
      BY <2>2 DEF Back
    <3> HIDE DEF n
    <3>3. stack \in Seq(Screens) /\ Len(stack) > 0
      BY <3>1, SubSeqProperties
    <3> HIDE DEF stack
    <3> QED
      BY <2>0, <3>2, <3>3, NewScreen
  <2>3. CASE BackToHome(p)
    <3>1. <<"login", "lots">> \in Seq(Screens) /\ Len(<<"login", "lots">>) > 0
      BY DEF Screens
    <3> QED
      BY <2>0, <2>3, <3>1, NewScreen DEF BackToHome
  <2>4. CASE Recreate(p)
    BY <2>0, <2>4, NewScreen DEF Recreate
  <2>5. ASSUME NEW win \in Windows, Edit(p, win) PROVE ScreensOK'
    <3> DEFINE f == [app[p].form EXCEPT !.window = win]
    <3>1. /\ f \in Form /\ f.coming = app[p].form.coming
          /\ f.found = app[p].form.found /\ f.chosen = app[p].form.chosen
      BY <2>0 DEF Form
    <3>2. app' = [app EXCEPT ![p].form = f]
      BY <2>5 DEF Edit, SetForm
    <3>4. Fits(Screen(p), f)
      BY <2>000, <2>0, <2>5 DEF Edit, Fits, Form
    <3> HIDE DEF f
    <3>3. FormOK(events', f, app[p].user)
      BY <2>00, <3>1 DEF FormOK
    <3> QED
      BY <3>2, <3>3, <3>4, NewFields
  <2>6. CASE TapSearch(p)
    <3>1. PICK e \in Nat : OwnOffer(events', e, app[p].user) /\ Expects(p, e)
      <4>1. CASE Search(app[p].user) /\ Expects(p, Len(events'))
        <5>1. Prc!GetPrice(app[p].user) /\ app[p].user \in Users
          BY <2>0, <4>1, PhonesAssumption DEF Search, Phone
        <5>2. PICK x \in Prc!Event : x.user = app[p].user /\ events' = Append(events, x)
          BY <5>1, SearchLogs DEF AppLinks, LinkInv
        <5>3. events \in Seq(Prc!Event)
          BY DEF AppLinks, LinkInv, Prc!TypeOK
        <5>4. Len(events') \in 1..Len(events') /\ events'[Len(events')] = x
          BY <5>2, <5>3
        <5> QED
          BY <4>1, <5>2, <5>4 DEF OwnOffer
      <4>2. CASE Expects(p, 0)
        BY <4>2 DEF OwnOffer
      <4> QED
        BY <2>6, <4>1, <4>2 DEF TapSearch
    <3> DEFINE f == [app[p].form EXCEPT !.coming = @ \cup {e}]
    <3>2. app' = [app EXCEPT ![p].form = f]
      BY <3>1 DEF Expects, SetForm
    <3>3. /\ f \in Form /\ f.coming = app[p].form.coming \cup {e}
          /\ f.found = app[p].form.found /\ f.chosen = app[p].form.chosen
      BY <2>0, <3>1 DEF Form
    <3>6. Fits("booking", f)
      BY <2>000, <2>0, <2>6 DEF TapSearch, Fits, Form
    <3> HIDE DEF f
    <3>4. FormOK(events', f, app[p].user)
      BY <2>00, <3>1, <3>3 DEF FormOK
    <3>5. Fits(Screen(p), f)
      BY <2>6, <3>3, <3>6 DEF TapSearch, Fits
    <3> QED
      BY <3>2, <3>4, <3>5, NewFields
  <2>7. ASSUME NEW e \in 0..Len(events), ShowResults(p, e) PROVE ScreensOK'
    <3> DEFINE f == [app[p].form EXCEPT !.coming = @ \ {e}, !.found = e]
    <3>0. e \in Nat
      BY OffersKept DEF AppLinks
    <3>1. /\ f \in Form /\ f.coming = app[p].form.coming \ {e}
          /\ f.found = e /\ f.chosen = app[p].form.chosen
      BY <2>0, <3>0 DEF Form
    <3>2. app' = [app EXCEPT ![p].form = f] /\ e \in app[p].form.coming
      BY <2>7 DEF ShowResults, SetForm
    <3>4. Screen(p) = "booking"
      BY <2>000, <3>2 DEF Fits
    <3>5. Fits(Screen(p), f)
      BY <2>000, <2>0, <3>4 DEF Fits, Form
    <3> HIDE DEF f
    <3>3. FormOK(events', f, app[p].user)
      BY <2>00, <3>1, <3>2 DEF FormOK
    <3> QED
      BY <3>2, <3>3, <3>5, NewFields
  <2>8. CASE Choose(p)
    <3> DEFINE f == [app[p].form EXCEPT !.chosen = app[p].form.found]
    <3>1. /\ f \in Form /\ f.coming = app[p].form.coming
          /\ f.found = app[p].form.found /\ f.chosen = app[p].form.found
      BY <2>0 DEF Form
    <3>2. app' = [app EXCEPT ![p].form = f]
      BY <2>8 DEF Choose, SetForm
    <3>4. Screen(p) = "booking"
      BY <2>000, <2>8 DEF Fits, Choose
    <3>5. Fits(Screen(p), f)
      BY <2>000, <2>0, <3>4 DEF Fits, Form
    <3> HIDE DEF f
    <3>3. FormOK(events', f, app[p].user)
      BY <2>00, <3>1 DEF FormOK
    <3> QED
      BY <3>2, <3>3, <3>5, NewFields
  <2>9. CASE Confirm(p)
    BY <1>0, <2>9 DEF Confirm
  <2>10. CASE ListStep(p)
    <3>1. ListForm(p)
      BY <2>10, ListForms
    <3>2. PICK f \in Form :
            /\ app' = [app EXCEPT ![p].form = f]
            /\ f.coming = app[p].form.coming
            /\ f.found = app[p].form.found /\ f.chosen = app[p].form.chosen
            /\ Fits(Screen(p), f)
      BY <3>1 DEF ListForm
    <3>3. FormOK(events', f, app[p].user)
      BY <2>00, <3>2 DEF FormOK
    <3> QED
      BY <3>2, <3>3, NewFields
  <2> QED
    BY <1>1, <2>1, <2>2, <2>3, <2>4, <2>5, <2>6, <2>7, <2>8, <2>9, <2>10
    DEF PhoneStep, ListStep
<1>2. ASSUME NEW i \in 1..Len(taps), NEW w \in Workers, Deliver(w, i) PROVE ScreensOK'
  BY <1>0, <1>2 DEF Deliver
<1>3. ASSUME NEW i \in 1..Len(taps), ShowAnswer(i) \/ TimesOut(i) PROVE ScreensOK'
  <2>1. taps[i] \in Tap
    BY DEF AppLinks, TapsOK
  <2>2. taps[i].phone \in Phones
    BY <2>1 DEF Tap
  <2> QED
    BY <1>0, <1>3, <2>2, SuccessScreen DEF ShowAnswer, TimesOut
<1>4. ASSUME ServiceStep PROVE ScreensOK'
  <2>1. ASSUME NEW w, NEW n \in {0, 1}, Cancelled(w, n) PROVE ScreensOK'
    <3>1. ASSUME NEW p \in Phones PROVE PhoneOK(events', p, app'[p]) /\ app' \in [Phones -> Phone]
      <4>1. PhoneOK(events, p, app[p])
        BY DEF AppLinks, ScreensOK
      <4>2. FormOK(events', app[p].form, app[p].user)
        BY <4>1, FormKept DEF AppLinks, PhoneOK
      <4>3. /\ app' \in [Phones -> Phone]
            /\ app'[p].stack = app[p].stack /\ app'[p].user = app[p].user
            /\ app'[p].form.coming = app[p].form.coming
            /\ app'[p].form.found = app[p].form.found
            /\ app'[p].form.chosen = app[p].form.chosen
            /\ Fits(Screen(p), app'[p].form)
        BY <2>1, CancelledForm
      <4>4. app'[p] \in Phone /\ app'[p].form \in Form
        BY <4>3 DEF Phone
      <4>5. FormOK(events', app'[p].form, app'[p].user)
        BY <4>2, <4>3, <4>4 DEF FormOK
      <4> QED
        BY <4>1, <4>3, <4>4, <4>5 DEF PhoneOK, Screen
    <3>2. app' \in [Phones -> Phone]
      <4>1. CASE Phones = {}
        BY <2>1, <4>1 DEF Cancelled
      <4> QED
        BY <3>1, <4>1
    <3> QED
      BY <3>1, <3>2 DEF ScreensOK
  <2> QED
    BY <1>0, <1>4, <2>1 DEF ServiceStep, ServeStep
<1>5. CASE UNCHANGED appVars
  BY <1>0, <1>5 DEF appVars
<1> QED
  BY <1>1, <1>2, <1>3, <1>4, <1>5 DEF AppNext

-----------------------------------------------------------------------------
(* What a step means for the taps *)

\* Worker o goes on with the request it had, and has inserted no row.
Same(o) ==
  /\ pc'[o] \in ReservePC
  /\ pc'[o] = "refresh" => pc[o] = "refresh"
  /\ req'[o].user = req[o].user /\ req'[o].window = req[o].window
  /\ call'[o].event = call[o].event

OthersSame(w) == \A o \in Workers \ {w} : tapOf[o] # 0 => Same(o)
AllSame == \A o \in Workers : tapOf[o] # 0 => Same(o)

\* The services have nothing new for tap i; its user may have been told.
SameTap(i) ==
  /\ taps'[i].user = taps[i].user /\ taps'[i].window = taps[i].window
  /\ taps'[i].event = taps[i].event /\ taps'[i].done = taps[i].done
  /\ taps'[i].told = "success" => taps[i].done = "granted"

TapsKept ==
  /\ taps' \in Seq(Tap)
  /\ Len(taps) <= Len(taps')
  /\ \A i \in 1..Len(taps) : SameTap(i)
  /\ \A i \in Len(taps) + 1..Len(taps') :
       taps'[i].done = "sent" /\ TapOK(events', taps'[i])

\* Five kinds of steps: no tap is disturbed; a worker takes tap i; tap i is
\* refused at once; worker w answers; worker w inserts its row.
Undisturbed == TapsKept /\ tapOf' = tapOf /\ AllSame

Taken(w, i) ==
  /\ pc[w] = "idle" /\ pc'[w] = "pricing"
  /\ taps[i].done = "sent"
  /\ taps' = [taps EXCEPT ![i].done = "working"]
  /\ tapOf' = [tapOf EXCEPT ![w] = i]
  /\ req'[w].user = taps[i].user /\ req'[w].window = taps[i].window
  /\ call'[w].event = taps[i].event
  /\ OthersSame(w)

RefusedAtOnce(i) ==
  /\ taps[i].done = "sent"
  /\ taps' = [taps EXCEPT ![i].done = "refused"]
  /\ tapOf' = tapOf /\ AllSame

Answered(w) ==
  /\ pc'[w] = "idle" /\ OthersSame(w)
  /\ \/ Outcome(w, "refused")
     \/ Outcome(w, "granted") /\ pc[w] = "refresh"

Inserted(w) ==
  /\ Reserve(w) /\ pc'[w] = "refresh"
  /\ taps' = taps /\ tapOf' = tapOf
  /\ req'[w].user = req[w].user /\ req'[w].window = req[w].window
  /\ call'[w].event = call[w].event
  /\ OthersSame(w)

StepKind ==
  \/ Undisturbed
  \/ \E w \in Workers, i \in 1..Len(taps) : Taken(w, i)
  \/ \E i \in 1..Len(taps) : RefusedAtOnce(i)
  \/ \E w \in Workers : Answered(w) \/ Inserted(w)

\* Workers that serve a tap and are not touched go on.
LEMMA Untouched ==
  ASSUME AppLinks, NEW o \in Workers, tapOf[o] # 0,
         pc'[o] = pc[o], req'[o] = req[o], call'[o].event = call[o].event
  PROVE  Same(o)
BY DEF AppLinks, ServersOK, Serves, Same

LEMMA TapsSame ==
  ASSUME AppLinks, taps' = taps
  PROVE  TapsKept
<1>1. Len(taps) \in Nat /\ taps \in Seq(Tap)
  BY DEF AppLinks, TapsOK
<1> QED
  BY <1>1 DEF AppLinks, TapsOK, TapOK, TapsKept, SameTap

\* Leaving a screen tells nobody of success.
LEMMA SilencedTaps ==
  ASSUME AppLinks, NEW p
  PROVE  /\ Silenced(p) \in Seq(Tap) /\ Len(Silenced(p)) = Len(taps)
         /\ \A i \in 1..Len(taps) :
              /\ Silenced(p)[i] \in Tap
              /\ Silenced(p)[i].user = taps[i].user
              /\ Silenced(p)[i].window = taps[i].window
              /\ Silenced(p)[i].event = taps[i].event
              /\ Silenced(p)[i].done = taps[i].done
              /\ Silenced(p)[i].told = "success" => taps[i].told = "success"
              /\ Silenced(p)[i].phone = taps[i].phone
              /\ Silenced(p)[i].told = "waiting" =>
                   taps[i].told = "waiting" /\ taps[i].phone # p
<1>1. Len(taps) \in Nat /\ taps \in Seq(Tap)
  BY DEF AppLinks, TapsOK
<1>2. ASSUME NEW i \in 1..Len(taps)
      PROVE  /\ Silenced(p)[i] \in Tap
             /\ Silenced(p)[i].user = taps[i].user
             /\ Silenced(p)[i].window = taps[i].window
             /\ Silenced(p)[i].event = taps[i].event
             /\ Silenced(p)[i].done = taps[i].done
             /\ Silenced(p)[i].told = "success" => taps[i].told = "success"
             /\ Silenced(p)[i].phone = taps[i].phone
             /\ Silenced(p)[i].told = "waiting" =>
                  taps[i].told = "waiting" /\ taps[i].phone # p
  <2>1. taps[i] \in Tap
    BY <1>1
  <2>2. Silenced(p)[i] = IF taps[i].phone = p /\ taps[i].told = "waiting"
                           THEN [taps[i] EXCEPT !.told = "nothing"] ELSE taps[i]
    BY DEF Silenced
  <2> DEFINE t == [taps[i] EXCEPT !.told = "nothing"]
  <2>3. /\ t \in Tap /\ t.user = taps[i].user /\ t.window = taps[i].window
        /\ t.event = taps[i].event /\ t.done = taps[i].done /\ t.told = "nothing"
        /\ t.phone = taps[i].phone
    BY <2>1 DEF Tap
  <2> HIDE DEF t
  <2>4. Silenced(p)[i] = t \/ (/\ Silenced(p)[i] = taps[i]
                               /\ taps[i].told = "waiting" => taps[i].phone # p)
    BY <2>2 DEF t
  <2> QED
    BY <2>1, <2>3, <2>4
<1>3. /\ DOMAIN Silenced(p) = 1..Len(taps)
      /\ Silenced(p) = [i \in 1..Len(taps) |-> Silenced(p)[i]]
  BY DEF Silenced
<1>4. Silenced(p) \in [1..Len(taps) -> Tap]
  BY <1>2, <1>3
<1>5. Silenced(p) \in Seq(Tap)
  BY <1>1, <1>4, SeqDef
<1>6. Len(Silenced(p)) = Len(taps)
  BY <1>1, <1>3, <1>5
<1> QED
  BY <1>2, <1>5, <1>6

\* A tap's "done" is set.
LEMMA TapDone ==
  ASSUME AppLinks, NEW i \in 1..Len(taps), NEW d \in {"working", "granted", "refused"},
         taps' = [taps EXCEPT ![i].done = d]
  PROVE  /\ taps' \in Seq(Tap) /\ Len(taps') = Len(taps)
         /\ \A j \in 1..Len(taps) :
              /\ taps'[j] \in Tap
              /\ taps'[j].user = taps[j].user /\ taps'[j].window = taps[j].window
              /\ taps'[j].event = taps[j].event /\ taps'[j].told = taps[j].told
              /\ taps'[j].phone = taps[j].phone
              /\ taps'[j].done = IF j = i THEN d ELSE taps[j].done
<1>1. taps \in Seq(Tap) /\ taps[i] \in Tap
  BY DEF AppLinks, TapsOK
<1> DEFINE t == [taps[i] EXCEPT !.done = d]
<1>2. /\ t \in Tap /\ t.user = taps[i].user /\ t.window = taps[i].window
      /\ t.event = taps[i].event /\ t.told = taps[i].told /\ t.done = d
      /\ t.phone = taps[i].phone
  BY <1>1 DEF Tap
<1>3. taps' = [taps EXCEPT ![i] = t]
  BY <1>1
<1> HIDE DEF t
<1>4. /\ taps' \in Seq(Tap) /\ Len(taps') = Len(taps)
      /\ \A j \in 1..Len(taps) : taps'[j] = IF j = i THEN t ELSE taps[j]
  BY <1>1, <1>2, <1>3
<1> QED
  BY <1>1, <1>2, <1>4

\* The same for "told".
LEMMA TapTold ==
  ASSUME AppLinks, NEW i \in 1..Len(taps), NEW d \in {"success", "failure"},
         NEW old \in Seq(Tap), Len(old) = Len(taps),
         \A j \in 1..Len(taps) :
           /\ old[j].user = taps[j].user /\ old[j].window = taps[j].window
           /\ old[j].event = taps[j].event /\ old[j].done = taps[j].done
           /\ old[j].told = "success" => taps[j].told = "success",
         d = "success" => taps[i].done = "granted",
         taps' = [old EXCEPT ![i].told = d]
  PROVE  TapsKept
<1>1. old[i] \in Tap /\ Len(taps) \in Nat
  BY DEF AppLinks, TapsOK
<1> DEFINE t == [old[i] EXCEPT !.told = d]
<1>2. /\ t \in Tap /\ t.user = old[i].user /\ t.window = old[i].window
      /\ t.event = old[i].event /\ t.done = old[i].done /\ t.told = d
  BY <1>1 DEF Tap
<1>3. taps' = [old EXCEPT ![i] = t]
  BY <1>1
<1> HIDE DEF t
<1>4. /\ taps' \in Seq(Tap) /\ Len(taps') = Len(taps)
      /\ \A j \in 1..Len(taps) : taps'[j] = IF j = i THEN t ELSE old[j]
  BY <1>1, <1>2, <1>3
<1>5. \A j \in 1..Len(taps) : taps[j].told = "success" => taps[j].done = "granted"
  BY DEF AppLinks, TapsOK, TapOK
<1> QED
  BY <1>1, <1>2, <1>4, <1>5 DEF TapsKept, SameTap

\* A phone's step disturbs no tap.
LEMMA PhoneKind ==
  ASSUME AppLinks, LinkInv', OffersGrow, NEW p \in Phones, PhoneStep(p)
  PROVE  Undisturbed
<1>0. Len(taps) \in Nat /\ taps \in Seq(Tap)
  BY DEF AppLinks, TapsOK
<1>1. ASSUME UNCHANGED <<vars, links>> PROVE AllSame
  BY <1>1, Untouched DEF AllSame, vars, links
<1>2. ASSUME NEW stack, NEW u, Navigate(p, stack, u) PROVE Undisturbed
  <2>1. taps' = Silenced(p) /\ tapOf' = tapOf /\ UNCHANGED <<vars, links>>
    BY <1>2 DEF Navigate, systemVars
  <2>2. \A j \in 1..Len(taps) : taps[j].told = "success" => taps[j].done = "granted"
    BY DEF AppLinks, TapsOK, TapOK
  <2>3. TapsKept
    BY <1>0, <2>1, <2>2, SilencedTaps DEF TapsKept, SameTap
  <2> QED
    BY <1>1, <2>1, <2>3 DEF Undisturbed
<1>3. ASSUME UNCHANGED <<taps, tapOf>>, AllSame PROVE Undisturbed
  BY <1>3, TapsSame DEF Undisturbed
<1>4. CASE \/ Login(p) \/ OpenLot(p) \/ OpenReservations(p)
           \/ Back(p) \/ BackToHome(p) \/ Recreate(p)
  BY <1>2, <1>4 DEF Login, OpenLot, OpenReservations, Back, BackToHome, Recreate
<1>5. CASE \/ \E win \in Windows : Edit(p, win)
           \/ \E e \in 0..Len(events) : ShowResults(p, e)
           \/ Choose(p) \/ LoadLots(p) \/ ReadList(p) \/ Refetch(p) \/ CancelTimesOut(p)
           \/ \E l \in app[p].form.lists : ShowList(p, l) \/ FetchTimesOut(p, l)
  BY <1>1, <1>3, <1>5 DEF Edit, ShowResults, Choose, LoadLots, ReadList, Refetch,
                          CancelTimesOut, ShowList, FetchTimesOut, systemVars
<1>6. CASE TapSearch(p)
  <2>1. UNCHANGED <<vars, links>> /\ UNCHANGED <<taps, tapOf>>
    BY <1>6 DEF TapSearch, Search, systemVars
  <2> QED
    BY <1>1, <1>3, <2>1
<1>7. CASE Confirm(p)
  <2> DEFINE ph == app[p]
             t == [phone |-> p, user |-> ph.user, window |-> ph.form.window,
                   event |-> ph.form.chosen, done |-> "sent", told |-> "waiting"]
  <2>1. /\ ph \in Phone /\ PhoneOK(events, p, ph)
    BY DEF AppLinks, ScreensOK
  <2>2. /\ ph.user \in Users /\ ph.form \in Form /\ FormOK(events, ph.form, ph.user)
    BY <2>1 DEF Phone, PhoneOK
  <2>3. /\ ph.form.window \in Windows /\ ph.form.chosen \in Nat /\ ph.form.chosen # 0
        /\ OwnOffer(events, ph.form.chosen, ph.user)
    BY <1>7, <2>2 DEF Form, FormOK, Confirm
  <2>4. ph.form.chosen \in 1..Len(events') /\ events'[ph.form.chosen].user = ph.user
    BY <2>3, OffersKept DEF OwnOffer, AppLinks
  <2>5. taps' = Append(taps, t) /\ tapOf' = tapOf /\ UNCHANGED <<vars, links>>
    BY <1>7 DEF Confirm, systemVars
  <2> HIDE DEF ph
  <2>6. /\ t \in Tap /\ t.event = ph.form.chosen /\ t.user = ph.user
        /\ t.done = "sent" /\ t.told = "waiting"
    BY <2>2, <2>3 DEF Tap
  <2> HIDE DEF t
  <2>7. TapOK(events', t)
    BY <2>4, <2>6 DEF TapOK
  <2>8. /\ taps' \in Seq(Tap) /\ Len(taps') = Len(taps) + 1
        /\ taps'[Len(taps) + 1] = t
        /\ \A j \in 1..Len(taps) : taps'[j] = taps[j]
    BY <1>0, <2>5, <2>6
  <2>9. \A j \in 1..Len(taps) : taps[j].told = "success" => taps[j].done = "granted"
    BY DEF AppLinks, TapsOK, TapOK
  <2>10. TapsKept
    BY <1>0, <2>6, <2>7, <2>8, <2>9 DEF TapsKept, SameTap
  <2> QED
    BY <1>1, <2>5, <2>10 DEF Undisturbed
<1>8. ASSUME NEW w \in Workers, NEW r, TapCancel(p, w, r) PROVE Undisturbed
  <2>1. /\ pc[w] = "idle" /\ call' = call /\ UNCHANGED <<taps, tapOf>>
        /\ \A o \in Workers \ {w} : pc'[o] = pc[o] /\ req'[o] = req[o]
    BY <1>8 DEF TapCancel, Cancel, CancelReservation, Receive, links, AppLinks, TypeOK
  <2>2. tapOf[w] = 0
    BY <2>1 DEF AppLinks, ServersOK, Serves, ReservePC
  <2>3. AllSame
    BY <2>1, <2>2, Untouched DEF AllSame
  <2> QED
    BY <1>3, <2>1, <2>3
<1> QED
  BY <1>4, <1>5, <1>6, <1>7, <1>8 DEF PhoneStep

\* An answer is shown, or waited for no longer.
LEMMA AnswerKind ==
  ASSUME AppLinks, NEW i \in 1..Len(taps), ShowAnswer(i) \/ TimesOut(i)
  PROVE  Undisturbed
<1>0. Len(taps) \in Nat /\ taps \in Seq(Tap)
  BY DEF AppLinks, TapsOK
<1>1. tapOf' = tapOf /\ UNCHANGED <<vars, links>>
  BY DEF ShowAnswer, TimesOut, systemVars
<1>2. AllSame
  BY <1>1, Untouched DEF AllSame, vars, links
<1>3. ASSUME taps' = [taps EXCEPT ![i].told = "failure"] PROVE TapsKept
  <2>1. PICK old : old = taps
    OBVIOUS
  <2>2. "failure" # "success" /\ taps' = [old EXCEPT ![i].told = "failure"]
    BY <1>3, <2>1
  <2> QED
    BY <1>0, <2>1, <2>2, TapTold
<1>4. ASSUME NEW p, taps[i].done = "granted", taps' = [Silenced(p) EXCEPT ![i].told = "success"]
      PROVE  TapsKept
  <2>1. PICK old : old = Silenced(p)
    OBVIOUS
  <2> QED
    BY <1>4, <2>1, SilencedTaps, TapTold
<1>5. TapsKept
  <2>1. CASE TimesOut(i)
    BY <1>3, <2>1 DEF TimesOut
  <2>2. CASE ShowAnswer(i)
    <3>1. CASE taps' = [taps EXCEPT ![i].told = "failure"]
      BY <1>3, <3>1
    <3>2. CASE /\ taps[i].done = "granted"
               /\ taps' = [Silenced(taps[i].phone) EXCEPT ![i].told = "success"]
      BY <1>4, <3>2
    <3> QED
      BY <2>2, <3>1, <3>2 DEF ShowAnswer
  <2> QED
    BY <2>1, <2>2
<1> QED
  BY <1>1, <1>2, <1>5 DEF Undisturbed

\* A tap reaches the inventory service.
LEMMA DeliverKind ==
  ASSUME AppLinks, NEW i \in 1..Len(taps), NEW w \in Workers, Deliver(w, i)
  PROVE  Taken(w, i) \/ RefusedAtOnce(i)
<1> DEFINE t == taps[i]
<1>1. /\ t.done = "sent" /\ ReserveSpot(w, t.user, t.window)
      /\ pc \in [Workers -> {"idle", "cancel"} \cup ReservePC]
      /\ req \in [Workers -> {NoRequest} \cup ReserveRequest \cup CancelRequest]
      /\ call \in [Workers -> {NoCall} \cup Call]
  BY DEF Deliver, Book, AppLinks, TypeOK, LinkInv, CallsOK
<1>2. pc[w] = "idle"
  BY <1>1 DEF ReserveSpot, Receive
<1>3. tapOf[w] = 0
  BY <1>2 DEF AppLinks, ServersOK, Serves, ReservePC
<1>4. CASE pc'[w] = "idle"
  <2>1. pc' = pc /\ req' = req
    BY <1>1, <1>4 DEF ReserveSpot
  <2>2. /\ call' = call /\ tapOf' = tapOf
        /\ taps' = [taps EXCEPT ![i].done = "refused"]
    BY <1>4 DEF Deliver, Book
  <2>3. AllSame
    BY <2>1, <2>2, Untouched DEF AllSame
  <2> QED
    BY <1>1, <2>2, <2>3 DEF RefusedAtOnce
<1>5. CASE pc'[w] # "idle"
  <2>1. PICK s \in Spots :
          /\ pc' = [pc EXCEPT ![w] = "pricing"]
          /\ req' = [req EXCEPT ![w] = [user |-> t.user, window |-> t.window,
                                        spot |-> s, fresh |-> FALSE]]
    BY <1>1, <1>2, <1>5 DEF ReserveSpot
  <2>2. /\ taps' = [taps EXCEPT ![i].done = "working"]
        /\ tapOf' = [tapOf EXCEPT ![w] = i]
    BY <1>5 DEF Deliver
  <2>3. call' = [call EXCEPT ![w] = [event |-> t.event, price |-> events[t.event].price,
                                     sent |-> FALSE]]
    BY <1>5 DEF Deliver, Book
  <2>4. /\ pc'[w] = "pricing" /\ req'[w].user = t.user /\ req'[w].window = t.window
        /\ call'[w].event = t.event
    BY <1>1, <2>1, <2>3
  <2>5. OthersSame(w)
    BY <1>1, <2>1, <2>3, Untouched DEF OthersSame
  <2> QED
    BY <1>1, <1>2, <2>2, <2>4, <2>5 DEF Taken
<1> QED
  BY <1>4, <1>5

\* A worker answers: it forgets its call and goes on to nothing.
LEMMA AnswerOf ==
  ASSUME AppLinks, NEW w \in Workers,
         \A o \in Workers \ {w} : pc'[o] = pc[o] /\ req'[o] = req[o],
         pc'[w] = "idle", Forget(w),
         Outcome(w, "refused") \/ (Outcome(w, "granted") /\ pc[w] = "refresh")
  PROVE  StepKind
<1>1. \A o \in Workers \ {w} : call'[o] = call[o]
  BY DEF AppLinks, LinkInv, CallsOK, Forget
<1>2. OthersSame(w)
  BY <1>1, Untouched DEF OthersSame
<1> QED
  BY <1>2 DEF Answered, StepKind

\* A step of the inventory service for the request of worker w.
LEMMA ServeKind ==
  ASSUME AppLinks, NEW w \in Workers, ServeStep(w)
  PROVE  StepKind
<1>0. /\ TypeOK
      /\ Outcome(w, IF pc[w] = "refresh" THEN "granted" ELSE "refused")
      /\ CheckSpot(w) \/ FindUser(w) \/ CheckOverlap(w) \/ Refresh(w) \/ CommitReservation(w)
  BY DEF AppLinks, ServeStep, ReserveStep, Reserve
<1>1. /\ pc[w] \in Recorded
      /\ pc'[w] \in Recorded \cup {"idle"}
      /\ pc'[w] \in Recorded => /\ req'[w].user = req[w].user
                                /\ req'[w].window = req[w].window
      /\ pc'[w] = "refresh" => CommitReservation(w)
      /\ \A o \in Workers \ {w} : pc'[o] = pc[o] /\ req'[o] = req[o]
  BY <1>0, WorkerStep
<1>2. CASE pc'[w] = "idle"
  <2>1. Forget(w)
    BY <1>2 DEF ServeStep, ReserveStep, Reserve
  <2>2. Outcome(w, "refused") \/ (Outcome(w, "granted") /\ pc[w] = "refresh")
    BY <1>0
  <2> QED
    BY <1>1, <1>2, <2>1, <2>2, AnswerOf
<1>3. CASE pc'[w] # "idle"
  <2>1. /\ call' = call /\ taps' = taps /\ tapOf' = tapOf
        /\ pc'[w] \in Recorded /\ "idle" \notin Recorded
    BY <1>0, <1>1, <1>3 DEF ServeStep, ReserveStep, Reserve, Outcome, Recorded, ReservePC
  <2>2. OthersSame(w)
    BY <1>1, <2>1, Untouched DEF OthersSame
  <2>3. CASE pc'[w] = "refresh"
    <3>1. CommitReservation(w)
      BY <1>1, <2>3
    <3>2. Reserve(w)
      BY <3>1 DEF ServeStep, ReserveStep, CommitReservation, CheckSpot, FindUser,
                  CheckOverlap, Refresh
    <3>3. Inserted(w)
      BY <1>1, <2>1, <2>2, <2>3, <3>2 DEF Inserted
    <3> QED
      BY <3>3 DEF StepKind
  <2>4. CASE pc'[w] # "refresh"
    <3>1. Same(w)
      BY <1>1, <2>1, <2>4 DEF Same, Recorded
    <3>2. AllSame
      BY <2>2, <3>1 DEF AllSame, OthersSame
    <3> QED
      BY <2>1, <3>2, TapsSame DEF Undisturbed, StepKind
  <2> QED
    BY <2>3, <2>4
<1> QED
  BY <1>2, <1>3

\* A step of the pricing service, or of its answer.
LEMMA PricingKind ==
  ASSUME AppLinks, NEW v \in PricingWorkers,
         \/ \E w \in Workers :
              \/ CallPricing(w, v) /\ UNCHANGED <<taps, tapOf>>
              \/ PricingRefuses(w, v) /\ Outcome(w, "refused")
         \/ PricingRecords(v) /\ UNCHANGED <<taps, tapOf>>
         \/ /\ PricingFails(v)
            /\ IF caller[v] = NoCaller THEN UNCHANGED <<taps, tapOf>>
               ELSE Outcome(caller[v], "refused")
  PROVE  StepKind
<1>0. /\ pc \in [Workers -> {"idle", "cancel"} \cup ReservePC]
      /\ req \in [Workers -> {NoRequest} \cup ReserveRequest \cup CancelRequest]
      /\ call \in [Workers -> {NoCall} \cup Call]
      /\ caller[v] # NoCaller => caller[v] \in Workers
      /\ \A w \in Workers : pc[w] = "pricing" => call[w] \in Call
  BY DEF AppLinks, TypeOK, LinkInv, CallsOK, CallersOK, CallersTyped, ReservePC
<1>1. ASSUME UNCHANGED <<taps, tapOf>>, AllSame PROVE StepKind
  BY <1>1, TapsSame DEF Undisturbed, StepKind
<1>2. ASSUME NEW w \in Workers, CallPricing(w, v), UNCHANGED <<taps, tapOf>>
      PROVE  StepKind
  <2>1. /\ call' = [call EXCEPT ![w].sent = TRUE] /\ call[w] \in Call
        /\ pc' = pc /\ req' = req
    BY <1>0, <1>2 DEF CallPricing, vars
  <2>2. [call[w] EXCEPT !.sent = TRUE].event = call[w].event
    BY <2>1 DEF Call
  <2>3. \A o \in Workers : call'[o].event = call[o].event
    BY <1>0, <2>1, <2>2
  <2>4. AllSame
    BY <2>1, <2>3, Untouched DEF AllSame
  <2> QED
    BY <1>1, <1>2, <2>4
<1>3. ASSUME NEW w \in Workers, PricingOutcome(w), pc'[w] = "idle", Forget(w),
             Outcome(w, "refused")
      PROVE  StepKind
  <2>1. \A o \in Workers \ {w} : pc'[o] = pc[o] /\ req'[o] = req[o]
    BY <1>0, <1>3 DEF PricingOutcome, Advance, Reply
  <2> QED
    BY <1>3, <2>1, AnswerOf
<1>4. ASSUME PricingRecords(v), UNCHANGED <<taps, tapOf>> PROVE StepKind
  <2>1. CASE caller[v] = NoCaller
    <3>1. pc' = pc /\ req' = req /\ call' = call
      BY <1>4, <2>1 DEF PricingRecords, vars
    <3>2. AllSame
      BY <3>1, Untouched DEF AllSame
    <3> QED
      BY <1>1, <1>4, <3>2
  <2>2. CASE caller[v] # NoCaller
    <3>0. PICK w \in Workers : w = caller[v]
      BY <1>0, <2>2
    <3>1. PricingOutcome(w) /\ pc'[w] = "spot" /\ call' = call
      BY <1>4, <2>2, <3>0 DEF PricingRecords
    <3>2. /\ pc' = [pc EXCEPT ![w] = "spot"] /\ req' = req
      BY <1>0, <3>1 DEF PricingOutcome, Advance, Reply
    <3>3. Same(w)
      BY <3>1, <3>2 DEF Same, ReservePC
    <3>4. \A o \in Workers \ {w} : pc'[o] = pc[o]
      BY <1>0, <3>2
    <3>5. AllSame
      BY <3>1, <3>2, <3>3, <3>4, Untouched DEF AllSame
    <3> QED
      BY <1>1, <1>4, <3>5
  <2> QED
    BY <2>1, <2>2
<1>5. ASSUME PricingFails(v), caller[v] = NoCaller, UNCHANGED <<taps, tapOf>>
      PROVE  StepKind
  <2>1. pc' = pc /\ req' = req /\ call' = call
    BY <1>5 DEF PricingFails, vars
  <2>2. AllSame
    BY <2>1, Untouched DEF AllSame
  <2> QED
    BY <1>1, <1>5, <2>2
<1>6. ASSUME PricingFails(v), caller[v] # NoCaller, Outcome(caller[v], "refused")
      PROVE  StepKind
  BY <1>0, <1>3, <1>6 DEF PricingFails
<1>7. ASSUME NEW w \in Workers, PricingRefuses(w, v), Outcome(w, "refused")
      PROVE  StepKind
  BY <1>3, <1>7 DEF PricingRefuses
<1> QED
  BY <1>2, <1>4, <1>5, <1>6, <1>7

LEMMA ServiceKind ==
  ASSUME AppLinks, ServiceStep
  PROVE  StepKind
<1>0. /\ pc \in [Workers -> {"idle", "cancel"} \cup ReservePC]
      /\ req \in [Workers -> {NoRequest} \cup ReserveRequest \cup CancelRequest]
  BY DEF AppLinks, TypeOK
<1>1. ASSUME UNCHANGED <<taps, tapOf>>, pc' = pc, req' = req, call' = call
      PROVE  StepKind
  <2>1. AllSame
    BY <1>1, Untouched DEF AllSame
  <2> QED
    BY <1>1, <2>1, TapsSame DEF Undisturbed, StepKind
<1>2. ASSUME NEW w \in Workers, InventoryFails(w), Outcome(w, "refused") PROVE StepKind
  <2>1. /\ \A o \in Workers \ {w} : pc'[o] = pc[o] /\ req'[o] = req[o]
        /\ pc'[w] = "idle" /\ Forget(w)
    BY <1>0, <1>2 DEF InventoryFails, Abort, Reply
  <2> QED
    BY <1>2, <2>1, AnswerOf
<1>3. ASSUME NEW w \in Workers, CancelStep(w), UNCHANGED <<taps, tapOf>> PROVE StepKind
  <2>1. /\ \A o \in Workers \ {w} : pc'[o] = pc[o] /\ req'[o] = req[o]
        /\ pc[w] = "cancel" /\ call' = call
    BY <1>0, <1>3 DEF CancelStep, CommitCancel, Reply, links
  <2>2. tapOf[w] = 0
    BY <2>1 DEF AppLinks, ServersOK, Serves, ReservePC
  <2>3. AllSame
    BY <2>1, <2>2, Untouched DEF AllSame
  <2> QED
    BY <1>3, <2>3, TapsSame DEF Undisturbed, StepKind
<1>4. ASSUME Environment PROVE UNCHANGED <<pc, req, call>>
  BY <1>4 DEF Environment, SensorRead, SensorCommit, SensorAbort, Tick, vars, links
<1> QED
  BY <1>1, <1>2, <1>3, <1>4, ServeKind, PricingKind DEF ServiceStep

\* Every step is of one of the five kinds.
LEMMA StepKinds ==
  ASSUME AppLinks, LinkInv', OffersGrow, [AppNext]_appVars
  PROVE  StepKind
<1>1. ASSUME UNCHANGED appVars PROVE Undisturbed
  <2>1. AllSame
    BY <1>1, Untouched DEF AllSame, appVars, systemVars, vars, links
  <2> QED
    BY <1>1, <2>1, TapsSame DEF Undisturbed, appVars
<1> QED
  BY <1>1, PhoneKind, AnswerKind, DeliverKind, ServiceKind DEF AppNext, StepKind

-----------------------------------------------------------------------------
(* The taps *)

\* What an answer means for the taps and the workers.
LEMMA AnsweredTap ==
  ASSUME AppLinks, NEW w \in Workers, Answered(w)
  PROVE  \/ tapOf[w] = 0 /\ Undisturbed
         \/ /\ tapOf[w] \in 1..Len(taps) /\ taps[tapOf[w]].done = "working"
            /\ tapOf' = [tapOf EXCEPT ![w] = 0]
            /\ \E d \in {"granted", "refused"} :
                 /\ taps' = [taps EXCEPT ![tapOf[w]].done = d]
                 /\ d = "granted" => pc[w] = "refresh"
<1>1. CASE tapOf[w] = 0
  <2>1. UNCHANGED <<taps, tapOf>> /\ AllSame
    BY <1>1 DEF Answered, Outcome, OthersSame, AllSame
  <2> QED
    BY <1>1, <2>1, TapsSame DEF Undisturbed
<1>2. CASE tapOf[w] # 0
  <2>1. Serves(w, tapOf[w])
    BY <1>2 DEF AppLinks, ServersOK
  <2> QED
    BY <1>2, <2>1 DEF Answered, Outcome, Serves
<1> QED
  BY <1>1, <1>2

LEMMA TapsStep ==
  ASSUME AppLinks, LinkInv', OffersGrow, StepKind
  PROVE  TapsOK'
<1>0. taps \in Seq(Tap) /\ Len(taps) \in Nat
  BY DEF AppLinks, TapsOK
<1>1. ASSUME NEW i \in 1..Len(taps)
      PROVE  /\ taps[i].event \in 1..Len(events')
             /\ events'[taps[i].event].user = taps[i].user
             /\ taps[i].told = "success" => taps[i].done = "granted"
  BY OffersKept DEF AppLinks, TapsOK, TapOK
<1>2. ASSUME Undisturbed PROVE TapsOK'
  <2>1. TapsKept /\ Len(taps') \in Nat /\ taps' \in Seq(Tap)
    BY <1>2 DEF Undisturbed, TapsKept
  <2>2. ASSUME NEW i \in 1..Len(taps') PROVE TapOK(events', taps'[i])
    <3>1. CASE i \in 1..Len(taps)
      BY <1>1, <2>1, <3>1 DEF TapsKept, SameTap, TapOK
    <3>2. CASE i \notin 1..Len(taps)
      <4>1. i \in Len(taps) + 1..Len(taps')
        BY <1>0, <2>1, <3>2
      <4> QED
        BY <2>1, <4>1 DEF TapsKept
    <3> QED
      BY <3>1, <3>2
  <2> QED
    BY <2>1, <2>2 DEF TapsOK
<1>3. ASSUME NEW i \in 1..Len(taps), NEW d \in {"working", "granted", "refused"},
             taps[i].done # "granted", taps' = [taps EXCEPT ![i].done = d]
      PROVE  TapsOK'
  <2>1. /\ taps' \in Seq(Tap) /\ Len(taps') = Len(taps)
        /\ \A j \in 1..Len(taps) :
             /\ taps'[j] \in Tap
             /\ taps'[j].user = taps[j].user /\ taps'[j].window = taps[j].window
             /\ taps'[j].event = taps[j].event /\ taps'[j].told = taps[j].told
             /\ taps'[j].phone = taps[j].phone
             /\ taps'[j].done = IF j = i THEN d ELSE taps[j].done
    BY <1>3, TapDone
  <2> QED
    BY <1>1, <1>3, <2>1 DEF TapsOK, TapOK
<1>4. ASSUME NEW w \in Workers, Answered(w) PROVE TapsOK'
  BY <1>2, <1>3, <1>4, AnsweredTap
<1>5. ASSUME NEW w \in Workers, Inserted(w) PROVE TapsOK'
  BY <1>1, <1>5 DEF Inserted, AppLinks, TapsOK, TapOK
<1>6. ASSUME NEW w \in Workers, NEW i \in 1..Len(taps), Taken(w, i) PROVE TapsOK'
  BY <1>3, <1>6 DEF Taken
<1>7. ASSUME NEW i \in 1..Len(taps), RefusedAtOnce(i) PROVE TapsOK'
  BY <1>3, <1>7 DEF RefusedAtOnce
<1> QED
  BY <1>2, <1>4, <1>5, <1>6, <1>7 DEF StepKind

\* A worker that goes on still serves its tap.
LEMMA StillServes ==
  ASSUME AppLinks, NEW o \in Workers, tapOf[o] # 0, Same(o),
         tapOf[o] \in 1..Len(taps'),
         taps'[tapOf[o]].user = taps[tapOf[o]].user,
         taps'[tapOf[o]].window = taps[tapOf[o]].window,
         taps'[tapOf[o]].event = taps[tapOf[o]].event,
         taps'[tapOf[o]].done = taps[tapOf[o]].done,
         tapOf'[o] = tapOf[o]
  PROVE  Serves(o, tapOf[o])'
BY DEF AppLinks, ServersOK, Serves, Same

LEMMA ServersStep ==
  ASSUME AppLinks, StepKind
  PROVE  ServersOK'
<1>0. /\ taps \in Seq(Tap) /\ Len(taps) \in Nat
      /\ tapOf \in [Workers -> Nat]
      /\ \A w \in Workers : tapOf[w] # 0 => Serves(w, tapOf[w])
      /\ \A w, o \in Workers : tapOf[w] # 0 /\ tapOf[w] = tapOf[o] => w = o
  BY DEF AppLinks, TapsOK, ServersOK
<1>1. ASSUME Undisturbed PROVE ServersOK'
  <2>1. TapsKept /\ Len(taps') \in Nat /\ tapOf' = tapOf /\ AllSame
    BY <1>1 DEF Undisturbed, TapsKept
  <2>2. ASSUME NEW o \in Workers, tapOf[o] # 0 PROVE Serves(o, tapOf[o])'
    <3>1. tapOf[o] \in 1..Len(taps) /\ Same(o)
      BY <1>0, <2>1, <2>2 DEF Serves, AllSame
    <3>2. tapOf[o] \in 1..Len(taps') /\ SameTap(tapOf[o])
      BY <1>0, <2>1, <3>1 DEF TapsKept
    <3> QED
      BY <2>1, <2>2, <3>1, <3>2, StillServes DEF SameTap
  <2> QED
    BY <1>0, <2>1, <2>2 DEF ServersOK
<1>2. ASSUME NEW w \in Workers, NEW i \in 1..Len(taps), Taken(w, i) PROVE ServersOK'
  <2>0. taps' = [taps EXCEPT ![i].done = "working"]
    BY <1>2 DEF Taken
  <2>1. /\ taps' \in Seq(Tap) /\ Len(taps') = Len(taps)
        /\ \A j \in 1..Len(taps) :
             /\ taps'[j].user = taps[j].user /\ taps'[j].window = taps[j].window
             /\ taps'[j].event = taps[j].event
             /\ taps'[j].done = IF j = i THEN "working" ELSE taps[j].done
    BY <2>0, TapDone
  <2>2. tapOf' = [tapOf EXCEPT ![w] = i] /\ taps[i].done = "sent" /\ OthersSame(w)
    BY <1>2 DEF Taken
  <2>3. ASSUME NEW o \in Workers, tapOf[o] # 0 PROVE tapOf[o] # i /\ tapOf[o] \in 1..Len(taps)
    BY <1>0, <2>2, <2>3 DEF Serves
  <2>4. Serves(w, i)'
    BY <1>2, <2>1 DEF Taken, Serves, ReservePC
  <2>5. ASSUME NEW o \in Workers \ {w}, tapOf[o] # 0 PROVE Serves(o, tapOf[o])'
    BY <1>0, <2>1, <2>2, <2>3, <2>5, StillServes DEF OthersSame
  <2> QED
    BY <1>0, <2>2, <2>3, <2>4, <2>5 DEF ServersOK
<1>3. ASSUME NEW i \in 1..Len(taps), RefusedAtOnce(i) PROVE ServersOK'
  <2>1. /\ Len(taps') = Len(taps)
        /\ \A j \in 1..Len(taps) :
             /\ taps'[j].user = taps[j].user /\ taps'[j].window = taps[j].window
             /\ taps'[j].event = taps[j].event
             /\ taps'[j].done = IF j = i THEN "refused" ELSE taps[j].done
    BY <1>3, TapDone DEF RefusedAtOnce
  <2>2. tapOf' = tapOf /\ taps[i].done = "sent" /\ AllSame
    BY <1>3 DEF RefusedAtOnce
  <2>3. ASSUME NEW o \in Workers, tapOf[o] # 0 PROVE tapOf[o] # i /\ tapOf[o] \in 1..Len(taps)
    BY <1>0, <2>2, <2>3 DEF Serves
  <2>4. ASSUME NEW o \in Workers, tapOf[o] # 0 PROVE Serves(o, tapOf[o])'
    BY <1>0, <2>1, <2>2, <2>3, <2>4, StillServes DEF AllSame
  <2> QED
    BY <1>0, <2>2, <2>4 DEF ServersOK
<1>4. ASSUME NEW w \in Workers, Answered(w) PROVE ServersOK'
  <2>0. OthersSame(w)
    BY <1>4 DEF Answered
  <2>1. CASE Undisturbed
    BY <1>1, <2>1
  <2>2. CASE ~Undisturbed
    <3>0. /\ tapOf[w] \in 1..Len(taps) /\ tapOf' = [tapOf EXCEPT ![w] = 0]
          /\ \E d \in {"granted", "refused"} :
               taps' = [taps EXCEPT ![tapOf[w]].done = d]
      BY <1>4, <2>2, AnsweredTap
    <3>1. PICK d \in {"granted", "refused"} : taps' = [taps EXCEPT ![tapOf[w]].done = d]
      BY <3>0
    <3>2. tapOf[w] \in 1..Len(taps) /\ tapOf' = [tapOf EXCEPT ![w] = 0] /\ tapOf[w] # 0
      BY <3>0
    <3>3. /\ Len(taps') = Len(taps)
          /\ \A j \in 1..Len(taps) :
               /\ taps'[j].user = taps[j].user /\ taps'[j].window = taps[j].window
               /\ taps'[j].event = taps[j].event
               /\ taps'[j].done = IF j = tapOf[w] THEN d ELSE taps[j].done
      BY <3>1, <3>2, TapDone
    <3>4. ASSUME NEW o \in Workers \ {w}, tapOf[o] # 0
          PROVE  tapOf[o] # tapOf[w] /\ tapOf[o] \in 1..Len(taps)
      BY <1>0, <3>2, <3>4 DEF Serves
    <3>5. ASSUME NEW o \in Workers \ {w}, tapOf[o] # 0 PROVE Serves(o, tapOf[o])'
      BY <1>0, <2>0, <3>2, <3>3, <3>4, <3>5, StillServes DEF OthersSame
    <3> QED
      BY <1>0, <3>2, <3>5 DEF ServersOK
  <2> QED
    BY <2>1, <2>2
<1>5. ASSUME NEW w \in Workers, Inserted(w) PROVE ServersOK'
  <2>1. /\ taps' = taps /\ tapOf' = tapOf /\ OthersSame(w)
        /\ pc'[w] = "refresh" /\ req'[w].user = req[w].user
        /\ req'[w].window = req[w].window /\ call'[w].event = call[w].event
    BY <1>5 DEF Inserted
  <2>2. ASSUME NEW o \in Workers \ {w}, tapOf[o] # 0 PROVE Serves(o, tapOf[o])'
    BY <1>0, <2>1, <2>2, StillServes DEF OthersSame, Serves
  <2>3. tapOf[w] # 0 => Serves(w, tapOf[w])'
    BY <1>0, <2>1 DEF Serves, ReservePC
  <2> QED
    BY <1>0, <2>1, <2>2, <2>3 DEF ServersOK
<1> QED
  BY <1>1, <1>2, <1>3, <1>4, <1>5 DEF StepKind

-----------------------------------------------------------------------------
(* What the users are told *)

\* The tap is still the request that it was.
SameRequest(i) ==
  /\ i \in 1..Len(taps)
  /\ taps'[i].phone = taps[i].phone /\ taps'[i].user = taps[i].user
  /\ taps'[i].event = taps[i].event /\ taps'[i].window = taps[i].window

\* Success is told to one who waited for it, and who waits is on the screen
\* that asked.
TellStep ==
  \A i \in 1..Len(taps') :
    /\ taps'[i].told = "success" =>
         SameRequest(i) /\ taps[i].told \in {"success", "waiting"}
    /\ taps'[i].told = "waiting" => Screen(taps[i].phone)' = "booking"

SameScreens == \A p \in Phones : Screen(p)' = Screen(p)

LEMMA ToldStep ==
  ASSUME AppLinks, [AppNext]_appVars
  PROVE  TellStep
<1>0. /\ taps \in Seq(Tap) /\ Len(taps) \in Nat
      /\ \A i \in 1..Len(taps) :
           /\ taps[i] \in Tap /\ taps[i].phone \in Phones
           /\ taps[i].told = "waiting" => Screen(taps[i].phone) = "booking"
      /\ app \in [Phones -> Phone]
      /\ \A p \in Phones : app[p] \in Phone
  <2>1. taps \in Seq(Tap) /\ app \in [Phones -> Phone] /\ WaitingOK
    BY DEF AppLinks, TapsOK, ScreensOK
  <2>2. Len(taps) \in Nat /\ \A i \in 1..Len(taps) : taps[i] \in Tap
    BY <2>1
  <2>3. \A i \in 1..Len(taps) : taps[i].phone \in Phones
    BY <2>2 DEF Tap
  <2> QED
    BY <2>1, <2>2, <2>3 DEF WaitingOK
<1>1. ASSUME taps' = taps, SameScreens PROVE TellStep
  BY <1>0, <1>1 DEF TellStep, SameRequest, SameScreens
<1>2. ASSUME app' = app PROVE SameScreens
  BY <1>2 DEF SameScreens, Screen
<1>3. ASSUME NEW q \in Phones, NEW form, app' = [app EXCEPT ![q].form = form]
      PROVE  SameScreens
  <2>1. ASSUME NEW p \in Phones PROVE app'[p].stack = app[p].stack
    BY <1>0, <1>3 DEF Phone
  <2> QED
    BY <2>1 DEF SameScreens, Screen
<1>4. ASSUME NEW w, NEW n \in {0, 1}, Cancelled(w, n) PROVE SameScreens
  BY <1>4, CancelledForm DEF SameScreens, Screen
<1>5. ASSUME NEW i \in 1..Len(taps), NEW d \in {"working", "granted", "refused"},
             taps' = [taps EXCEPT ![i].done = d], SameScreens
      PROVE  TellStep
  <2>1. /\ Len(taps') = Len(taps)
        /\ \A j \in 1..Len(taps) :
             /\ taps'[j].user = taps[j].user /\ taps'[j].window = taps[j].window
             /\ taps'[j].event = taps[j].event /\ taps'[j].told = taps[j].told
             /\ taps'[j].phone = taps[j].phone
    BY <1>5, TapDone
  <2> QED
    BY <1>0, <1>5, <2>1 DEF TellStep, SameRequest, SameScreens
<1>6. ASSUME NEW w \in Workers, NEW d \in {"granted", "refused"}, Outcome(w, d), SameScreens
      PROVE  TellStep
  <2>1. tapOf[w] # 0 => tapOf[w] \in 1..Len(taps)
    BY DEF AppLinks, ServersOK, Serves
  <2> QED
    BY <1>1, <1>5, <1>6, <2>1 DEF Outcome
<1>7. ASSUME NEW q \in Phones, NEW stack, NEW u, Navigate(q, stack, u) PROVE TellStep
  <2>1. taps' = Silenced(q) /\ \A p \in Phones \ {q} : app'[p] = app[p]
    BY <1>0, <1>7 DEF Navigate
  <2>2. \A p \in Phones \ {q} : Screen(p)' = Screen(p)
    BY <2>1 DEF Screen
  <2> QED
    BY <1>0, <2>1, <2>2, SilencedTaps DEF TellStep, SameRequest
<1>8. ASSUME NEW p \in Phones, PhoneStep(p) PROVE TellStep
  <2>1. CASE \/ Login(p) \/ OpenLot(p) \/ OpenReservations(p)
             \/ Back(p) \/ BackToHome(p) \/ Recreate(p)
    BY <1>7, <2>1 DEF Login, OpenLot, OpenReservations, Back, BackToHome, Recreate
  <2>2. CASE \/ \E win \in Windows : Edit(p, win)
             \/ TapSearch(p) \/ Choose(p)
             \/ \E e \in 0..Len(events) : ShowResults(p, e)
    BY <1>1, <1>3, <2>2 DEF Edit, TapSearch, Choose, ShowResults, Expects, SetForm
  <2>3. CASE ListStep(p)
    BY <1>1, <1>3, <2>3, ListForms DEF ListForm
  <2>4. CASE Confirm(p)
    <3> DEFINE t == [phone |-> p, user |-> app[p].user,
                     window |-> app[p].form.window, event |-> app[p].form.chosen,
                     done |-> "sent", told |-> "waiting"]
    <3>1. Fits(Screen(p), app[p].form)
      BY DEF AppLinks, ScreensOK, PhoneOK, Screen
    <3>2. Screen(p) = "booking"
      BY <2>4, <3>1 DEF Confirm, Fits
    <3>3. taps' = Append(taps, t) /\ app' = app
      BY <2>4 DEF Confirm
    <3>4. t.phone = p /\ t.told = "waiting"
      OBVIOUS
    <3> HIDE DEF t
    <3>5. /\ Len(taps') = Len(taps) + 1 /\ taps'[Len(taps) + 1] = t
          /\ \A i \in 1..Len(taps) : taps'[i] = taps[i]
      BY <1>0, <3>3
    <3>6. SameScreens
      BY <1>2, <3>3
    <3>7. ASSUME NEW i \in 1..Len(taps') PROVE i \in 1..Len(taps) \/ i = Len(taps) + 1
      BY <1>0, <3>5
    <3> QED
      BY <1>0, <3>2, <3>4, <3>5, <3>6, <3>7 DEF TellStep, SameRequest, SameScreens
  <2> QED
    BY <1>8, <2>1, <2>2, <2>3, <2>4 DEF PhoneStep, ListStep
<1>9. ASSUME NEW i \in 1..Len(taps), taps' = [taps EXCEPT ![i].told = "failure"], app' = app
      PROVE  TellStep
  <2> DEFINE t == [taps[i] EXCEPT !.told = "failure"]
  <2>1. t.told = "failure"
    BY <1>0 DEF Tap
  <2>2. taps' = [taps EXCEPT ![i] = t]
    BY <1>9
  <2> HIDE DEF t
  <2>3. /\ Len(taps') = Len(taps)
        /\ \A j \in 1..Len(taps) : taps'[j] = IF j = i THEN t ELSE taps[j]
    BY <1>0, <2>2
  <2> QED
    BY <1>0, <1>2, <1>9, <2>1, <2>3 DEF TellStep, SameRequest, SameScreens
<1>10. ASSUME NEW i \in 1..Len(taps), taps[i].told = "waiting",
              taps' = [Silenced(taps[i].phone) EXCEPT ![i].told = "success"],
              app' = [app EXCEPT ![taps[i].phone].stack = Append(@, "success"),
                                 ![taps[i].phone].form = Entered("success")]
       PROVE  TellStep
  <2>1. PICK q \in Phones : q = taps[i].phone
    BY <1>0
  <2>2. PICK old : old = Silenced(q)
    OBVIOUS
  <2>3. /\ old \in Seq(Tap) /\ Len(old) = Len(taps)
        /\ \A j \in 1..Len(taps) :
             /\ old[j] \in Tap
             /\ old[j].user = taps[j].user /\ old[j].window = taps[j].window
             /\ old[j].event = taps[j].event /\ old[j].phone = taps[j].phone
             /\ old[j].told = "success" => taps[j].told = "success"
             /\ old[j].told = "waiting" => taps[j].told = "waiting" /\ taps[j].phone # q
    BY <2>2, SilencedTaps
  <2> DEFINE t == [old[i] EXCEPT !.told = "success"]
  <2>4. /\ t.told = "success" /\ t.user = old[i].user /\ t.window = old[i].window
        /\ t.event = old[i].event /\ t.phone = old[i].phone
    BY <2>3 DEF Tap
  <2>5. taps' = [old EXCEPT ![i] = t]
    BY <1>10, <2>1, <2>2
  <2> HIDE DEF t
  <2>6. /\ Len(taps') = Len(taps)
        /\ \A j \in 1..Len(taps) : taps'[j] = IF j = i THEN t ELSE old[j]
    BY <2>3, <2>5
  <2>7. \A p \in Phones \ {q} : Screen(p)' = Screen(p)
    <3>1. \A p \in Phones \ {q} : app'[p] = app[p]
      BY <1>0, <1>10, <2>1
    <3> QED
      BY <3>1 DEF Screen
  <2>8. ASSUME NEW j \in 1..Len(taps'), j # i
        PROVE  /\ taps'[j].told = "success" => SameRequest(j) /\ taps[j].told = "success"
               /\ taps'[j].told = "waiting" => Screen(taps[j].phone)' = "booking"
    <3>1. taps'[j] = old[j] /\ j \in 1..Len(taps)
      BY <2>6, <2>8
    <3>2. taps'[j].told = "waiting" =>
            /\ taps[j].phone \in Phones \ {q} /\ taps'[j].phone = taps[j].phone
            /\ Screen(taps[j].phone) = "booking"
      BY <1>0, <2>3, <3>1
    <3> QED
      BY <2>3, <2>7, <3>1, <3>2 DEF SameRequest
  <2>9. taps'[i].told = "success" /\ SameRequest(i)
    BY <2>3, <2>4, <2>6 DEF SameRequest
  <2> QED
    BY <1>10, <2>8, <2>9 DEF TellStep
<1>11. ASSUME NEW i \in 1..Len(taps),
              ShowAnswer(i) \/ TimesOut(i) \/ \E w \in Workers : Deliver(w, i)
       PROVE  TellStep
  <2>1. CASE ShowAnswer(i)
    BY <1>9, <1>10, <2>1 DEF ShowAnswer
  <2>2. CASE TimesOut(i)
    BY <1>9, <2>2 DEF TimesOut
  <2>3. ASSUME NEW w \in Workers, Deliver(w, i) PROVE TellStep
    BY <1>2, <1>5, <2>3 DEF Deliver
  <2> QED
    BY <1>11, <2>1, <2>2, <2>3
<1>12. CASE ServiceStep
  <2>1. ASSUME NEW w \in Workers, ServeStep(w) PROVE TellStep
    BY <1>2, <1>6, <2>1 DEF ServeStep
  <2>2. ASSUME NEW w \in Workers,
               \/ Outcome(w, "refused") /\ Cancelled(w, 0)
               \/ Cancelled(w, 1) /\ UNCHANGED <<taps, tapOf>>
        PROVE  TellStep
    BY <1>1, <1>4, <1>6, <2>2
  <2>3. ASSUME NEW w \in Workers, Outcome(w, "refused"), UNCHANGED app PROVE TellStep
    BY <1>2, <1>6, <2>3
  <2>4. ASSUME UNCHANGED <<app, taps, tapOf>> PROVE TellStep
    BY <1>1, <1>2, <2>4
  <2>5. ASSUME NEW v \in PricingWorkers, PricingFails(v), caller[v] # NoCaller,
               Outcome(caller[v], "refused"), UNCHANGED app
        PROVE  TellStep
    <3>1. caller[v] \in Workers
      BY <2>5 DEF AppLinks, LinkInv, CallersOK, CallersTyped
    <3> QED
      BY <2>3, <2>5, <3>1
  <2>6. ASSUME NEW v \in PricingWorkers, PricingFails(v), UNCHANGED app,
               IF caller[v] = NoCaller THEN UNCHANGED <<taps, tapOf>>
                 ELSE Outcome(caller[v], "refused")
        PROVE  TellStep
    BY <2>4, <2>5, <2>6
  <2> QED
    BY <1>12, <2>1, <2>2, <2>3, <2>4, <2>6 DEF ServiceStep
<1>13. CASE UNCHANGED appVars
  BY <1>1, <1>2, <1>13 DEF appVars
<1> QED
  BY <1>8, <1>11, <1>12, <1>13 DEF AppNext

-----------------------------------------------------------------------------
(* The lists of reservations *)

\* A list that a phone shows, or is about to, it had before or was read now.
LEMMA AnswersStep ==
  ASSUME AppLinks, [AppNext]_appVars, NEW p \in Phones, NEW l \in Answers(p)'
  PROVE  \/ l \in Answers(p)
         \/ l = ListReservations(Account[p]) /\ UNCHANGED <<systemVars, taps>>
<1> DEFINE Goal == \/ l \in Answers(p)
                   \/ l = ListReservations(Account[p]) /\ UNCHANGED <<systemVars, taps>>
<1>0. app \in [Phones -> Phone] /\ app[p] \in Phone /\ app[p].form \in Form
  BY DEF AppLinks, ScreensOK, Phone
<1>1. ASSUME app' = app PROVE Goal
  BY <1>1 DEF Answers
<1>2. ASSUME NEW q \in Phones, NEW form, app' = [app EXCEPT ![q].form = form],
             form.lists = app[q].form.lists, form.shown = app[q].form.shown
      PROVE  Goal
  <2>1. app'[p].form = IF p = q THEN form ELSE app[p].form
    BY <1>0, <1>2 DEF Phone
  <2> QED
    BY <1>2, <2>1 DEF Answers
<1>3. ASSUME NEW q \in Phones, NEW screen, q # p => app'[p] = app[p],
             q = p => app'[p].form = Entered(screen)
      PROVE  Goal
  BY <1>3 DEF Answers, Entered
<1>4. ASSUME NEW q \in Phones, PhoneStep(q) PROVE Goal
  <2>0. app[q] \in Phone /\ app[q].form \in Form
    BY DEF AppLinks, ScreensOK, Phone
  <2>1. ASSUME NEW stack, NEW u, Navigate(q, stack, u) PROVE Goal
    <3>1. /\ q # p => app'[p] = app[p]
          /\ q = p => app'[p].form = Entered(stack[Len(stack)])
      BY <1>0, <2>1 DEF Navigate
    <3> QED
      BY <1>3, <3>1
  <2>2. CASE \/ Login(q) \/ OpenLot(q) \/ OpenReservations(q)
             \/ Back(q) \/ BackToHome(q) \/ Recreate(q)
    BY <2>1, <2>2 DEF Login, OpenLot, OpenReservations, Back, BackToHome, Recreate
  <2>3. ASSUME NEW win, Edit(q, win) PROVE Goal
    <3> DEFINE f == [app[q].form EXCEPT !.window = win]
    <3>1. f.lists = app[q].form.lists /\ f.shown = app[q].form.shown
      BY <2>0 DEF Form
    <3>2. app' = [app EXCEPT ![q].form = f]
      BY <2>3 DEF Edit, SetForm
    <3> HIDE DEF f
    <3> QED
      BY <1>2, <3>1, <3>2
  <2>4. CASE TapSearch(q)
    <3>3. PICK e : Expects(q, e)
      BY <2>4 DEF TapSearch
    <3> DEFINE f == [app[q].form EXCEPT !.coming = @ \cup {e}]
    <3>1. f.lists = app[q].form.lists /\ f.shown = app[q].form.shown
      BY <2>0 DEF Form
    <3>2. app' = [app EXCEPT ![q].form = f]
      BY <3>3 DEF Expects, SetForm
    <3> HIDE DEF f
    <3> QED
      BY <1>2, <3>1, <3>2
  <2>5. ASSUME NEW e, ShowResults(q, e) PROVE Goal
    <3> DEFINE f == [app[q].form EXCEPT !.coming = @ \ {e}, !.found = e]
    <3>1. f.lists = app[q].form.lists /\ f.shown = app[q].form.shown
      BY <2>0 DEF Form
    <3>2. app' = [app EXCEPT ![q].form = f]
      BY <2>5 DEF ShowResults, SetForm
    <3> HIDE DEF f
    <3> QED
      BY <1>2, <3>1, <3>2
  <2>6. CASE Choose(q)
    <3> DEFINE f == [app[q].form EXCEPT !.chosen = app[q].form.found]
    <3>1. f.lists = app[q].form.lists /\ f.shown = app[q].form.shown
      BY <2>0 DEF Form
    <3>2. app' = [app EXCEPT ![q].form = f]
      BY <2>6 DEF Choose, SetForm
    <3> HIDE DEF f
    <3> QED
      BY <1>2, <3>1, <3>2
  <2>7. CASE Confirm(q)
    BY <1>1, <2>7 DEF Confirm
  <2>8. CASE ListStep(q)
    <3>1. ListForm(q)
      BY <2>8, ListForms
    <3>2. PICK f \in Form :
            /\ app' = [app EXCEPT ![q].form = f]
            /\ \A k \in f.lists \cup f.shown :
                 k \in Answers(q) \/ (k = ListReservations(Account[q]) /\ UNCHANGED systemVars)
            /\ UNCHANGED <<taps, tapOf>>
      BY <3>1 DEF ListForm
    <3>3. app'[p].form = IF p = q THEN f ELSE app[p].form
      BY <1>0, <3>2 DEF Phone
    <3> QED
      BY <3>2, <3>3 DEF Answers
  <2> QED
    BY <1>4, <2>2, <2>3, <2>4, <2>5, <2>6, <2>7, <2>8 DEF PhoneStep, ListStep
<1>5. ASSUME NEW i \in 1..Len(taps),
             ShowAnswer(i) \/ TimesOut(i) \/ \E w \in Workers : Deliver(w, i)
      PROVE  Goal
  <2>1. taps[i] \in Tap
    BY DEF AppLinks, TapsOK
  <2>2. PICK q \in Phones : q = taps[i].phone
    BY <2>1 DEF Tap
  <2>3. ASSUME app' = [app EXCEPT ![q].stack = Append(@, "success"),
                                  ![q].form = Entered("success")]
        PROVE  Goal
    <3>1. /\ q # p => app'[p] = app[p]
          /\ q = p => app'[p].form = Entered("success")
      BY <1>0, <2>3 DEF Phone
    <3> QED
      BY <1>3, <3>1
  <2> QED
    BY <1>1, <1>5, <2>2, <2>3 DEF ShowAnswer, TimesOut, Deliver
<1>6. CASE ServiceStep
  <2>1. ASSUME NEW w, NEW n \in {0, 1}, Cancelled(w, n) PROVE Goal
    BY <2>1, CancelledForm DEF Answers
  <2> QED
    BY <1>1, <1>6, <2>1 DEF ServiceStep, ServeStep
<1>7. CASE UNCHANGED appVars
  BY <1>1, <1>7 DEF appVars
<1> QED
  BY <1>4, <1>5, <1>6, <1>7 DEF AppNext

\* Lists that were true once err only by what was cancelled since.
LEMMA ListsStep ==
  ASSUME AppLinks, [AppNext]_appVars
  PROVE  ListsArePast'
<1>0. [Next]_vars
  <2>1. [SystemNext]_systemVars
    BY AppStepInside
  <2> QED
    BY <2>1, InventoryStep DEF AppLinks, LinkInv, CallersOK
<1>1. RowsStay
  BY <1>0, RowsStayStep DEF AppLinks
<1>2. SUFFICES ASSUME NEW p \in Phones, NEW l \in Answers(p)', NEW r \in l
               PROVE  /\ r.row \in 1..Len(reservations')
                      /\ reservations'[r.row].user = Account[p]
                      /\ r.status = "cancelled" => reservations'[r.row].status = "cancelled"
  BY DEF ListsArePast
<1>3. CASE l \in Answers(p)
  BY <1>1, <1>3 DEF RowsStay, ListsArePast, AppLinks
<1>4. CASE l = ListReservations(Account[p]) /\ reservations' = reservations
  BY <1>4 DEF ListReservations
<1> QED
  BY <1>3, <1>4, AnswersStep DEF systemVars, vars

\* The inductive invariant holds of the app.
LEMMA AppLinksStep ==
  ASSUME AppLinks, [AppNext]_appVars
  PROVE  AppLinks' /\ OffersGrow
<1>1. TypeOK' /\ LinkInv' /\ OffersGrow
  BY AppStepInside, LinksStep DEF AppLinks
<1>2. WaitingOK'
  BY ToldStep DEF TellStep, WaitingOK
<1> QED
  BY <1>1, <1>2, ScreensStep, StepKinds, TapsStep, ServersStep, ListsStep DEF AppLinks

LEMMA AppLinked == AppSpec => []AppLinks
<1>1. AppInit => AppLinks
  BY AppLinksInit
<1>2. AppLinks /\ [AppNext]_appVars => AppLinks'
  BY AppLinksStep
<1> QED
  BY <1>1, <1>2, PTL DEF AppSpec

-----------------------------------------------------------------------------
(* Theorems about the app *)

\* The phones, the gateway and the services are well typed, and the worker that
\* serves a tap is the only one.
THEOREM AppTypeCorrect == AppSpec => []AppTypeOK
<1>1. AppLinks => AppTypeOK
  BY AppLinksTyped
<1> QED
  BY <1>1, AppLinked, PTL

\* No app ever confirms an offer that was made to somebody else.
THEOREM OwnOffersConfirmed == AppSpec => []ConfirmsOwnOffers
<1>1. AppLinks => ConfirmsOwnOffers
  BY AppLinksTyped
<1> QED
  BY <1>1, AppLinked, PTL

\* Phones are clients like any other: what was proved of the system for every
\* client holds with the app in front of it.
THEOREM SystemInside == AppSpec => SystemSpec
<1>1. AppInit => SystemInit
  BY DEF AppInit
<1>2. AppLinks /\ [AppNext]_appVars => [SystemNext]_systemVars
  BY AppStepInside
<1> QED
  BY <1>1, <1>2, AppLinked, PTL DEF AppSpec, SystemSpec

\* The phones get what the two services promise together: the contract.
COROLLARY AppKeepsContract == AppSpec => RefinesContract
BY SystemInside, ContractKept

\* However often the button is tapped and whatever is retried, an offer yields at
\* most one reservation per thread of the pricing service.
COROLLARY AppReservesBounded == AppSpec => []ReservationsBounded
BY SystemInside, OffersReserveBounded, PTL

-----------------------------------------------------------------------------
(* Success is only told of reservations *)

\* The services have inserted tap i's row and its request has not failed since.
Granted(i) ==
  \/ taps[i].done = "granted"
  \/ \E w \in Workers : tapOf[w] = i /\ pc[w] = "refresh"

Counted(u, e, win) == {i \in TapsFor(u, e, win) : Granted(i)}

\* The inductive invariant: each of these taps has a row of its own.
CountOK(u, e, win) ==
  Cardinality(Counted(u, e, win)) <= Cardinality(ReservedFor(u, e, win))
CountInv == \A u \in Users, e \in Nat, win \in Windows : CountOK(u, e, win)

LEMMA CountedFinite ==
  ASSUME AppLinks, NEW u, NEW e, NEW win
  PROVE  /\ IsFiniteSet(Counted(u, e, win)) /\ Cardinality(Counted(u, e, win)) \in Nat
         /\ IsFiniteSet(ReservedFor(u, e, win)) /\ Cardinality(ReservedFor(u, e, win)) \in Nat
<1>1. Len(taps) \in Nat /\ Len(bookings) \in Nat
  BY DEF AppLinks, TapsOK, LinkInv, BookingsTyped
<1>2. IsFiniteSet(Counted(u, e, win))
  <2>1. Counted(u, e, win) \in SUBSET (1..Len(taps))
    BY DEF Counted, TapsFor
  <2>2. IsFiniteSet(1..Len(taps))
    BY <1>1, FS_Interval
  <2> QED
    BY <2>1, <2>2, FS_Subset
<1>3. IsFiniteSet(ReservedFor(u, e, win))
  <2>1. ReservedFor(u, e, win) \in SUBSET Reserved(e)
    BY DEF ReservedFor
  <2> QED
    BY <1>1, <2>1, ReservedFinite, FS_Subset
<1> QED
  BY <1>2, <1>3, FS_CardinalityType

\* No row is lost, or comes to be somebody else's.
LEMMA RowsGrow ==
  ASSUME AppLinks, [SystemNext]_systemVars, NEW u, NEW e, NEW win
  PROVE  ReservedFor(u, e, win) \subseteq ReservedFor(u, e, win)'
<1>0. /\ bookings \in Seq([event: Nat, price: Nat])
      /\ Len(bookings) = Len(reservations) /\ Len(bookings) \in Nat
  BY DEF AppLinks, LinkInv, BookingsTyped
<1>1. CASE \A w \in Workers : ~(Reserve(w) /\ pc'[w] # "idle")
  <2>1. /\ bookings' = bookings
        /\ \A i \in 1..Len(reservations) :
             /\ reservations'[i].user = reservations[i].user
             /\ reservations'[i].window = reservations[i].window
    BY <1>1, RowsKept DEF AppLinks, LinkInv, CallersOK
  <2> QED
    BY <1>0, <2>1 DEF ReservedFor, Reserved
<1>2. ASSUME NEW w \in Workers, Reserve(w), pc'[w] # "idle"
      PROVE  ReservedFor(u, e, win) \subseteq ReservedFor(u, e, win)'
  <2> DEFINE b == [event |-> call[w].event, price |-> call[w].price]
  <2>1. /\ bookings' = Append(bookings, b)
        /\ \A i \in 1..Len(reservations) : reservations'[i] = reservations[i]
    BY <1>2, RowInserted DEF AppLinks
  <2> HIDE DEF b
  <2>2. /\ Len(bookings') = Len(bookings) + 1
        /\ \A i \in 1..Len(bookings) : bookings'[i] = bookings[i]
    BY <1>0, <2>1
  <2> QED
    BY <1>0, <2>1, <2>2 DEF ReservedFor, Reserved
<1> QED
  BY <1>1, <1>2

\* No step but the insertion of a row makes a tap granted.
LEMMA NoneGranted ==
  ASSUME AppLinks, StepKind, \A w \in Workers : ~Inserted(w), NEW u, NEW e, NEW win
  PROVE  Counted(u, e, win)' \subseteq Counted(u, e, win)
<1>0. /\ taps \in Seq(Tap) /\ Len(taps) \in Nat
      /\ tapOf \in [Workers -> Nat]
      /\ \A w \in Workers : tapOf[w] # 0 => Serves(w, tapOf[w])
      /\ \A w, o \in Workers : tapOf[w] # 0 /\ tapOf[w] = tapOf[o] => w = o
  BY DEF AppLinks, TapsOK, ServersOK
<1>1. SUFFICES ASSUME NEW i \in 1..Len(taps'), Granted(i)',
                      taps'[i].user = u, taps'[i].event = e, taps'[i].window = win
               PROVE  /\ i \in 1..Len(taps) /\ Granted(i)
                      /\ taps[i].user = u /\ taps[i].event = e /\ taps[i].window = win
  BY DEF Counted, TapsFor
<1>a. /\ i # 0
      /\ \/ taps'[i].done = "granted"
         \/ \E w \in Workers : tapOf'[w] = i /\ pc'[w] = "refresh"
  BY <1>1 DEF Granted
<1>2. CASE Undisturbed
  <2>1. TapsKept /\ Len(taps') \in Nat /\ tapOf' = tapOf /\ AllSame
    BY <1>2 DEF Undisturbed, TapsKept
  <2>2. \A w \in Workers : tapOf[w] = i /\ pc'[w] = "refresh" =>
          pc[w] = "refresh" /\ i \in 1..Len(taps)
    BY <1>0, <1>a, <2>1 DEF AllSame, Same, Serves
  <2>3. i \in 1..Len(taps)
    <3>1. CASE i \in Len(taps) + 1..Len(taps')
      BY <1>a, <2>1, <2>2, <3>1 DEF TapsKept
    <3> QED
      BY <1>0, <2>1, <3>1
  <2>4. SameTap(i)
    BY <2>1, <2>3 DEF TapsKept
  <2> QED
    BY <1>1, <1>a, <2>1, <2>2, <2>3, <2>4 DEF SameTap, Granted
<1>3. ASSUME NEW w \in Workers, NEW j \in 1..Len(taps), Taken(w, j)
      PROVE  /\ i \in 1..Len(taps) /\ Granted(i)
             /\ taps[i].user = u /\ taps[i].event = e /\ taps[i].window = win
  <2>0. taps' = [taps EXCEPT ![j].done = "working"]
    BY <1>3 DEF Taken
  <2>1. /\ Len(taps') = Len(taps)
        /\ \A k \in 1..Len(taps) :
             /\ taps'[k].user = taps[k].user /\ taps'[k].window = taps[k].window
             /\ taps'[k].event = taps[k].event
             /\ taps'[k].done = IF k = j THEN "working" ELSE taps[k].done
    BY <2>0, TapDone
  <2>2. /\ tapOf' = [tapOf EXCEPT ![w] = j] /\ pc'[w] = "pricing" /\ OthersSame(w)
    BY <1>3 DEF Taken
  <2>3. ASSUME NEW o \in Workers, tapOf'[o] = i, pc'[o] = "refresh" PROVE Granted(i)
    <3>1. o # w
      BY <2>2, <2>3
    <3>2. tapOf[o] = i
      BY <1>0, <2>2, <2>3, <3>1
    <3>3. pc[o] = "refresh"
      BY <1>a, <2>2, <2>3, <3>1, <3>2 DEF OthersSame, Same
    <3> QED
      BY <3>2, <3>3 DEF Granted
  <2>4. taps'[i].done = "granted" => taps[i].done = "granted"
    BY <1>1, <2>1
  <2> QED
    BY <1>1, <1>a, <2>1, <2>3, <2>4 DEF Granted
<1>4. ASSUME NEW j \in 1..Len(taps), RefusedAtOnce(j)
      PROVE  /\ i \in 1..Len(taps) /\ Granted(i)
             /\ taps[i].user = u /\ taps[i].event = e /\ taps[i].window = win
  <2>0. taps' = [taps EXCEPT ![j].done = "refused"] /\ tapOf' = tapOf /\ AllSame
    BY <1>4 DEF RefusedAtOnce
  <2>1. /\ Len(taps') = Len(taps)
        /\ \A k \in 1..Len(taps) :
             /\ taps'[k].user = taps[k].user /\ taps'[k].window = taps[k].window
             /\ taps'[k].event = taps[k].event
             /\ taps'[k].done = IF k = j THEN "refused" ELSE taps[k].done
    BY <2>0, TapDone
  <2>2. ASSUME NEW o \in Workers, tapOf'[o] = i, pc'[o] = "refresh" PROVE Granted(i)
    BY <1>a, <2>0, <2>2 DEF AllSame, Same, Granted
  <2>3. taps'[i].done = "granted" => taps[i].done = "granted"
    BY <1>1, <2>1
  <2> QED
    BY <1>1, <1>a, <2>1, <2>2, <2>3 DEF Granted
<1>5. ASSUME NEW w \in Workers, Answered(w), ~Undisturbed
      PROVE  /\ i \in 1..Len(taps) /\ Granted(i)
             /\ taps[i].user = u /\ taps[i].event = e /\ taps[i].window = win
  <2>0. /\ tapOf[w] \in 1..Len(taps) /\ tapOf' = [tapOf EXCEPT ![w] = 0]
        /\ \E d \in {"granted", "refused"} :
             /\ taps' = [taps EXCEPT ![tapOf[w]].done = d]
             /\ d = "granted" => pc[w] = "refresh"
        /\ OthersSame(w)
    BY <1>5, AnsweredTap DEF Answered
  <2>1. PICK d \in {"granted", "refused"} :
          /\ taps' = [taps EXCEPT ![tapOf[w]].done = d]
          /\ d = "granted" => pc[w] = "refresh"
    BY <2>0
  <2>2. /\ Len(taps') = Len(taps)
        /\ \A k \in 1..Len(taps) :
             /\ taps'[k].user = taps[k].user /\ taps'[k].window = taps[k].window
             /\ taps'[k].event = taps[k].event
             /\ taps'[k].done = IF k = tapOf[w] THEN d ELSE taps[k].done
    <3>1. /\ tapOf[w] \in 1..Len(taps) /\ d \in {"working", "granted", "refused"}
          /\ taps' = [taps EXCEPT ![tapOf[w]].done = d]
      BY <2>0, <2>1
    <3> QED
      BY <3>1, TapDone
  <2>3. ASSUME NEW o \in Workers, tapOf'[o] = i, pc'[o] = "refresh" PROVE Granted(i)
    <3>1. o # w /\ tapOf[o] = i
      BY <1>0, <1>a, <2>0, <2>3
    <3>2. pc[o] = "refresh"
      BY <1>a, <2>0, <2>3, <3>1 DEF OthersSame, Same
    <3> QED
      BY <3>1, <3>2 DEF Granted
  <2>4. taps'[i].done = "granted" => Granted(i)
    BY <1>1, <2>1, <2>2 DEF Granted
  <2> QED
    BY <1>1, <1>a, <2>2, <2>3, <2>4
<1> QED
  BY <1>2, <1>3, <1>4, <1>5 DEF StepKind

\* The insertion of a row grants the tap it was made for.
LEMMA OneGranted ==
  ASSUME AppLinks, AppLinks', NEW w \in Workers, Inserted(w), [SystemNext]_systemVars,
         NEW u, NEW e, NEW win, CountOK(u, e, win)
  PROVE  CountOK(u, e, win)'
<1>0. /\ Len(taps) \in Nat /\ bookings \in Seq([event: Nat, price: Nat])
      /\ Len(bookings) = Len(reservations) /\ Len(bookings) \in Nat
      /\ \A o \in Workers : tapOf[o] # 0 => Serves(o, tapOf[o])
  BY DEF AppLinks, TapsOK, ServersOK, LinkInv, BookingsTyped
<1>1. /\ taps' = taps /\ tapOf' = tapOf /\ OthersSame(w)
      /\ Reserve(w) /\ pc'[w] # "idle"
  BY DEF Inserted
<1> DEFINE b == [event |-> call[w].event, price |-> call[w].price]
           n == Len(bookings) + 1
<1>2. /\ bookings' = Append(bookings, b)
      /\ reservations'[n].user = req[w].user
      /\ reservations'[n].window = req[w].window
  BY <1>0, <1>1, RowInserted DEF AppLinks
<1>3. b.event = call[w].event
  OBVIOUS
<1> HIDE DEF b
<1>4. Len(bookings') = n /\ bookings'[n] = b
  BY <1>0, <1>2
<1> HIDE DEF n
<1>5. ASSUME NEW i, i \in Counted(u, e, win)', i # tapOf[w] PROVE i \in Counted(u, e, win)
  <2>1. /\ i \in 1..Len(taps) /\ i # 0
        /\ taps[i].user = u /\ taps[i].event = e /\ taps[i].window = win
        /\ \/ taps[i].done = "granted"
           \/ \E o \in Workers \ {w} : tapOf[o] = i /\ pc'[o] = "refresh"
    BY <1>1, <1>5 DEF Counted, TapsFor, Granted
  <2>2. Granted(i)
    BY <1>1, <2>1 DEF OthersSame, Same, Granted
  <2> QED
    BY <2>1, <2>2 DEF Counted, TapsFor
<1>6. /\ IsFiniteSet(Counted(u, e, win)) /\ Cardinality(Counted(u, e, win)) \in Nat
      /\ IsFiniteSet(ReservedFor(u, e, win)) /\ Cardinality(ReservedFor(u, e, win)) \in Nat
  BY CountedFinite
<1>7. /\ IsFiniteSet(Counted(u, e, win)') /\ Cardinality(Counted(u, e, win)') \in Nat
      /\ IsFiniteSet(ReservedFor(u, e, win)') /\ Cardinality(ReservedFor(u, e, win)') \in Nat
  <2>1. IsFiniteSet(Counted(u, e, win)')
    <3>1. Counted(u, e, win)' \in SUBSET (1..Len(taps))
      BY <1>1 DEF Counted, TapsFor
    <3>2. IsFiniteSet(1..Len(taps))
      BY <1>0, FS_Interval
    <3> QED
      BY <3>1, <3>2, FS_Subset
  <2>2. IsFiniteSet(ReservedFor(u, e, win)')
    <3>1. ReservedFor(u, e, win)' \in SUBSET (1..Len(bookings'))
      BY DEF ReservedFor, Reserved
    <3>2. Len(bookings') \in Nat
      BY <1>0, <1>4 DEF n
    <3>3. IsFiniteSet(1..Len(bookings'))
      BY <3>2, FS_Interval
    <3> QED
      BY <3>1, <3>3, FS_Subset
  <2> QED
    BY <2>1, <2>2, FS_CardinalityType
<1>8. ReservedFor(u, e, win) \subseteq ReservedFor(u, e, win)'
  BY RowsGrow
<1>9. CASE tapOf[w] \notin Counted(u, e, win)'
  <2>1. Counted(u, e, win)' \subseteq Counted(u, e, win)
    BY <1>5, <1>9
  <2>2. Cardinality(Counted(u, e, win)') <= Cardinality(Counted(u, e, win))
    BY <1>6, <2>1, FS_Subset
  <2>3. Cardinality(ReservedFor(u, e, win)) <= Cardinality(ReservedFor(u, e, win)')
    BY <1>7, <1>8, FS_Subset
  <2> QED
    BY <1>6, <1>7, <2>2, <2>3 DEF CountOK
<1>10. CASE tapOf[w] \in Counted(u, e, win)'
  <2>1. /\ tapOf[w] \in 1..Len(taps)
        /\ taps[tapOf[w]].user = u /\ taps[tapOf[w]].event = e
        /\ taps[tapOf[w]].window = win
    BY <1>1, <1>10 DEF Counted, TapsFor
  <2>2. req[w].user = u /\ req[w].window = win /\ call[w].event = e
    BY <1>0, <2>1 DEF Serves
  <2>3. n \in ReservedFor(u, e, win)' /\ n \notin ReservedFor(u, e, win)
    <3>1. n \in 1..n /\ n \notin 1..Len(bookings)
      BY <1>0 DEF n
    <3> QED
      BY <1>2, <1>3, <1>4, <2>2, <3>1 DEF ReservedFor, Reserved
  <2>4. Cardinality(ReservedFor(u, e, win) \cup {n}) = Cardinality(ReservedFor(u, e, win)) + 1
    BY <1>6, <2>3, FS_AddElement
  <2>5. Cardinality(ReservedFor(u, e, win) \cup {n}) <= Cardinality(ReservedFor(u, e, win)')
    <3>1. ReservedFor(u, e, win) \cup {n} \in SUBSET (ReservedFor(u, e, win)')
      BY <1>8, <2>3
    <3> QED
      BY <1>7, <3>1, FS_Subset
  <2>6. /\ IsFiniteSet(Counted(u, e, win) \cup {tapOf[w]})
        /\ Cardinality(Counted(u, e, win) \cup {tapOf[w]})
             <= Cardinality(Counted(u, e, win)) + 1
    <3>1. PICK S : S = Counted(u, e, win)
      OBVIOUS
    <3>2. /\ IsFiniteSet(S \cup {tapOf[w]})
          /\ Cardinality(S \cup {tapOf[w]}) = Cardinality(S)
               \/ Cardinality(S \cup {tapOf[w]}) = Cardinality(S) + 1
      BY <1>6, <3>1, FS_AddElement
    <3> QED
      BY <1>6, <3>1, <3>2
  <2>7. Cardinality(Counted(u, e, win)')
          <= Cardinality(Counted(u, e, win) \cup {tapOf[w]})
    <3>1. Counted(u, e, win)' \in SUBSET (Counted(u, e, win) \cup {tapOf[w]})
      BY <1>5
    <3> QED
      BY <2>6, <3>1, FS_Subset
  <2>8. Cardinality(Counted(u, e, win) \cup {tapOf[w]}) \in Nat
    BY <2>6, FS_CardinalityType
  <2> QED
    BY <1>6, <1>7, <2>4, <2>5, <2>6, <2>7, <2>8 DEF CountOK
<1> QED
  BY <1>9, <1>10

\* The bound that SuccessIsReserved follows from.
LEMMA Counts == AppSpec => []CountInv
<1>1. AppInit => CountInv
  <2> SUFFICES ASSUME AppInit, NEW u, NEW e, NEW win PROVE CountOK(u, e, win)
    BY DEF CountInv
  <2>1. Counted(u, e, win) = {} /\ ReservedFor(u, e, win) = {}
    BY DEF AppInit, SystemInit, Counted, TapsFor, ReservedFor, Reserved
  <2>2. Cardinality({}) = 0
    BY FS_EmptySet
  <2> QED
    BY <2>1, <2>2 DEF CountOK
<1>2. AppLinks /\ AppLinks' /\ CountInv /\ [AppNext]_appVars => CountInv'
  <2> SUFFICES ASSUME AppLinks, AppLinks', CountInv, [AppNext]_appVars,
                      NEW u \in Users, NEW e \in Nat, NEW win \in Windows
               PROVE  CountOK(u, e, win)'
    BY DEF CountInv
  <2>1. StepKind /\ [SystemNext]_systemVars /\ CountOK(u, e, win)
    BY AppLinksStep, StepKinds, AppStepInside DEF AppLinks, CountInv
  <2>2. ASSUME NEW w \in Workers, Inserted(w) PROVE CountOK(u, e, win)'
    BY <2>1, <2>2, OneGranted
  <2>3. CASE \A w \in Workers : ~Inserted(w)
    <3>1. Counted(u, e, win)' \subseteq Counted(u, e, win)
      BY <2>1, <2>3, NoneGranted
    <3>2. ReservedFor(u, e, win) \subseteq ReservedFor(u, e, win)'
      BY <2>1, RowsGrow
    <3>3. /\ IsFiniteSet(Counted(u, e, win)) /\ Cardinality(Counted(u, e, win)) \in Nat
          /\ Cardinality(ReservedFor(u, e, win)) \in Nat
      BY CountedFinite
    <3>4. /\ IsFiniteSet(ReservedFor(u, e, win)')
          /\ Cardinality(ReservedFor(u, e, win)') \in Nat
      <4>1. ReservedFor(u, e, win)' \in SUBSET (1..Len(bookings'))
        BY DEF ReservedFor, Reserved
      <4>2. Len(bookings') \in Nat
        BY DEF AppLinks, LinkInv, BookingsTyped
      <4>3. IsFiniteSet(1..Len(bookings'))
        BY <4>2, FS_Interval
      <4> QED
        BY <4>1, <4>3, FS_Subset, FS_CardinalityType
    <3>5. /\ Cardinality(Counted(u, e, win)') <= Cardinality(Counted(u, e, win))
          /\ IsFiniteSet(Counted(u, e, win)')
      BY <3>1, <3>3, FS_Subset
    <3>6. Cardinality(ReservedFor(u, e, win)) <= Cardinality(ReservedFor(u, e, win)')
      BY <3>2, <3>4, FS_Subset
    <3>7. Cardinality(Counted(u, e, win)') \in Nat
      BY <3>5, FS_CardinalityType
    <3> QED
      BY <2>1, <3>3, <3>4, <3>5, <3>6, <3>7 DEF CountOK
  <2> QED
    BY <2>2, <2>3
<1> QED
  BY <1>1, <1>2, AppLinked, PTL DEF AppSpec

\* Who is told of success has a reservation of the offer and the window that
\* were confirmed, and one for each such answer, however taps are doubled,
\* delayed or given up, and whichever service fails.
THEOREM SuccessesAreReserved == AppSpec => []SuccessIsReserved
<1>1. AppLinks /\ CountInv => SuccessIsReserved
  <2> SUFFICES ASSUME AppLinks, CountInv, NEW u \in Users, NEW e \in 1..Len(events),
                      NEW win \in Windows
               PROVE  Cardinality({i \in TapsFor(u, e, win) : taps[i].told = "success"})
                        <= Cardinality(ReservedFor(u, e, win))
    BY DEF SuccessIsReserved
  <2> DEFINE told == {i \in TapsFor(u, e, win) : taps[i].told = "success"}
  <2>1. told \in SUBSET Counted(u, e, win)
    BY DEF AppLinks, TapsOK, TapOK, TapsFor, Counted, Granted
  <2> HIDE DEF told
  <2>2. CountOK(u, e, win)
    BY DEF CountInv
  <2>3. /\ IsFiniteSet(Counted(u, e, win)) /\ Cardinality(Counted(u, e, win)) \in Nat
        /\ Cardinality(ReservedFor(u, e, win)) \in Nat
    BY CountedFinite
  <2>4. IsFiniteSet(told) /\ Cardinality(told) <= Cardinality(Counted(u, e, win))
    BY <2>1, <2>3, FS_Subset
  <2>5. Cardinality(told) \in Nat
    BY <2>4, FS_CardinalityType
  <2>6. Cardinality(told) <= Cardinality(ReservedFor(u, e, win))
    BY <2>2, <2>3, <2>4, <2>5 DEF CountOK
  <2> QED
    BY <2>6 DEF told
<1> QED
  BY <1>1, AppLinked, Counts, PTL

\* However late and out of order lists of reservations arrive, they are of the
\* account they were asked for, and what they show as cancelled stays so.
THEOREM ListsAreTrue == AppSpec => []ListsArePast
<1>1. AppLinks => ListsArePast
  BY DEF AppLinks
<1> QED
  BY <1>1, AppLinked, PTL

\* The taps of phone p that were told of success, and their rows on a list.
Told(p, e, win) ==
  {i \in TapsFor(Account[p], e, win) : taps[i].phone = p /\ taps[i].told = "success"}
Listed(p, l, e, win) ==
  {i \in ReservedFor(Account[p], e, win) : \E r \in l : r.row = i}

ListedOK(p, l, e, win) ==
  Cardinality(Told(p, e, win)) <= Cardinality(Listed(p, l, e, win))

ListedInv ==
  \A p \in Phones : \A l \in Answers(p) :
    \A e \in Nat, win \in Windows : ListedOK(p, l, e, win)

\* A list that is read now has every row that a success announced.
LEMMA ReadNow ==
  ASSUME AppLinks, CountInv, NEW p \in Phones, NEW e \in Nat, NEW win \in Windows
  PROVE  ListedOK(p, ListReservations(Account[p]), e, win)
<1> DEFINE u == Account[p]
           l == ListReservations(u)
<1>1. Told(p, e, win) \in SUBSET Counted(u, e, win)
  BY DEF AppLinks, TapsOK, TapOK, TapsFor, Counted, Granted, Told
<1>2. Listed(p, l, e, win) = ReservedFor(u, e, win)
  <2>1. ASSUME NEW i \in ReservedFor(u, e, win) PROVE \E r \in l : r.row = i
    <3>1. i \in 1..Len(reservations) /\ reservations[i].user = u
      BY <2>1 DEF ReservedFor, Reserved, AppLinks, LinkInv, BookingsTyped
    <3>2. [row |-> i, status |-> reservations[i].status] \in l
      BY <3>1 DEF ListReservations
    <3> QED
      BY <3>2
  <2> QED
    BY <2>1 DEF Listed
<1>3. CountOK(u, e, win)
  BY PhonesAssumption DEF CountInv
<1> HIDE DEF u, l
<1>4. /\ IsFiniteSet(Counted(u, e, win)) /\ Cardinality(Counted(u, e, win)) \in Nat
      /\ Cardinality(ReservedFor(u, e, win)) \in Nat
  BY CountedFinite
<1>5. IsFiniteSet(Told(p, e, win)) /\ Cardinality(Told(p, e, win)) <= Cardinality(Counted(u, e, win))
  BY <1>1, <1>4, FS_Subset
<1>6. Cardinality(Told(p, e, win)) \in Nat
  BY <1>5, FS_CardinalityType
<1> QED
  BY <1>2, <1>3, <1>4, <1>5, <1>6 DEF CountOK, ListedOK, u, l

\* As long as a list is shown nobody waits for an answer on that phone.
LEMMA OldList ==
  ASSUME AppLinks, AppLinks', [AppNext]_appVars, NEW p \in Phones, NEW l \in Answers(p),
         NEW e \in Nat, NEW win \in Windows, ListedOK(p, l, e, win)
  PROVE  ListedOK(p, l, e, win)'
<1>1. Screen(p) # "booking"
  BY DEF AppLinks, ScreensOK, PhoneOK, Screen, Fits, Answers
<1>2. Told(p, e, win)' \subseteq Told(p, e, win)
  <2>1. SUFFICES ASSUME NEW i \in Told(p, e, win)' PROVE i \in Told(p, e, win)
    OBVIOUS
  <2>2. /\ i \in 1..Len(taps') /\ taps'[i].told = "success" /\ taps'[i].phone = p
        /\ taps'[i].user = Account[p] /\ taps'[i].event = e /\ taps'[i].window = win
    BY <2>1 DEF Told, TapsFor
  <2>3. SameRequest(i) /\ taps[i].told \in {"success", "waiting"}
    BY <2>2, ToldStep DEF TellStep
  <2>4. taps[i].phone = p /\ i \in 1..Len(taps)
    BY <2>2, <2>3 DEF SameRequest
  <2>5. taps[i].told = "success"
    BY <1>1, <2>3, <2>4 DEF AppLinks, WaitingOK
  <2> QED
    BY <2>2, <2>3, <2>4, <2>5 DEF Told, TapsFor, SameRequest
<1>3. Listed(p, l, e, win) \subseteq Listed(p, l, e, win)'
  BY AppStepInside, RowsGrow DEF Listed
<1>4. /\ IsFiniteSet(Told(p, e, win)) /\ Cardinality(Told(p, e, win)) \in Nat
      /\ Cardinality(Listed(p, l, e, win)) \in Nat
  <2>1. Told(p, e, win) \in SUBSET (1..Len(taps)) /\ Len(taps) \in Nat
    BY DEF Told, TapsFor, AppLinks, TapsOK
  <2>2. Listed(p, l, e, win) \in SUBSET ReservedFor(Account[p], e, win)
    BY DEF Listed
  <2>3. IsFiniteSet(ReservedFor(Account[p], e, win)) /\ IsFiniteSet(1..Len(taps))
    BY <2>1, CountedFinite, FS_Interval
  <2>4. IsFiniteSet(Told(p, e, win)) /\ IsFiniteSet(Listed(p, l, e, win))
    BY <2>1, <2>2, <2>3, FS_Subset
  <2> QED
    BY <2>4, FS_CardinalityType
<1>5. IsFiniteSet(Listed(p, l, e, win)') /\ Cardinality(Listed(p, l, e, win)') \in Nat
  <2>1. Listed(p, l, e, win)' \in SUBSET (1..Len(bookings'))
    BY DEF Listed, ReservedFor, Reserved
  <2>2. Len(bookings') \in Nat
    BY DEF AppLinks, LinkInv, BookingsTyped
  <2>3. IsFiniteSet(1..Len(bookings'))
    BY <2>2, FS_Interval
  <2> QED
    BY <2>1, <2>3, FS_Subset, FS_CardinalityType
<1>6. /\ Cardinality(Told(p, e, win)') <= Cardinality(Told(p, e, win))
      /\ IsFiniteSet(Told(p, e, win)')
  BY <1>2, <1>4, FS_Subset
<1>7. Cardinality(Listed(p, l, e, win)) <= Cardinality(Listed(p, l, e, win)')
  BY <1>3, <1>5, FS_Subset
<1>8. Cardinality(Told(p, e, win)') \in Nat
  BY <1>6, FS_CardinalityType
<1> QED
  BY <1>4, <1>5, <1>6, <1>7, <1>8 DEF ListedOK

\* What a phone has announced is on every list of the account that it then
\* shows, also when answers to a tap and to a request for the list race.
THEOREM SuccessesAreListed == AppSpec => []SuccessIsListed
<1>1. AppInit => ListedInv
  <2>1. ASSUME AppInit, NEW p \in Phones PROVE Answers(p) = {}
    BY <2>1 DEF AppInit, Answers, Entered
  <2> QED
    BY <2>1 DEF ListedInv
<1>2. AppLinks /\ AppLinks' /\ CountInv' /\ ListedInv /\ [AppNext]_appVars => ListedInv'
  <2> SUFFICES ASSUME AppLinks, AppLinks', CountInv', ListedInv, [AppNext]_appVars,
                      NEW p \in Phones, NEW l \in Answers(p)',
                      NEW e \in Nat, NEW win \in Windows
               PROVE  ListedOK(p, l, e, win)'
    BY DEF ListedInv
  <2>1. CASE l \in Answers(p)
    <3>1. ListedOK(p, l, e, win)
      BY <2>1 DEF ListedInv
    <3> QED
      BY <2>1, <3>1, OldList
  <2>2. CASE l = ListReservations(Account[p]) /\ UNCHANGED systemVars
    <3>1. ListReservations(Account[p])' = ListReservations(Account[p])
      BY <2>2 DEF systemVars, vars, ListReservations
    <3>2. ListedOK(p, ListReservations(Account[p]), e, win)'
      BY ReadNow, PTL
    <3> QED
      BY <2>2, <3>1, <3>2
  <2> QED
    BY <2>1, <2>2, AnswersStep
<1>3. AppLinks /\ ListedInv => SuccessIsListed
  <2>1. ASSUME AppLinks PROVE Len(events) \in Nat
    BY <2>1 DEF AppLinks, LinkInv, Prc!TypeOK
  <2> QED
    BY <2>1 DEF ListedInv, ListedOK, Told, Listed, SuccessIsListed
<1> QED
  BY <1>1, <1>2, <1>3, AppLinked, Counts, PTL DEF AppSpec
=============================================================================
