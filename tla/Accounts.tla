------------------------------ MODULE Accounts ------------------------------
(***************************************************************************)
(* Logging in and signing up: the app's one button, the gateway's /login   *)
(* and /users, and the worker threads of the inventory service that look   *)
(* an account up or create one.  create_user asks for a row with the name  *)
(* or the e-mail and inserts a row later, and no constraint backs the      *)
(* question.  The two fields stay open to editing during an attempt and    *)
(* are read again for the sign-up that follows a login: what is read there *)
(* is any name and any e-mail.  Row i of accounts has the i-th user_id     *)
(* handed out.  The nameless rows that reserve_spot inserts match no query *)
(* and are left out.                                                       *)
(***************************************************************************)
EXTENDS Naturals, Sequences, FiniteSets

CONSTANTS
  Workers,   \* threads of the inventory server's executor
  Devices,   \* phones with the app
  Names, Emails,  \* what the fields may hold
  Blanks,    \* those of them that are blank
  MaxTaps    \* bound: attempts to log in

VARIABLES
  accounts,  \* inventory.users
  job,       \* the insert each worker is about to make
  device,    \* the login screen of each phone
  taps       \* number of attempts so far

accountVars == <<accounts, job, device, taps>>

ASSUME AccountsAssumption == IsFiniteSet(Workers) /\ MaxTaps \in Nat

-----------------------------------------------------------------------------
(* State *)

Account == [name: Names, email: Emails]

\* A worker between the query and the insert of create_user, and the phone it
\* answers: none when that phone has given up.
NoDevice == [kind |-> "nobody"]
Job == [name: Names, email: Emails, asker: Devices \cup {NoDevice}]
NoJob == [kind |-> "none"]

\* What the phone waits for: nothing, the answer of /login, a thread for
\* /users, its answer; "in" with the user_id it was given.  The name and the
\* e-mail are those of the request it sent last.
Screen == [at: {"form", "login", "signup", "creating", "in"},
           name: Names, email: Emails, id: Nat]

ASSUME NoDeviceAssumption == NoDevice \notin Devices

\* Phone d waits for the insert of worker w.
Awaits(d, w) ==
  /\ device[d].at = "creating"
  /\ job[w].name = device[d].name /\ job[w].email = device[d].email

AccountsTypeOK ==
  /\ accounts \in Seq(Account)
  /\ job \in [Workers -> {NoJob} \cup Job]
  /\ device \in [Devices -> Screen]
  /\ taps \in 0..MaxTaps
  /\ \A w \in Workers : job[w] # NoJob /\ job[w].asker # NoDevice =>
       Awaits(job[w].asker, w)

AccountsInit ==
  /\ accounts = << >>
  /\ job = [w \in Workers |-> NoJob]
  /\ device \in [Devices -> {[at |-> "form", name |-> n, email |-> e, id |-> 0] :
                               n \in Names, e \in Emails}]
  /\ taps = 0

-----------------------------------------------------------------------------
(* The phone *)

Moves(d, at) == device' = [device EXCEPT ![d].at = at]
LogsIn(d, id) == device' = [device EXCEPT ![d].at = "in", ![d].id = id]

\* A request is sent with what the fields hold now.
Sends(d, at, n, e) ==
  device' = [device EXCEPT ![d] = [at |-> at, name |-> n, email |-> e, id |-> 0]]

\* The button is pressed: it is disabled while a field is blank, and until the
\* attempt has ended.
TapLogin(d, n, e) ==
  /\ device[d].at = "form" /\ taps < MaxTaps
  /\ n \notin Blanks /\ e \notin Blanks
  /\ Sends(d, "login", n, e)
  /\ taps' = taps + 1
  /\ UNCHANGED <<accounts, job>>

\* The app is closed and started again, or the user goes back to the form.
Leave(d) ==
  /\ device[d].at = "in"
  /\ Moves(d, "form")
  /\ UNCHANGED <<accounts, job, taps>>

\* Mutant of GiveUp: the answer still finds the phone.
GiveUpListening(d) ==
  /\ device[d].at \in {"login", "signup", "creating"}
  /\ Moves(d, "form")
  /\ UNCHANGED <<accounts, job, taps>>

\* The HTTP client times out or the connection breaks: the attempt has failed
\* for the phone, and a worker that serves it goes on for nobody.
GiveUp(d) ==
  /\ device[d].at \in {"login", "signup", "creating"}
  /\ Moves(d, "form")
  /\ job' = [w \in Workers |-> IF job[w] # NoJob /\ job[w].asker = d
                                 THEN [job[w] EXCEPT !.asker = NoDevice]
                                 ELSE job[w]]
  /\ UNCHANGED <<accounts, taps>>

-----------------------------------------------------------------------------
(* The inventory service *)

\* Mutant of Matching: either of the two is enough.
MatchingEither(n, e) ==
  {i \in 1..Len(accounts) : accounts[i].name = n \/ accounts[i].email = e}

\* The rows verify_user's query returns; it takes one of them, in no order.
Matching(n, e) ==
  {i \in 1..Len(accounts) : accounts[i].name = n /\ accounts[i].email = e}

\* Mutants of Taken: only the exact pair counts; the e-mail is not looked at.
TakenPair(n, e) == Matching(n, e) # {}
TakenName(n, e) == \E i \in 1..Len(accounts) : accounts[i].name = n

\* create_user's query finds a row.
Taken(n, e) == \E i \in 1..Len(accounts) : accounts[i].name = n \/ accounts[i].email = e

\* A thread runs verify_user for phone d; not found, or an exception, which
\* verify_user reports as not found, sends the phone on to sign up, with what
\* the fields hold by then: they may have been edited, and be blank.
VerifyUser(w, d) ==
  /\ job[w] = NoJob /\ device[d].at = "login"
  /\ \/ \E i \in Matching(device[d].name, device[d].email) : LogsIn(d, i)
     \/ \E n \in Names, e \in Emails : Sends(d, "signup", n, e)
  /\ UNCHANGED <<accounts, job, taps>>

\* A thread runs the query of create_user for phone d.
QueryUser(w, d) ==
  /\ job[w] = NoJob /\ device[d].at = "signup"
  /\ LET n == device[d].name
         e == device[d].email IN
       IF Taken(n, e)
         THEN Moves(d, "form") /\ UNCHANGED job
         ELSE /\ Moves(d, "creating")
              /\ job' = [job EXCEPT ![w] = [name |-> n, email |-> e, asker |-> d]]
  /\ UNCHANGED <<accounts, taps>>

\* The row is inserted and committed, and its user_id is the answer.
InsertUser(w) ==
  /\ job[w] # NoJob
  /\ accounts' = Append(accounts, [name |-> job[w].name, email |-> job[w].email])
  /\ IF job[w].asker = NoDevice THEN UNCHANGED device
     ELSE LogsIn(job[w].asker, Len(accounts'))
  /\ job' = [job EXCEPT ![w] = NoJob]
  /\ UNCHANGED taps

\* The insert fails and is rolled back; create_user answers failure.
InsertFails(w) ==
  /\ job[w] # NoJob
  /\ IF job[w].asker = NoDevice THEN UNCHANGED device
     ELSE Moves(job[w].asker, "form")
  /\ job' = [job EXCEPT ![w] = NoJob]
  /\ UNCHANGED <<accounts, taps>>

-----------------------------------------------------------------------------

AccountsNext ==
  \/ \E d \in Devices :
       \/ \E n \in Names, e \in Emails : TapLogin(d, n, e)
       \/ Leave(d)
       \/ GiveUp(d)
       \/ \E w \in Workers : VerifyUser(w, d) \/ QueryUser(w, d)
  \/ \E w \in Workers : InsertUser(w) \/ InsertFails(w)

AccountsSpec == AccountsInit /\ [][AccountsNext]_accountVars

-----------------------------------------------------------------------------
(* Properties *)

Named(n) == {i \in 1..Len(accounts) : accounts[i].name = n}
Mailed(e) == {i \in 1..Len(accounts) : accounts[i].email = e}

\* The workers that found name n (e-mail e) free and have not inserted yet.
InsertingName(n) == {w \in Workers : job[w] # NoJob /\ job[w].name = n}
InsertingEmail(e) == {w \in Workers : job[w] # NoJob /\ job[w].email = e}

\* No name and no e-mail is shared by more accounts than there are worker
\* threads, however sign-ups race and phones repeat an attempt that timed out.
SharersBounded ==
  /\ \A n \in Names : Cardinality(Named(n)) <= Cardinality(Workers)
  /\ \A e \in Emails : Cardinality(Mailed(e)) <= Cardinality(Workers)

\* Why: the question finds nothing only while nobody has the name, and from
\* then on each insert turns a worker that had asked into a row.
SharersMargin ==
  /\ \A n \in Names :
       Cardinality(Named(n)) + Cardinality(InsertingName(n)) <= Cardinality(Workers)
  /\ \A e \in Emails :
       Cardinality(Mailed(e)) + Cardinality(InsertingEmail(e)) <= Cardinality(Workers)

\* A phone that is logged in acts for an account with the name and the e-mail
\* of the request that was answered: never for one of an attempt it had given
\* up, and not for one of its login call when the fields were edited before the
\* sign-up.
IdentityMatches ==
  \A d \in Devices : device[d].at = "in" =>
    /\ device[d].id \in 1..Len(accounts)
    /\ accounts[device[d].id] = [name |-> device[d].name, email |-> device[d].email]

\* Whoever signs up or logs in with the same name and e-mail gets the same
\* user_id (login1["user_id"] == user1_id, tests/test_end_to_end.py:115).
\* False of the two threads of the server.
OneIdentity ==
  \A c, d \in Devices :
    ( /\ device[c].at = "in" /\ device[d].at = "in"
      /\ device[c].name = device[d].name
      /\ device[c].email = device[d].email )
    => device[c].id = device[d].id
=============================================================================
